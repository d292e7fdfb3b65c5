------------------------- MODULE SwarmHistory_proofs -------------------------
(***************************************************************************)
(* Theorems about SwarmJob and the causes of SwarmHistory, for any names,  *)
(* processes, modes and budgets: types and scripts, what the poller stops, *)
(* and what a job leaves behind.                                           *)
(***************************************************************************)
EXTENDS SwarmHistory, TLAPS

\* RunScript brings its own copies of the definitions of JobStore and Bounds.
LEMMA SameStore ==
    /\ Api!Rows = Rows
    /\ Api!Statuses = Statuses
    /\ Api!Absent = Absent
    /\ Api!JobWorkers = JobWorkers
    /\ Api!JobExists = JobExists
    /\ Api!Kinds = Kinds
    /\ Absent \notin Statuses
    /\ Api!store = store
  BY DEF Api!Rows, Rows, Api!Statuses, Statuses, Api!Absent, Absent, Api!JobWorkers,
         JobWorkers, Api!JobExists, JobExists, Api!Kinds, Kinds, Api!UserKinds,
         UserKinds, Api!FaultKinds, FaultKinds, Api!store, store

\* The handlers are at well-formed steps.
TaskOK == task \in [Procs -> Api!Tasks \union {Api!Idle}]
WebInv == TaskOK /\ ShapeOK

Fine(t) == /\ t \in Api!Tasks \union {Api!Idle}
           /\ t.pc \in Api!RowPcs => t.cur \in Rows

\* A process goes on at a well-formed step.
LEMMA PutFine ==
    ASSUME WebInv, NEW p \in Procs, NEW t, Fine(t),
           task' = [task EXCEPT ![p] = t]
    PROVE  WebInv'
  BY DEF WebInv, TaskOK, ShapeOK, Fine

LEMMA IdleFine == Fine(Api!Idle)
  BY DEF Fine, Api!Idle, Api!RowPcs

LEMMA GotoFine ==
    ASSUME WebInv, NEW p \in Procs, NEW t, Fine(t), Api!Goto(p, t)
    PROVE  WebInv'
  BY PutFine DEF Api!Goto

LEMMA EndFine ==
    ASSUME WebInv, NEW p \in Procs, Api!End(p)
    PROVE  WebInv'
  BY GotoFine, IdleFine DEF Api!End

LEMMA BeginFine ==
    ASSUME WebInv, NEW p \in Procs, NEW t, Fine(t), Api!Begin(p, t)
    PROVE  WebInv'
  BY PutFine DEF Api!Begin

\* A busy process whose step is another one of its operation.
LEMMA ToFine ==
    ASSUME WebInv, NEW p \in Procs, task[p].pc # "idle", NEW pc \in Api!Pcs,
           pc \in Api!RowPcs => task[p].cur \in Rows, Api!To(p, pc)
    PROVE  WebInv'
<1> DEFINE t == [task[p] EXCEPT !.pc = pc]
<1>1. task[p] \in Api!Tasks
  BY DEF WebInv, TaskOK, Api!Idle
<1>2. Fine(t)
  BY <1>1 DEF Fine, Api!Tasks
<1> QED
  BY <1>2, GotoFine DEF Api!To

\* The handler of a request, a message or a user.
LEMMA HandlerFine ==
    ASSUME NEW op \in Api!Ops, NEW pc \in Api!Pcs, NEW cur \in Rows \union {NoRow},
           NEW out \in Statuses \union {Absent},
           NEW req \in Api!Requests \union {Api!NoReq},
           pc \in Api!RowPcs => cur \in Rows
    PROVE  Fine(Api!Handler(op, pc, cur, out, req))
  BY SameStore DEF Fine, Api!Handler, Api!Tasks

\* The loop of AvesJob.start.
LEMMA NextWorkerFine ==
    ASSUME WebInv, NEW p \in Procs, task[p].pc # "idle", NEW rows \in SUBSET Rows,
           Api!NextWorker(p, rows)
    PROVE  WebInv'
<1>1. CASE rows = {}
  BY <1>1, EndFine DEF Api!NextWorker
<1>2. CASE rows # {}
  <2>1. PICK r \in rows :
           Api!Goto(p, [task[p] EXCEPT !.pc = "config", !.cur = r,
                                       !.todo = rows \ {r}])
    BY <1>2 DEF Api!NextWorker
  <2>2. task[p] \in Api!Tasks
    BY DEF WebInv, TaskOK, Api!Idle
  <2>3. Fine([task[p] EXCEPT !.pc = "config", !.cur = r, !.todo = rows \ {r}])
    BY <2>2, SameStore DEF Fine, Api!Tasks, Api!Pcs, Api!StartPcs
  <2> QED
    BY <2>1, <2>3, GotoFine
<1> QED
  BY <1>1, <1>2

\* The end of the loop over the workers to stop.
LEMMA AfterStopFine ==
    ASSUME WebInv, NEW p \in Procs, task[p].pc # "idle", Api!AfterStop(p)
    PROVE  WebInv'
<1>1. CASE task[p].op # "cancel"
  BY <1>1, EndFine DEF Api!AfterStop
<1>2. CASE task[p].op = "cancel"
  <2> DEFINE t == [task[p] EXCEPT !.pc = "write", !.cur = NoRow]
  <2>1. task[p] \in Api!Tasks
    BY DEF WebInv, TaskOK, Api!Idle
  <2>2. Fine(t)
    BY <2>1, SameStore DEF Fine, Api!Tasks, Api!Pcs, Api!RowPcs
  <2> QED
    BY <1>2, <2>2, GotoFine DEF Api!AfterStop
<1> QED
  BY <1>1, <1>2

-----------------------------------------------------------------------------
(* The handlers that JobApi and SwarmJob share leave services and configs  *)
(* alone.                                                                  *)

QueueOK == /\ startMsgs \in Nat
           /\ inbox \in SUBSET Api!Requests
           /\ waiting \in SUBSET Api!Requests

Kept == WebInv /\ QueueOK /\ StoreOK /\ BudgetOK

LEMMA GotoQueue ==
    ASSUME QueueOK, NEW p, NEW t, Api!Goto(p, t)
    PROVE  QueueOK'
  BY DEF QueueOK, Api!Goto

LEMMA ToQueue ==
    ASSUME QueueOK, NEW p, NEW pc, Api!To(p, pc)
    PROVE  QueueOK'
  BY GotoQueue DEF Api!To

LEMMA EndQueue ==
    ASSUME QueueOK, NEW p, Api!End(p)
    PROVE  QueueOK'
  BY GotoQueue DEF Api!End

LEMMA AfterStopQueue ==
    ASSUME QueueOK, NEW p, Api!AfterStop(p)
    PROVE  QueueOK'
  BY GotoQueue, EndQueue DEF Api!AfterStop

LEMMA NextWorkerQueue ==
    ASSUME QueueOK, NEW p, NEW rows, Api!NextWorker(p, rows)
    PROVE  QueueOK'
  BY GotoQueue, EndQueue DEF Api!NextWorker

LEMMA SpendKept ==
    ASSUME BudgetOK, NEW k \in Kinds, Spend(k) \/ Api!Spend(k)
    PROVE  BudgetOK'
  BY DEF BudgetOK, Spend, Api!Spend

\* The saves of AvesJob.start, update_status and create.
LEMMA SavesKept ==
    ASSUME Kept, NEW p \in Procs,
           Api!StartMark(p) \/ Api!StartFail(p) \/ Api!WriteJob(p)
    PROVE  Kept' /\ UNCHANGED swarm
<1> USE SameStore DEF Kept, swarm, Api!cluster
<1>t. task[p] \in Api!Tasks \union {Api!Idle}
  BY DEF WebInv, TaskOK
<1>1. CASE Api!StartMark(p)
  <2>1. WebInv'
    BY <1>1, ToFine DEF Api!StartMark, Api!At, Api!Pcs, Api!StartPcs, Api!RowPcs
  <2>2. QueueOK'
    BY <1>1, ToQueue DEF Api!StartMark
  <2> QED
    BY <1>1, <2>1, <2>2 DEF Api!StartMark, Api!SaveJob, StoreOK, BudgetOK, Statuses
<1>2. CASE Api!StartFail(p)
  <2>1. WebInv' /\ QueueOK'
    BY <1>2, EndFine, EndQueue DEF Api!StartFail
  <2> QED
    BY <1>2, <2>1 DEF Api!StartFail, Api!SaveJob, StoreOK, BudgetOK, Statuses
<1>3. CASE Api!WriteJob(p)
  <2>1. WebInv'
    BY <1>3, ToFine, EndFine DEF Api!WriteJob, Api!Pcs, Api!StopPcs, Api!RowPcs
  <2>2. QueueOK'
    BY <1>3, ToQueue, EndQueue DEF Api!WriteJob
  <2>3. task[p].out \in Statuses \union {Absent}
    BY <1>3, <1>t DEF Api!WriteJob, Api!Tasks, Api!Idle
  <2> QED
    BY <1>3, <2>1, <2>2, <2>3 DEF Api!WriteJob, Api!SaveJob, StoreOK, BudgetOK
<1> QED
  BY <1>1, <1>2, <1>3

\* The other steps of starts, stops and worker reports.
LEMMA OthersKept ==
    ASSUME Kept, NEW p \in Procs,
           \/ Api!EnqueueStart(p) \/ Api!StartCount(p) \/ Api!MakeCheck(p)
           \/ Api!MakeInsert(p) \/ Api!StartList(p) \/ Api!StartSave(p)
           \/ Api!StopList(p) \/ Api!SaveRow(p)
    PROVE  Kept' /\ UNCHANGED swarm
<1> USE SameStore DEF Kept, swarm, Api!cluster
<1>t. task[p] \in Api!Tasks \union {Api!Idle}
  BY DEF WebInv, TaskOK
<1>u. ASSUME UNCHANGED Api!store PROVE StoreOK'
  BY <1>u DEF Api!store, StoreOK
<1>b. ASSUME UNCHANGED budget PROVE BudgetOK'
  BY <1>b DEF BudgetOK
<1>1. CASE Api!EnqueueStart(p)
  <2>1. WebInv'
    BY <1>1, PutFine, IdleFine DEF Api!EnqueueStart
  <2> QED
    BY <1>1, <2>1, <1>u, <1>b DEF Api!EnqueueStart, QueueOK
<1>2. CASE Api!StartCount(p) \/ Api!MakeCheck(p)
  <2>1. WebInv'
    BY <1>2, ToFine DEF Api!StartCount, Api!MakeCheck, Api!At, Api!Pcs,
                        Api!StartPcs, Api!RowPcs
  <2> QED
    BY <1>2, <2>1, <1>u, <1>b, ToQueue DEF Api!StartCount, Api!MakeCheck
<1>3. CASE Api!MakeInsert(p)
  <2>1. WebInv'
    BY <1>3, ToFine DEF Api!MakeInsert, Api!At, Api!Pcs, Api!StartPcs, Api!RowPcs
  <2>2. QueueOK'
    BY <1>3, ToQueue DEF Api!MakeInsert
  <2>3. StoreOK'
    <3>1. CASE UNCHANGED Api!store
      BY <3>1, <1>u
    <3>2. CASE Api!MakeWorkers /\ UNCHANGED job
      <4>1. made' \in 0 .. MaxMakes
        BY <3>2, StoreAssumption DEF Api!MakeWorkers, Api!CanMakeWorkers, StoreOK
      <4>2. wst' \in [Rows -> Statuses \union {Absent}]
        BY <3>2 DEF Api!MakeWorkers, StoreOK, Statuses
      <4> QED
        BY <3>2, <4>1, <4>2 DEF StoreOK
    <3> QED
      BY <1>3, <3>1, <3>2 DEF Api!MakeInsert
  <2> QED
    BY <1>3, <2>1, <2>2, <2>3, <1>b DEF Api!MakeInsert
<1>4. CASE Api!StartList(p)
  <2>1. WebInv'
    BY <1>4, NextWorkerFine DEF Api!StartList, Api!At, JobWorkers
  <2> QED
    BY <1>4, <2>1, <1>u, <1>b, NextWorkerQueue DEF Api!StartList
<1>5. CASE Api!StartSave(p)
  <2>1. task[p] \in Api!Tasks /\ task[p].pc # "idle"
    BY <1>5, <1>t DEF Api!StartSave, Api!At, Api!Idle
  <2>2. task[p].todo \in SUBSET Rows
    BY <2>1 DEF Api!Tasks
  <2>3. WebInv' /\ QueueOK'
    BY <1>5, <2>1, <2>2, NextWorkerFine, NextWorkerQueue, EndFine, EndQueue
       DEF Api!StartSave
  <2> QED
    BY <1>5, <2>3, <1>b DEF Api!StartSave, Api!SaveWorker, StoreOK, Statuses
<1>6. CASE Api!StopList(p)
  <2> DEFINE rows == {r \in JobWorkers : ~Api!Spared(task[p].op, r)}
             t == [task[p] EXCEPT !.pc = "stopPod", !.todo = rows]
  <2>1. Fine(t)
    <3>1. task[p] \in Api!Tasks /\ rows \in SUBSET Rows
      BY <1>6, <1>t DEF Api!StopList, Api!Idle, JobWorkers
    <3> HIDE DEF rows
    <3> QED
      BY <3>1 DEF Fine, Api!Tasks, Api!Pcs, Api!StopPcs, Api!RowPcs
  <2>2. Api!AfterStop(p) \/ Api!Goto(p, t)
    BY <1>6 DEF Api!StopList
  <2>3. WebInv' /\ QueueOK'
    BY <1>6, <2>1, <2>2, AfterStopFine, AfterStopQueue, GotoFine, GotoQueue
       DEF Api!StopList
  <2> QED
    BY <1>6, <2>3, <1>u, <1>b DEF Api!StopList
<1>7. CASE Api!SaveRow(p)
  <2>1. WebInv'
    BY <1>7, ToFine, EndFine DEF Api!SaveRow, Api!Pcs, Api!RowPcs
  <2>2. QueueOK'
    BY <1>7, ToQueue, EndQueue DEF Api!SaveRow
  <2>3. task[p].out \in Statuses \union {Absent}
    BY <1>7, <1>t DEF Api!SaveRow, Api!Tasks, Api!Idle
  <2> QED
    BY <1>7, <2>1, <2>2, <2>3, <1>b DEF Api!SaveRow, Api!SaveWorker, StoreOK
<1> QED
  BY <1>1, <1>2, <1>3, <1>4, <1>5, <1>6, <1>7

-----------------------------------------------------------------------------
(* The calls to docker.                                                    *)

SwarmOK == /\ svc \in [Names -> Services]
           /\ cfgs \in [Rows -> Procs \union {NoOwner}]
           /\ ScriptsStay
LocalOK == /\ Api!ScriptOK
           /\ poll \in [pc : PollPcs, old : BOOLEAN, todo : SUBSET Rows]
           /\ aged \in BOOLEAN
           /\ ScriptsRun

\* The invariant, by who changes what.
LEMMA Parts == IndInv <=> Kept /\ SwarmOK /\ LocalOK
  BY SameStore DEF IndInv, TypeOK, Kept, SwarmOK, LocalOK, WebInv, TaskOK, QueueOK,
                   Api!WebOK

LEMMA PartsNext ==
    ASSUME Kept', SwarmOK', LocalOK'
    PROVE  IndInv'
  BY SameStore DEF IndInv, TypeOK, Kept, SwarmOK, LocalOK, WebInv, TaskOK, QueueOK,
                   Api!WebOK, Api!Requests, Api!Rows, Rows

LEMMA SwarmStays ==
    ASSUME SwarmOK, UNCHANGED swarm
    PROVE  SwarmOK'
  BY DEF SwarmOK, swarm, ScriptsStay, Exists, HasConfigs

\* Configs belong to a process, and so are there.
LEMMA ConfigsMade ==
    ASSUME SwarmOK, NEW r \in Rows, NEW p \in Procs, MakeConfigs(r, p), UNCHANGED svc
    PROVE  SwarmOK'
<1>1. p # NoOwner
  BY SwarmAssumption
<1> QED
  BY <1>1 DEF SwarmOK, MakeConfigs, ScriptsStay, Exists, HasConfigs

\* The configs of a row go only when no service is there for it.
LEMMA ConfigsDeleted ==
    ASSUME SwarmOK, NEW r \in Rows, DeleteConfigs(r), UNCHANGED svc
    PROVE  SwarmOK'
<1>1. \A n \in Names : Exists(n) => svc[n].row # r
  BY DEF DeleteConfigs, InUse
<1> QED
  BY <1>1 DEF SwarmOK, DeleteConfigs, ScriptsStay, Exists, HasConfigs

LEMMA ServiceMade ==
    ASSUME SwarmOK, NEW r \in Rows, NEW p \in Procs, CanCreateService(r, p),
           NEW phase \in SvcPhases, CreateService(r, phase), UNCHANGED cfgs
    PROVE  SwarmOK'
<1> DEFINE s == [phase |-> phase, row |-> r]
<1>1. s \in Services /\ s.row = r
  BY DEF Services
<1>2. cfgs[r] # NoOwner
  BY SwarmAssumption DEF CanCreateService
<1>3. svc' = [svc EXCEPT ![NameOf(r)] = s]
  BY DEF CreateService
<1>4. \A n \in Names : svc'[n] = IF n = NameOf(r) THEN s ELSE svc[n]
  BY <1>3 DEF SwarmOK
<1>5. svc' \in [Names -> Services]
  BY <1>1, <1>3 DEF SwarmOK
<1> HIDE DEF s
<1>6. ScriptsStay'
  BY <1>1, <1>2, <1>4 DEF SwarmOK, ScriptsStay, Exists, HasConfigs
<1> QED
  BY <1>5, <1>6 DEF SwarmOK

LEMMA ServiceDeleted ==
    ASSUME SwarmOK, NEW n, DeleteService(n), UNCHANGED cfgs
    PROVE  SwarmOK'
<1>1. NoSvc \in Services /\ NoSvc.phase = "none"
  BY DEF NoSvc, Services, SvcPhases
<1>2. \A k \in Names : svc'[k] = NoSvc \/ svc'[k] = svc[k]
  BY DEF DeleteService, SwarmOK
<1>3. svc' \in [Names -> Services]
  BY <1>1 DEF DeleteService, SwarmOK
<1>4. ScriptsStay'
  BY <1>1, <1>2 DEF SwarmOK, ScriptsStay, Exists, HasConfigs
<1> QED
  BY <1>3, <1>4 DEF SwarmOK

\* What a task does keeps the service in its place.
LEMMA TaskMoved ==
    ASSUME SwarmOK, NEW n \in Names, NEW from \in SUBSET (SvcPhases \ {"none"}),
           NEW to \in SvcPhases, TaskMoves(n, from, to)
    PROVE  SwarmOK'
<1>1. svc[n] \in Services /\ svc[n].phase # "none"
  BY DEF TaskMoves, SwarmOK
<1> DEFINE s == [svc[n] EXCEPT !.phase = to]
<1>2. s \in Services /\ s.row = svc[n].row
  BY <1>1 DEF Services
<1>3. svc' = [svc EXCEPT ![n] = s] /\ cfgs' = cfgs
  BY DEF TaskMoves
<1> HIDE DEF s
<1>4. \A k \in Names : svc'[k].row = svc[k].row /\ (Exists(k)' => Exists(k))
  BY <1>1, <1>2, <1>3 DEF SwarmOK, Exists
<1> QED
  BY <1>2, <1>3, <1>4 DEF SwarmOK, ScriptsStay, HasConfigs

\* A handler at a config or a pod step has a row.
LEMMA CurIsRow ==
    ASSUME WebInv, NEW p \in Procs, task[p].pc \in Api!RowPcs
    PROVE  /\ task[p] \in Api!Tasks
           /\ task[p].cur \in Rows
  BY DEF WebInv, TaskOK, ShapeOK, Api!RowPcs, Api!Idle

LEMMA ConfigsKept ==
    ASSUME Kept, SwarmOK, NEW p \in Procs, StartConfigs(p)
    PROVE  Kept' /\ SwarmOK'
<1>1. task[p].cur \in Rows
  BY CurIsRow DEF Kept, StartConfigs, At, Api!RowPcs
<1>2. \/ Api!To(p, "pod")
      \/ Api!To(p, "fail")
  BY DEF StartConfigs
<1>3. WebInv'
  BY <1>1, <1>2, ToFine DEF Kept, StartConfigs, At, Api!Pcs, Api!StartPcs
<1>4. QueueOK'
  BY <1>2, ToQueue DEF Kept
<1>5. BudgetOK'
  BY SpendKept DEF Kept, StartConfigs, BudgetOK, Kinds, FaultKinds
<1>6. SwarmOK'
  BY <1>1, ConfigsMade, SwarmStays DEF StartConfigs, swarm
<1> QED
  BY <1>3, <1>4, <1>5, <1>6 DEF Kept, StartConfigs, store, StoreOK

LEMMA ServiceKept ==
    ASSUME Kept, SwarmOK, NEW p \in Procs, StartService(p)
    PROVE  Kept' /\ SwarmOK'
<1>1. task[p].cur \in Rows
  BY CurIsRow DEF Kept, StartService, At, Api!RowPcs
<1>2. \/ Api!To(p, "save")
      \/ Api!To(p, "fail")
  BY DEF StartService
<1>3. WebInv'
  BY <1>1, <1>2, ToFine DEF Kept, StartService, At, Api!Pcs, Api!StartPcs
<1>4. QueueOK'
  BY <1>2, ToQueue DEF Kept
<1>5. BudgetOK'
  BY SpendKept DEF Kept, StartService, BudgetOK, Kinds, FaultKinds
<1>6. SwarmOK'
  BY <1>1, ServiceMade, SwarmStays DEF StartService, swarm, SvcPhases
<1> QED
  BY <1>3, <1>4, <1>5, <1>6 DEF Kept, StartService, store, StoreOK

LEMMA StopConfigsKept ==
    ASSUME Kept, SwarmOK, NEW p \in Procs, StopConfigs(p)
    PROVE  Kept' /\ SwarmOK'
<1>1. task[p].cur \in Rows /\ task[p].pc = "stopCm"
  BY CurIsRow DEF Kept, StopConfigs, Api!RowPcs
<1>2. Api!AfterStop(p) \/ Api!To(p, "stopPod")
  BY DEF StopConfigs
<1>3. WebInv'
  BY <1>1, <1>2, ToFine, AfterStopFine DEF Kept, Api!Pcs, Api!StopPcs
<1>4. QueueOK'
  BY <1>2, ToQueue, AfterStopQueue DEF Kept
<1>5. BudgetOK'
  BY SpendKept DEF Kept, StopConfigs, BudgetOK, Kinds, FaultKinds
<1>6. SwarmOK'
  BY <1>1, ConfigsDeleted, SwarmStays DEF StopConfigs, swarm
<1> QED
  BY <1>3, <1>4, <1>5, <1>6 DEF Kept, StopConfigs, store, StoreOK

\* A stopped container says what its script may say.
LEMMA LastWordsAreRequests ==
    ASSUME SwarmOK, LocalOK, NEW n \in Names
    PROVE  LastWords(n) \in SUBSET Api!Requests
<1> DEFINE Says(kind, st) == [row |-> svc[n].row, kind |-> kind, st |-> st]
           OfJob(m) == IF Api!Reporter(n) THEN {m} ELSE {}
<1>1. CASE script[n] = "off"
  BY <1>1 DEF LastWords, Api!TrainPc
<1>2. CASE script[n] # "off"
  <2>1. svc[n].row \in Rows
    BY <1>2 DEF SwarmOK, LocalOK, ScriptsRun, ScriptsStay, Exists
  <2>2. \A kind \in {"wstat", "jstat", "jres"}, st \in {"RUNNING", "FINISHED", "FAILURE"} :
           Says(kind, st) \in Api!Requests
    BY <2>1, SameStore DEF Api!Requests
  <2>3. \/ LastWords(n) = {}
        \/ LastWords(n) = {Says("wstat", "RUNNING")}
        \/ LastWords(n) = OfJob(Says("jstat", "RUNNING"))
        \/ LastWords(n) = {Says("wstat", "FINISHED"), Says("wstat", "FAILURE")}
        \/ LastWords(n) = OfJob(Says("jres", "FINISHED"))
        \/ LastWords(n) = OfJob(Says("jres", "FAILURE"))
        \/ LastWords(n) = {Says("jres", "FAILURE")}
    BY DEF LastWords
  <2> HIDE DEF Says
  <2> QED
    BY <2>2, <2>3
<1> QED
  BY <1>1, <1>2

LEMMA ScriptStopsKept ==
    ASSUME Kept, LocalOK, NEW n \in Names, ScriptStops(n),
           \A k \in Names : k # n => svc'[k] = svc[k], UNCHANGED <<poll, aged>>
    PROVE  LocalOK' /\ waiting' \in SUBSET Api!Requests
<1>1. script' \in [Names -> Api!ScriptPcs] /\ script'[n] = "off"
  BY DEF LocalOK, Api!ScriptOK, ScriptStops, Api!ScriptPcs
<1>2. \A k \in Names : k # n => script'[k] = script[k]
  BY DEF LocalOK, Api!ScriptOK, ScriptStops
<1>3. ScriptsRun'
  BY <1>1, <1>2 DEF LocalOK, ScriptsRun
<1> QED
  BY <1>1, <1>3 DEF LocalOK, Api!ScriptOK, Kept, QueueOK, ScriptStops

LEMMA LocalStays ==
    ASSUME LocalOK, UNCHANGED <<script, svc, poll>>, aged' \in BOOLEAN
    PROVE  LocalOK'
  BY DEF LocalOK, Api!ScriptOK, ScriptsRun

LEMMA StopServiceKept ==
    ASSUME Kept, SwarmOK, LocalOK, NEW p \in Procs, StopService(p), UNCHANGED aged
    PROVE  Kept' /\ SwarmOK' /\ LocalOK'
<1>1. PICK r \in task[p].todo :
        /\ \/ /\ DeleteService(NameOf(r)) /\ ScriptStops(NameOf(r))
              /\ inbox' \in {inbox} \union {inbox \union {m} : m \in LastWords(NameOf(r))}
              /\ UNCHANGED budget
           \/ Spend("refuse") /\ UNCHANGED <<svc, script, inbox, waiting>>
        /\ task' = [task EXCEPT ![p].pc = "stopCm", ![p].cur = r,
                                ![p].todo = @ \ {r}]
  BY DEF StopService
<1>2. task[p] \in Api!Tasks
  BY DEF Kept, WebInv, TaskOK, StopService, Api!Idle
<1>3. r \in Rows /\ NameOf(r) \in Names
  BY <1>1, <1>2, SameStore DEF Api!Tasks, Rows, NameOf
<1>4. WebInv'
  <2> DEFINE t == [task[p] EXCEPT !.pc = "stopCm", !.cur = r, !.todo = @ \ {r}]
  <2>1. Fine(t)
    BY <1>2, <1>3, SameStore DEF Fine, Api!Tasks, Api!Pcs, Api!StopPcs
  <2>2. task' = [task EXCEPT ![p] = t]
    BY <1>1, <1>2 DEF Api!Tasks, Kept, WebInv, TaskOK
  <2> HIDE DEF t
  <2> QED
    BY <2>1, <2>2, PutFine DEF Kept
<1>5. BudgetOK'
  BY <1>1, SpendKept DEF Kept, BudgetOK, Kinds, FaultKinds
<1>6. StoreOK' /\ cfgs' = cfgs /\ poll' = poll /\ startMsgs' = startMsgs
  BY DEF StopService, Kept, store, StoreOK
<1>7. CASE /\ DeleteService(NameOf(r)) /\ ScriptStops(NameOf(r))
           /\ inbox' \in {inbox} \union {inbox \union {m} : m \in LastWords(NameOf(r))}
  <2>1. SwarmOK'
    BY <1>6, <1>7, ServiceDeleted
  <2>2. LocalOK' /\ waiting' \in SUBSET Api!Requests
    BY <1>3, <1>6, <1>7, ScriptStopsKept DEF DeleteService, SwarmOK
  <2>3. inbox' \in SUBSET Api!Requests
    BY <1>3, <1>7, LastWordsAreRequests DEF Kept, QueueOK
  <2> QED
    BY <1>4, <1>5, <1>6, <2>1, <2>2, <2>3 DEF Kept, QueueOK
<1>8. CASE UNCHANGED <<svc, script, inbox, waiting>>
  <2>1. SwarmOK' /\ LocalOK'
    BY <1>6, <1>8, SwarmStays, LocalStays DEF swarm, LocalOK
  <2> QED
    BY <1>4, <1>5, <1>6, <1>8, <2>1 DEF Kept, QueueOK
<1> QED
  BY <1>1, <1>7, <1>8

\* Every call of a handler keeps the invariant.
LEMMA HandlerKept ==
    ASSUME IndInv, NEW p \in Procs, HandlerStep(p)
    PROVE  IndInv'
<1>1. Kept /\ SwarmOK /\ LocalOK
  BY Parts
<1>2. CASE SaveStep(p)
  <2>1. Kept' /\ UNCHANGED swarm
    BY <1>1, <1>2, SavesKept DEF SaveStep
  <2>2. SwarmOK' /\ LocalOK'
    BY <1>1, <1>2, <2>1, SwarmStays, LocalStays DEF SaveStep, swarm
  <2> QED
    BY <2>1, <2>2, PartsNext
<1>3. CASE OtherStep(p)
  <2>a. aged' \in BOOLEAN
    BY <1>1, <1>3 DEF OtherStep, LocalOK
  <2>1. CASE StartConfigs(p)
    BY <1>1, <2>1, <2>a, ConfigsKept, LocalStays, PartsNext DEF StartConfigs
  <2>2. CASE StartService(p)
    <3>1. Kept' /\ SwarmOK'
      BY <1>1, <2>2, ServiceKept
    <3>2. ScriptsRun'
      <4>1. task[p].cur \in Rows
        BY <1>1, <2>2, CurIsRow DEF Kept, StartService, At, Api!RowPcs
      <4> DEFINE n == NameOf(task[p].cur)
      <4>2. \A k \in Names : k # n => svc'[k] = svc[k]
        BY <1>1, <2>2 DEF StartService, CreateService, SwarmOK
      <4>3. CASE UNCHANGED svc
        BY <1>1, <2>2, <4>3 DEF StartService, LocalOK, ScriptsRun
      <4>4. CASE CanCreateService(task[p].cur, p)
        <5>1. n \in Names => script[n] = "off"
          BY <1>1, <4>4 DEF CanCreateService, Exists, LocalOK, ScriptsRun
        <5> HIDE DEF n
        <5> QED
          BY <1>1, <2>2, <4>2, <5>1 DEF StartService, LocalOK, ScriptsRun
      <4> QED
        BY <2>2, <4>3, <4>4 DEF StartService
    <3>3. LocalOK'
      BY <1>1, <2>2, <2>a, <3>2 DEF StartService, LocalOK, Api!ScriptOK
    <3> QED
      BY <3>1, <3>3, PartsNext
  <2>3. CASE StopService(p)
    BY <1>1, <1>3, <2>3, StopServiceKept, PartsNext DEF OtherStep
  <2>4. CASE StopConfigs(p)
    BY <1>1, <2>4, <2>a, StopConfigsKept, LocalStays, PartsNext DEF StopConfigs
  <2>5. CASE /\ \/ Api!EnqueueStart(p) \/ Api!StartCount(p) \/ Api!MakeCheck(p)
                \/ Api!MakeInsert(p) \/ Api!StartList(p) \/ Api!StartSave(p)
                \/ Api!StopList(p) \/ Api!SaveRow(p)
             /\ UNCHANGED <<script, poll>>
    <3>1. Kept' /\ UNCHANGED swarm
      BY <1>1, <2>5, OthersKept
    <3>2. SwarmOK' /\ LocalOK'
      BY <1>1, <2>5, <2>a, <3>1, SwarmStays, LocalStays DEF swarm
    <3> QED
      BY <3>1, <3>2, PartsNext
  <2> QED
    BY <1>3, <2>1, <2>2, <2>3, <2>4, <2>5 DEF OtherStep
<1> QED
  BY <1>2, <1>3 DEF HandlerStep

-----------------------------------------------------------------------------
(* Everybody else.                                                         *)

\* Users, messages and requests begin a handler, or delete the job.
LEMMA UserKept ==
    ASSUME IndInv, UserStep
    PROVE  IndInv'
<1>1. Kept /\ SwarmOK /\ LocalOK
  BY Parts
<1> USE SameStore DEF Kept
<1>b. BudgetOK'
  BY <1>1, SpendKept
     DEF UserStep, Api!DestroyJob, Api!CreateJob, Api!StartJob, Api!CancelJob,
         Api!CleanJob, Api!EditJob, Kinds, UserKinds
<1>2. UNCHANGED swarm /\ UNCHANGED <<script, poll, aged, inbox, waiting, startMsgs>>
  BY DEF UserStep, Api!DestroyJob, Api!CreateJob, Api!StartJob, Api!CancelJob,
         Api!CleanJob, Api!EditJob, swarm, Api!cluster, Api!web
<1>3. SwarmOK' /\ LocalOK' /\ QueueOK'
  BY <1>1, <1>2, SwarmStays, LocalStays DEF swarm, LocalOK, QueueOK
<1>4. StoreOK'
  BY <1>1 DEF UserStep, Api!DestroyJob, Api!CreateJob, Api!StartJob, Api!CancelJob,
     Api!CleanJob, Api!EditJob, Api!SaveJob, Api!DeleteJob, Api!store, StoreOK, Statuses
<1>5. WebInv'
  <2>1. CASE Api!DestroyJob
    BY <1>1, <2>1 DEF Api!DestroyJob, Api!web, WebInv, TaskOK, ShapeOK
  <2>2. ASSUME NEW p \in Servers,
               \/ Api!CreateJob(p) \/ Api!StartJob(p) \/ Api!CancelJob(p)
               \/ Api!CleanJob(p) \/ Api!EditJob(p)
        PROVE  WebInv'
    <3>0. p \in Procs /\ job \in Statuses \union {Absent}
      BY <1>1 DEF Procs, StoreOK
    <3>1. /\ Fine(Api!Handler("create", "enqueue", NoRow, Api!Absent, Api!NoReq))
          /\ Fine(Api!StartHandler)
          /\ Fine(Api!Handler("cancel", "stopList", NoRow, "CANCELED", Api!NoReq))
          /\ Fine(Api!Handler("clean", "stopList", NoRow, Api!Absent, Api!NoReq))
          /\ Fine(Api!Handler("edit", "write", NoRow, job, Api!NoReq))
      BY <3>0, HandlerFine
         DEF Api!StartHandler, Api!Ops, Api!Pcs, Api!StartPcs, Api!StopPcs,
             Api!RowPcs, Statuses
    <3> QED
      BY <1>1, <2>2, <3>0, <3>1, BeginFine
         DEF Api!CreateJob, Api!StartJob, Api!CancelJob, Api!CleanJob, Api!EditJob
  <2> QED
    BY <2>1, <2>2 DEF UserStep
<1> QED
  BY <1>b, <1>3, <1>4, <1>5, PartsNext

LEMMA MessageKept ==
    ASSUME IndInv, TakeMessage
    PROVE  IndInv'
<1>1. Kept /\ SwarmOK /\ LocalOK
  BY Parts
<1>2. PICK p \in Servers : Api!StartAvesjob(p)
  BY DEF TakeMessage
<1>3. p \in Procs
  BY DEF Procs
<1>4. Fine(Api!StartHandler)
  BY HandlerFine, SameStore DEF Api!StartHandler, Api!Ops, Api!Pcs, Api!StartPcs, Api!RowPcs
<1>5. WebInv'
  BY <1>1, <1>2, <1>3, <1>4, IdleFine, BeginFine DEF Api!StartAvesjob, Kept
<1>6. QueueOK'
  BY <1>1, <1>2 DEF Api!StartAvesjob, Kept, QueueOK
<1>7. UNCHANGED swarm /\ StoreOK' /\ BudgetOK'
  BY <1>1, <1>2 DEF Api!StartAvesjob, Api!cluster, Api!store, swarm, Kept, StoreOK, BudgetOK
<1>8. SwarmOK' /\ LocalOK'
  BY <1>1, <1>7, SwarmStays, LocalStays DEF TakeMessage, swarm, LocalOK
<1> QED
  BY <1>5, <1>6, <1>7, <1>8, PartsNext DEF Kept

LEMMA RequestKept ==
    ASSUME IndInv, NEW m \in Api!Requests, TakeRequest(m)
    PROVE  IndInv'
<1>1. Kept /\ SwarmOK /\ LocalOK
  BY Parts
<1>2. PICK p \in Servers : Api!HandleRequest(p, m)
  BY DEF TakeRequest
<1>3. p \in Procs
  BY DEF Procs
<1> DEFINE t == CASE m.kind = "wstat" -> Api!WorkerChangeStatus(m)
                  [] m.kind = "jstat" -> Api!JobChangeStatus(m)
                  [] m.kind = "jres"  -> Api!FinishJob(m)
<1>4. Fine(t)
  <2>1. m.row \in Rows /\ m.st \in Statuses /\ m.kind \in {"wstat", "jstat", "jres"}
    BY SameStore DEF Api!Requests, Statuses
  <2>2. /\ Fine(Api!Handler("wstat", "saveRow", m.row, m.st, m))
        /\ Fine(Api!Handler("jstat", "write", NoRow, m.st, m))
        /\ Fine(Api!Handler("finish", "write", NoRow, m.st, m))
    BY <2>1, HandlerFine DEF Api!Ops, Api!Pcs, Api!RowPcs
  <2> QED
    BY <2>1, <2>2, IdleFine
       DEF Api!WorkerChangeStatus, Api!JobChangeStatus, Api!FinishJob
<1>5. Api!Begin(p, t) /\ waiting' \in SUBSET waiting /\ inbox' = inbox \ {m}
  BY <1>2 DEF Api!HandleRequest
<1> HIDE DEF t
<1>6. WebInv'
  BY <1>1, <1>3, <1>4, <1>5, BeginFine DEF Kept
<1>7. UNCHANGED swarm /\ StoreOK' /\ BudgetOK' /\ QueueOK'
  BY <1>1, <1>2, <1>5 DEF Api!HandleRequest, Api!cluster, Api!store, swarm, Kept,
                          StoreOK, BudgetOK, QueueOK
<1>8. SwarmOK' /\ LocalOK'
  BY <1>1, <1>7, SwarmStays, LocalStays DEF TakeRequest, swarm, LocalOK
<1> QED
  BY <1>6, <1>7, <1>8, PartsNext DEF Kept

\* The scripts.
LEMMA ReportQueue ==
    ASSUME IndInv, NEW n \in Names, svc[n].phase = "running",
           NEW kind \in {"wstat", "jstat", "jres"},
           NEW st \in {"RUNNING", "FINISHED", "FAILURE"}, Api!Report(n, kind, st)
    PROVE  inbox' \in SUBSET Api!Requests /\ waiting' \in SUBSET Api!Requests
<1>1. svc[n].row \in Rows
  BY DEF IndInv, ScriptsStay, Exists
<1>2. [row |-> svc[n].row, kind |-> kind, st |-> st] \in Api!Requests
  BY <1>1, SameStore DEF Api!Requests
<1> QED
  BY <1>2, Parts DEF Api!Report, Kept, QueueOK

\* A script that goes on, and a report of it, keep the invariant.
LEMMA MovesKept ==
    ASSUME IndInv, NEW n \in Names, NEW from, NEW to \in Api!ScriptPcs,
           Api!Moves(n, from, to), Api!ScriptFrame, BudgetOK',
           UNCHANGED <<poll, aged>>,
           \/ Api!Quietly
           \/ \E kind \in {"wstat", "jstat", "jres"},
                 st \in {"RUNNING", "FINISHED", "FAILURE"} : Api!Report(n, kind, st)
    PROVE  IndInv'
<1>1. Kept /\ SwarmOK /\ LocalOK
  BY Parts
<1>2. svc[n].phase = "running" /\ script' = [script EXCEPT ![n] = to]
  BY DEF Api!Moves
<1>3. inbox' \in SUBSET Api!Requests /\ waiting' \in SUBSET Api!Requests
  BY <1>1, <1>2, ReportQueue DEF Api!Quietly, Kept, QueueOK
<1>4. UNCHANGED <<svc, cfgs, job, wst, made, task, startMsgs>>
  BY DEF Api!ScriptFrame, Api!cluster, Api!store
<1>5. LocalOK'
  BY <1>1, <1>2, <1>4 DEF LocalOK, Api!ScriptOK, ScriptsRun
<1>6. SwarmOK'
  BY <1>1, <1>4, SwarmStays DEF swarm
<1>7. Kept'
  BY <1>1, <1>3, <1>4 DEF Kept, WebInv, TaskOK, ShapeOK, QueueOK, StoreOK
<1> QED
  BY <1>5, <1>6, <1>7, PartsNext

LEMMA ScriptKept ==
    ASSUME IndInv, NEW n \in Names,
           \/ Api!ReportWorkerRunning(n) \/ Api!Rendezvous(n) \/ Api!Prepare(n)
           \/ Api!StartMpi(n) \/ Api!ReportResult(n) \/ Api!ReportBroken(n)
           \/ Api!TrainWon(n) \/ Api!TrainLost(n) \/ Api!Breaks(n),
           UNCHANGED <<poll, aged>>
    PROVE  IndInv'
<1>b. BudgetOK'
  BY SpendKept, SameStore
     DEF IndInv, TypeOK, BudgetOK, Kinds, FaultKinds,
         Api!ReportWorkerRunning, Api!Rendezvous, Api!Prepare, Api!StartMpi,
         Api!ReportResult, Api!ReportBroken, Api!TrainWon, Api!TrainLost, Api!Breaks
<1>f. Api!ScriptFrame
  BY DEF Api!ReportWorkerRunning, Api!Rendezvous, Api!Prepare, Api!StartMpi,
         Api!ReportResult, Api!ReportBroken, Api!TrainWon, Api!TrainLost, Api!Breaks
<1>1. CASE Api!ReportWorkerRunning(n)
  <2>1. Api!Moves(n, "boot", "sync") /\ Api!Report(n, "wstat", "RUNNING")
    BY <1>1 DEF Api!ReportWorkerRunning
  <2> QED
    BY <1>b, <1>f, <2>1, MovesKept DEF Api!ScriptPcs
<1>2. CASE Api!Rendezvous(n)
  <2>1. /\ Api!Moves(n, "sync", "prep")
        /\ Api!Quietly \/ Api!Report(n, "jstat", "RUNNING")
    BY <1>2 DEF Api!Rendezvous
  <2> QED
    BY <1>b, <1>f, <2>1, MovesKept DEF Api!ScriptPcs
<1>3. CASE Api!Prepare(n)
  <2>1. Api!Moves(n, "prep", "train") /\ Api!Quietly
    BY <1>3 DEF Api!Prepare
  <2> QED
    BY <1>b, <1>f, <2>1, MovesKept DEF Api!ScriptPcs
<1>4. CASE Api!StartMpi(n)
  <2>1. Api!Moves(n, "train", "mpi") /\ Api!Quietly
    BY <1>4 DEF Api!StartMpi
  <2> QED
    BY <1>b, <1>f, <2>1, MovesKept DEF Api!ScriptPcs
<1>5. CASE Api!ReportResult(n)
  <2>1. \/ /\ Api!Moves(n, "won", "exit")
           /\ Api!Quietly \/ Api!Report(n, "jres", "FINISHED")
        \/ /\ Api!Moves(n, "lost", "exit")
           /\ Api!Quietly \/ Api!Report(n, "jres", "FAILURE")
    BY <1>5 DEF Api!ReportResult
  <2> QED
    BY <1>b, <1>f, <2>1, MovesKept DEF Api!ScriptPcs
<1>6. CASE Api!ReportBroken(n)
  <2>1. Api!Moves(n, "broken", "exit") /\ Api!Report(n, "jres", "FAILURE")
    BY <1>6 DEF Api!ReportBroken
  <2> QED
    BY <1>b, <1>f, <2>1, MovesKept DEF Api!ScriptPcs
<1>7. CASE Api!TrainWon(n)
  <2>1. Api!Moves(n, Api!TrainPc, "won") /\ Api!Report(n, "wstat", "FINISHED")
    BY <1>7 DEF Api!TrainWon
  <2> QED
    BY <1>b, <1>f, <2>1, MovesKept DEF Api!ScriptPcs
<1>8. CASE Api!TrainLost(n)
  <2>1. Api!Moves(n, Api!TrainPc, "lost") /\ Api!Report(n, "wstat", "FAILURE")
    BY <1>8 DEF Api!TrainLost
  <2> QED
    BY <1>b, <1>f, <2>1, MovesKept DEF Api!ScriptPcs
<1>9. CASE Api!Breaks(n)
  <2>1. PICK from \in {"sync", "prep", Api!TrainPc} : Api!Moves(n, from, "broken")
    BY <1>9 DEF Api!Breaks
  <2>2. Api!Report(n, "wstat", "FAILURE")
    BY <1>9 DEF Api!Breaks
  <2> QED
    BY <1>b, <1>f, <2>1, <2>2, MovesKept DEF Api!ScriptPcs
<1> QED
  BY <1>1, <1>2, <1>3, <1>4, <1>5, <1>6, <1>7, <1>8, <1>9

\* The containers.
LEMMA ContainerKept ==
    ASSUME IndInv, NEW n \in Names,
           \/ TaskStarts(n) \/ ContainerStarts(n) \/ ScriptEnds(n)
           \/ ContainerDies(n) \/ Rejected(n)
    PROVE  IndInv'
<1>1. Kept /\ SwarmOK /\ LocalOK
  BY Parts
<1>2. /\ \/ TaskMoves(n, {"new"}, "preparing") \/ TaskMoves(n, {"preparing"}, "running")
         \/ TaskMoves(n, {"running"}, "over")
         \/ TaskMoves(n, {"new", "preparing"}, "rejected")
      /\ ContainerFrame
  BY DEF TaskStarts, ContainerStarts, ScriptEnds, ContainerDies, Rejected, TaskMade,
         ContainerRuns, ContainerOver, TaskRejected
<1>3. SwarmOK'
  BY <1>1, <1>2, TaskMoved DEF SvcPhases
<1>b. BudgetOK'
  BY <1>1, SpendKept DEF Kept, BudgetOK, Kinds, FaultKinds, TaskStarts,
                         ContainerStarts, ScriptEnds, ContainerDies, Rejected
<1>4. \A k \in Names : k # n => svc'[k] = svc[k]
  BY <1>1, <1>2 DEF TaskMoves, SwarmOK
<1>5. LocalOK' /\ waiting' \in SUBSET Api!Requests
  <2>1. CASE ScriptEnds(n) \/ ContainerDies(n)
    BY <1>1, <1>2, <1>4, <2>1, ScriptStopsKept
       DEF ScriptEnds, ContainerDies, ContainerFrame
  <2>2. CASE TaskStarts(n) \/ Rejected(n)
    <3>1. svc[n].phase # "running" /\ script' = script /\ waiting' = waiting
      BY <2>2 DEF TaskStarts, Rejected, TaskMade, TaskRejected, TaskMoves
    <3>2. ScriptsRun'
      BY <1>1, <1>4, <3>1 DEF LocalOK, ScriptsRun
    <3> QED
      BY <1>1, <1>2, <3>1, <3>2
         DEF ContainerFrame, LocalOK, Api!ScriptOK, Kept, QueueOK
  <2>3. CASE ContainerStarts(n)
    <3>1. svc' = [svc EXCEPT ![n].phase = "running"]
      BY <2>3 DEF ContainerStarts, ContainerRuns, TaskMoves
    <3>2. svc'[n].phase = "running"
      BY <1>1, <3>1 DEF SwarmOK, Services
    <3>3. /\ script' = [script EXCEPT ![n] = "boot"]
          /\ waiting' = waiting
      BY <2>3 DEF ContainerStarts
    <3>4. ScriptsRun'
      BY <1>1, <1>4, <3>2, <3>3 DEF LocalOK, ScriptsRun, Api!ScriptOK
    <3>5. script' \in [Names -> Api!ScriptPcs]
      BY <1>1, <3>3 DEF LocalOK, Api!ScriptOK, Api!ScriptPcs
    <3> QED
      BY <1>1, <1>2, <3>3, <3>4, <3>5
         DEF ContainerFrame, LocalOK, Api!ScriptOK, Kept, QueueOK
  <2> QED
    BY <2>1, <2>2, <2>3
<1>6. Kept'
  BY <1>1, <1>2, <1>5, <1>b
     DEF ContainerFrame, Kept, WebInv, TaskOK, ShapeOK, QueueOK, StoreOK, store
<1> QED
  BY <1>3, <1>5, <1>6, PartsNext

\* watch_job, and the time it waits for.
LEMMA PollKept ==
    ASSUME IndInv, PollStep \/ TimePasses \/ PollerDies
    PROVE  IndInv'
<1>1. Kept /\ SwarmOK /\ LocalOK
  BY Parts
<1>2. CASE PollList \/ PollAge \/ PollLook \/ TimePasses \/ PollerDies
  <2>1. UNCHANGED <<store, swarm, web, script>> /\ aged' \in BOOLEAN
    BY <1>1, <1>2 DEF PollList, PollAge, PollLook, TimePasses, PollerDies, LocalOK
  <2>2. BudgetOK'
    BY <1>1, <1>2, SpendKept DEF PollList, PollAge, PollLook, TimePasses, PollerDies,
                                 Kept, BudgetOK, Kinds, FaultKinds
  <2>3. poll' \in [pc : PollPcs, old : BOOLEAN, todo : SUBSET Rows]
    <3> DEFINE Polls == [pc : PollPcs, old : BOOLEAN, todo : SUBSET Rows]
    <3>0. Asleep \in Polls /\ [Asleep EXCEPT !.pc = "rows"] \in Polls
      BY DEF Asleep, PollPcs
    <3>1. ASSUME NEW rows \in SUBSET Rows, LookAt(rows) PROVE poll' \in Polls
      <4>1. [Asleep EXCEPT !.pc = "look", !.todo = rows] \in Polls
        BY <3>1 DEF Asleep, PollPcs
      <4> HIDE DEF Polls
      <4> QED
        BY <3>0, <3>1, <4>1 DEF LookAt
    <3>2. CASE PollAge
      BY <3>1, <3>2 DEF PollAge, JobWorkers
    <3>3. CASE PollLook
      <4>1. poll.todo \in SUBSET Rows
        BY <1>1 DEF LocalOK
      <4>2. \/ poll' = [Asleep EXCEPT !.pc = "rows"]
            \/ \E r \in poll.todo : LookAt(poll.todo \ {r})
        BY <3>3 DEF PollLook
      <4> QED
        BY <3>0, <3>1, <4>1, <4>2
    <3>4. CASE PollList
      <4>1. poll' = [Asleep EXCEPT !.pc = "age", !.old = aged]
        BY <3>4 DEF PollList
      <4> QED
        BY <1>1, <4>1 DEF LocalOK, Asleep, PollPcs
    <3>5. CASE TimePasses
      <4>1. poll' = [poll EXCEPT !.old = poll.pc = "age"] /\ poll \in Polls
        BY <1>1, <3>5 DEF TimePasses, LocalOK
      <4>2. (poll.pc = "age") \in BOOLEAN
        OBVIOUS
      <4> QED
        BY <4>1, <4>2
    <3>6. CASE PollerDies
      BY <3>0, <3>6 DEF PollerDies
    <3> QED
      BY <1>2, <3>2, <3>3, <3>4, <3>5, <3>6
  <2>4. Kept' /\ SwarmOK' /\ LocalOK'
    BY <1>1, <2>1, <2>2, <2>3, SwarmStays
       DEF Kept, WebInv, TaskOK, ShapeOK, QueueOK, StoreOK, store, web, swarm,
           LocalOK, Api!ScriptOK, ScriptsRun
  <2> QED
    BY <2>4, PartsNext
<1>3. CASE PollRows
  <2> DEFINE t == Api!Handler("image", "write", NoRow, "FAILURE", Api!NoReq)
  <2>1. Fine(t)
    BY HandlerFine DEF Api!Ops, Api!Pcs, Api!RowPcs, Statuses
  <2>2. Poller \in Procs /\ Api!Begin(Poller, t)
    BY <1>3 DEF PollRows, Procs
  <2> HIDE DEF t
  <2>3. WebInv'
    BY <1>1, <2>1, <2>2, BeginFine DEF Kept
  <2>4. wst' \in [Rows -> Statuses \union {Absent}]
    BY <1>3 DEF PollRows, Statuses
  <2>5. Kept' /\ SwarmOK' /\ LocalOK'
    BY <1>1, <1>3, <2>3, <2>4, SwarmStays
       DEF PollRows, Kept, QueueOK, StoreOK, BudgetOK, swarm, LocalOK, Api!ScriptOK,
           ScriptsRun, Asleep, PollPcs
  <2> QED
    BY <2>5, PartsNext
<1> QED
  BY <1>2, <1>3 DEF PollStep

\* A process dies, or a report is late or lost.
LEMMA LossKept ==
    ASSUME IndInv, UNCHANGED <<script, poll, aged>>,
           \/ \E p \in Procs : Api!Crash(p)
           \/ \E m \in Api!Requests : Api!ReportTimesOut(m) \/ Api!ReportLost(m)
    PROVE  IndInv'
<1>1. Kept /\ SwarmOK /\ LocalOK
  BY Parts
<1>b. BudgetOK'
  BY <1>1, SameStore, SpendKept DEF Kept, Api!Crash, Api!ReportTimesOut,
                                    Api!ReportLost, Kinds, FaultKinds
<1>2. UNCHANGED <<svc, cfgs, job, wst, made>>
  BY DEF Api!Crash, Api!ReportTimesOut, Api!ReportLost, Api!ScriptFrame, Api!cluster,
         Api!store
<1>3. WebInv' /\ QueueOK'
  <2>1. ASSUME NEW p \in Procs, Api!Crash(p)
        PROVE  WebInv' /\ QueueOK'
    BY <1>1, <2>1, EndFine, EndQueue DEF Api!Crash, Kept
  <2>2. ASSUME NEW m \in Api!Requests, Api!ReportTimesOut(m) \/ Api!ReportLost(m)
        PROVE  WebInv' /\ QueueOK'
    BY <1>1, <2>2 DEF Api!ReportTimesOut, Api!ReportLost, Api!ScriptFrame, Kept,
                      WebInv, TaskOK, ShapeOK, QueueOK
  <2> QED
    BY <2>1, <2>2
<1>4. SwarmOK' /\ LocalOK'
  BY <1>1, <1>2, SwarmStays, LocalStays DEF swarm, LocalOK
<1> QED
  BY <1>1, <1>b, <1>2, <1>3, <1>4, PartsNext DEF Kept, StoreOK

-----------------------------------------------------------------------------
LEMMA InitInv == Init => IndInv
<1> SUFFICES ASSUME Init PROVE IndInv
  OBVIOUS
<1> USE DEF Init
<1>1. StoreOK /\ BudgetOK
  BY StoreAssumption, BudgetAssumption
     DEF StoreInit, StoreOK, BudgetInit, BudgetOK
<1>2. WebInv /\ QueueOK
  BY IdleFine DEF Api!WebInit, WebInv, TaskOK, ShapeOK, QueueOK, Fine
<1>3. SwarmOK
  BY DEF SwarmInit, SwarmOK, NoSvc, Services, SvcPhases, ScriptsStay, Exists
<1>4. LocalOK
  BY DEF Api!ScriptInit, LocalOK, Api!ScriptOK, Api!ScriptPcs, Asleep, PollPcs,
         ScriptsRun
<1> QED
  BY <1>1, <1>2, <1>3, <1>4, Parts DEF Kept

LEMMA NextInv == IndInv /\ [Next]_vars => IndInv'
<1> SUFFICES ASSUME IndInv, [Next]_vars PROVE IndInv'
  OBVIOUS
<1>1. CASE UserStep
  BY <1>1, UserKept
<1>2. ASSUME NEW p \in Procs, HandlerStep(p) PROVE IndInv'
  BY <1>2, HandlerKept
<1>3. CASE TakeMessage
  BY <1>3, MessageKept
<1>4. ASSUME NEW m \in Api!Requests, TakeRequest(m) PROVE IndInv'
  BY <1>4, RequestKept
<1>5. ASSUME NEW n \in Names, ScriptStep(n) \/ TrainStep(n) \/ SwarmStep(n)
      PROVE  IndInv'
  BY <1>5, ScriptKept, ContainerKept DEF ScriptStep, TrainStep, SwarmStep
<1>6. CASE PollStep \/ TimePasses
  BY <1>6, PollKept
<1>7. CASE Fault
  <2>1. CASE \/ \E p \in Procs : Api!Crash(p) /\ UNCHANGED <<script, poll, aged>>
             \/ \E m \in Api!Requests : /\ Api!ReportTimesOut(m) \/ Api!ReportLost(m)
                                        /\ UNCHANGED <<poll, aged>>
    <3>1. UNCHANGED <<script, poll, aged>>
      BY <2>1 DEF Api!ReportTimesOut, Api!ReportLost
    <3> QED
      BY <2>1, <3>1, LossKept
  <2>2. ASSUME NEW n \in Names, \/ Api!Breaks(n) /\ UNCHANGED <<poll, aged>>
                                \/ ContainerDies(n) \/ Rejected(n)
        PROVE  IndInv'
    BY <2>2, ScriptKept, ContainerKept
  <2>3. CASE PollerDies
    BY <2>3, PollKept
  <2> QED
    BY <1>7, <2>1, <2>2, <2>3 DEF Fault
<1>8. CASE UNCHANGED vars
  <2>1. Kept /\ SwarmOK /\ LocalOK
    BY Parts
  <2>2. Kept' /\ SwarmOK' /\ LocalOK'
    BY <1>8, <2>1, SwarmStays, LocalStays
       DEF vars, store, web, swarm, Kept, WebInv, TaskOK, ShapeOK, QueueOK, StoreOK,
           BudgetOK, LocalOK
  <2> QED
    BY <2>2, PartsNext
<1> QED
  BY <1>1, <1>2, <1>3, <1>4, <1>5, <1>6, <1>7, <1>8 DEF Next

\* The invariant of the swarm back end: whatever starts, stops, reports, polls
\* and crashes interleave, and for any number of workers, handlers, modes and
\* budgets, the state has its types, handlers their rows, and services their
\* own configs (_swarm_start, _docker_stop).
THEOREM SwarmInvariant == Spec => []IndInv
<1>1. Init => IndInv
  BY InitInv
<1>2. IndInv /\ [Next]_vars => IndInv'
  BY NextInv
<1> QED
  BY <1>1, <1>2, PTL DEF Spec

\* Every handler, request, service and row is one of the model's, whatever
\* interleaves: no step writes a status, a phase or a row that does not exist.
THEOREM SwarmTyped == Spec => []TypeOK
<1>1. IndInv => TypeOK
  BY DEF IndInv
<1> QED
  BY <1>1, SwarmInvariant, PTL

\* No container is without its scripts, on a swarm: no interleaving of starts
\* and stops deletes configs under a service (client.delete_configs).
THEOREM ServicesKeepScripts == Spec => []ScriptsStay
<1>1. IndInv => ScriptsStay
  BY DEF IndInv
<1> QED
  BY <1>1, SwarmInvariant, PTL


-----------------------------------------------------------------------------
(* What a step does to the handlers.                                       *)

\* The handler of p goes on, or ends.
GoesOn(p) ==
    /\ \A q \in Procs : q # p => task'[q] = task[q]
    /\ \/ task'[p] = Api!Idle
       \/ task'[p].op = task[p].op /\ task'[p].pc # "mark"

LEMMA PutGoes ==
    ASSUME TaskOK, NEW p \in Procs, NEW t, task' = [task EXCEPT ![p] = t],
           t = Api!Idle \/ (t.op = task[p].op /\ t.pc # "mark")
    PROVE  GoesOn(p)
<1>1. task'[p] = t /\ \A q \in Procs : q # p => task'[q] = task[q]
  BY DEF TaskOK
<1> QED
  BY <1>1 DEF GoesOn

LEMMA EndGoes ==
    ASSUME TaskOK, NEW p \in Procs, Api!End(p)
    PROVE  GoesOn(p)
<1>1. task' = [task EXCEPT ![p] = Api!Idle]
  BY DEF Api!End, Api!Goto
<1> QED
  BY <1>1 DEF TaskOK, GoesOn

\* [task[p] EXCEPT ...] keeps the operation, and what it writes.
Same(u, t, pc) == u.op = t.op /\ u.out = t.out /\ u.pc = pc

LEMMA SameOp ==
    ASSUME NEW t \in Api!Tasks \union {Api!Idle}
    PROVE  /\ \A pc : Same([t EXCEPT !.pc = pc], t, pc)
           /\ \A pc, cur : Same([t EXCEPT !.pc = pc, !.cur = cur], t, pc)
           /\ \A pc, todo : Same([t EXCEPT !.pc = pc, !.todo = todo], t, pc)
           /\ \A pc, cur, todo :
                 Same([t EXCEPT !.pc = pc, !.cur = cur, !.todo = todo], t, pc)
  BY DEF Same, Api!Tasks, Api!Idle

LEMMA TaskType ==
    ASSUME TaskOK, NEW p \in Procs
    PROVE  task[p] \in Api!Tasks \union {Api!Idle}
  BY DEF TaskOK

LEMMA ToGoes ==
    ASSUME TaskOK, NEW p \in Procs, NEW pc, pc # "mark", Api!To(p, pc)
    PROVE  GoesOn(p)
<1>1. /\ [task[p] EXCEPT !.pc = pc].op = task[p].op
      /\ [task[p] EXCEPT !.pc = pc].pc = pc
  BY TaskType, SameOp DEF Same
<1> QED
  BY <1>1, PutGoes DEF Api!To, Api!Goto

LEMMA NextWorkerGoes ==
    ASSUME TaskOK, NEW p \in Procs, NEW rows, Api!NextWorker(p, rows)
    PROVE  GoesOn(p)
<1>1. CASE rows = {}
  BY <1>1, EndGoes DEF Api!NextWorker
<1>2. CASE rows # {}
  <2>1. PICK r \in rows :
           Api!Goto(p, [task[p] EXCEPT !.pc = "config", !.cur = r,
                                       !.todo = rows \ {r}])
    BY <1>2 DEF Api!NextWorker
  <2> DEFINE t == [task[p] EXCEPT !.pc = "config", !.cur = r, !.todo = rows \ {r}]
  <2>2. t.op = task[p].op /\ t.pc = "config"
    BY TaskType, SameOp DEF Same
  <2> QED
    BY <2>1, <2>2, PutGoes DEF Api!Goto
<1> QED
  BY <1>1, <1>2

LEMMA AfterStopGoes ==
    ASSUME TaskOK, NEW p \in Procs, Api!AfterStop(p)
    PROVE  GoesOn(p)
<1> DEFINE t == [task[p] EXCEPT !.pc = "write", !.cur = NoRow]
<1>1. t.op = task[p].op /\ t.pc = "write"
  BY TaskType, SameOp DEF Same
<1>2. Api!End(p) \/ Api!Goto(p, t)
  BY DEF Api!AfterStop
<1> QED
  BY <1>1, <1>2, EndGoes, PutGoes DEF Api!Goto

LEMMA HandlerGoes ==
    ASSUME TaskOK, NEW p \in Procs, HandlerStep(p)
    PROVE  GoesOn(p)
<1>1. CASE SaveStep(p)
  BY <1>1, ToGoes, EndGoes
     DEF SaveStep, Api!StartMark, Api!StartFail, Api!WriteJob
<1>2. CASE Api!EnqueueStart(p)
  <2>1. task' = [task EXCEPT ![p] = Api!Idle]
    BY <1>2 DEF Api!EnqueueStart
  <2> QED
    BY <2>1 DEF TaskOK, GoesOn
<1>3. CASE Api!StartCount(p) \/ Api!MakeCheck(p) \/ Api!MakeInsert(p) \/ Api!SaveRow(p)
  BY <1>3, ToGoes, EndGoes
     DEF Api!StartCount, Api!MakeCheck, Api!MakeInsert, Api!SaveRow
<1>4. CASE Api!StartList(p) \/ Api!StartSave(p)
  BY <1>4, NextWorkerGoes, EndGoes DEF Api!StartList, Api!StartSave
<1>5. CASE Api!StopList(p)
  <2> DEFINE rows == {r \in Api!JobWorkers : ~Api!Spared(task[p].op, r)}
             t == [task[p] EXCEPT !.pc = "stopPod", !.todo = rows]
  <2>1. Api!AfterStop(p) \/ Api!Goto(p, t)
    BY <1>5 DEF Api!StopList
  <2> HIDE DEF rows
  <2>2. t.op = task[p].op /\ t.pc = "stopPod"
    BY TaskType, SameOp DEF Same
  <2> QED
    BY <2>1, <2>2, AfterStopGoes, PutGoes DEF Api!Goto
<1>6. CASE StartConfigs(p) \/ StartService(p)
  BY <1>6, ToGoes DEF StartConfigs, StartService
<1>7. CASE StopService(p)
  <2>1. PICK r \in task[p].todo :
           task' = [task EXCEPT ![p].pc = "stopCm", ![p].cur = r, ![p].todo = @ \ {r}]
    BY <1>7 DEF StopService
  <2> DEFINE t == [task[p] EXCEPT !.pc = "stopCm", !.cur = r, !.todo = @ \ {r}]
  <2>2. t.op = task[p].op /\ t.pc = "stopCm"
    BY TaskType, SameOp DEF Same
  <2>3. task' = [task EXCEPT ![p] = t]
    BY <2>1 DEF TaskOK
  <2> QED
    BY <2>2, <2>3, PutGoes
<1>8. CASE StopConfigs(p)
  BY <1>8, ToGoes, AfterStopGoes DEF StopConfigs
<1> QED
  BY <1>1, <1>2, <1>3, <1>4, <1>5, <1>6, <1>7, <1>8 DEF HandlerStep, OtherStep

-----------------------------------------------------------------------------
(* PollerSparesRunning.                                                    *)

Excused == causes \intersect {"slow", "beside"} # {}
Polling == poll # Asleep \/ task[Poller] # Api!Idle
Fresh(n) == svc[n].phase = "new"

\* The poller's own handler is that of PollRows.
PollerOp == task[Poller].op \in {"none", "image"}

\* A start beside the poller has been noted.
Noted == Polling /\ (\E p \in Procs : Starting(p)) => "beside" \in causes

\* A start past its mark has saved the job less than five minutes ago.
StartIsYoung ==
    \A p \in Servers : aged /\ Starting(p) /\ task[p].pc # "mark" => Excused

\* A service without a task is younger than the job the poller looks at.
FreshIsYoung ==
    \A n \in Names :
        Fresh(n) /\ (aged \/ poll.old \/ poll.pc = "look") => Excused

\* What the poller has seen is there until it is done.
SeenLacking ==
    poll.pc = "rows" \/ task[Poller].op = "image" =>
        Excused \/ \E m \in Names : Lacking(m)

PollInv == PollerOp /\ Noted /\ StartIsYoung /\ FreshIsYoung /\ SeenLacking

\* A start that is past its mark was, or has just saved the job.
StartGoes ==
    \A q \in Servers :
        task'[q].op = "start" /\ task'[q].pc # "mark" =>
            task[q].op = "start" /\ (task[q].pc # "mark" \/ ~aged')

PollerGoes == task'[Poller] = Api!Idle \/ task'[Poller].op = task[Poller].op

\* A step that tells the poller nothing.
Plain ==
    /\ poll' = poll \/ poll' = Asleep
    /\ aged' => aged
    /\ \A n \in Names : Fresh(n)' => Fresh(n)
    /\ \A n \in Names : Lacking(n) => Lacking(n)'
    /\ PollerGoes /\ StartGoes

\* Only the mark saves a job whose start is at its mark.
LEMMA MarkSaves ==
    ASSUME NEW p \in Procs, HandlerStep(p), task[p].pc = "mark"
    PROVE  ~aged'
  BY DEF HandlerStep, SaveStep, OtherStep, Api!EnqueueStart, Api!StartCount,
         Api!MakeCheck, Api!MakeInsert, Api!StartList, Api!StartSave, Api!StopList,
         Api!SaveRow, StartConfigs, StartService, StopService, StopConfigs, Api!At, At

LEMMA HandlerGoesPlainly ==
    ASSUME TaskOK, NEW p \in Procs, HandlerStep(p)
    PROVE  PollerGoes /\ StartGoes
<1>1. GoesOn(p)
  BY HandlerGoes
<1>2. PollerGoes
  BY <1>1 DEF GoesOn, PollerGoes, Procs
<1>3. ASSUME NEW q \in Servers, task'[q].op = "start", task'[q].pc # "mark"
      PROVE  task[q].op = "start" /\ (task[q].pc # "mark" \/ ~aged')
  <2>1. CASE q # p
    BY <1>1, <1>3, <2>1 DEF GoesOn, Procs
  <2>2. CASE q = p
    <3>1. task[p].op = "start"
      BY <1>1, <1>3, <2>2 DEF GoesOn, Api!Idle
    <3> QED
      BY <2>2, <3>1, MarkSaves
  <2> QED
    BY <2>1, <2>2
<1> QED
  BY <1>2, <1>3 DEF StartGoes

\* Of the handlers' steps only one makes a service.
LEMMA HandlerPlain ==
    ASSUME IndInv, NEW p \in Procs, HandlerStep(p), ~StartService(p)
    PROVE  Plain
<1>1. Kept /\ SwarmOK /\ LocalOK
  BY Parts
<1>2. PollerGoes /\ StartGoes
  BY <1>1, HandlerGoesPlainly DEF Kept, WebInv
<1>3. poll' = poll /\ (aged' => aged)
  <2>1. CASE SaveStep(p)
    BY <2>1 DEF SaveStep
  <2>2. CASE OtherStep(p)
    <3>1. aged' = aged
      BY <2>2 DEF OtherStep
    <3>2. poll' = poll
      BY <2>2 DEF OtherStep, StartConfigs, StartService, StopService, StopConfigs
    <3> QED
      BY <3>1, <3>2
  <2> QED
    BY <2>1, <2>2 DEF HandlerStep
<1>4. UNCHANGED svc \/ \E n \in Names : DeleteService(n)
  <2>1. CASE SaveStep(p)
    BY <1>1, <2>1, SavesKept DEF SaveStep, swarm
  <2>2. CASE \/ Api!EnqueueStart(p) \/ Api!StartCount(p) \/ Api!MakeCheck(p)
             \/ Api!MakeInsert(p) \/ Api!StartList(p) \/ Api!StartSave(p)
             \/ Api!StopList(p) \/ Api!SaveRow(p)
    BY <1>1, <2>2, OthersKept DEF swarm
  <2>3. CASE StopService(p)
    <3>1. task[p] \in Api!Tasks
      BY <1>1, <2>3 DEF Kept, WebInv, TaskOK, StopService, Api!Idle
    <3>2. task[p].todo \in SUBSET Rows
      BY <3>1, SameStore DEF Api!Tasks
    <3> QED
      BY <2>3, <3>2 DEF StopService, Rows, NameOf
  <2> QED
    BY <2>1, <2>2, <2>3 DEF HandlerStep, OtherStep, StartConfigs, StopConfigs
<1>5. \A n \in Names : /\ Fresh(n)' => Fresh(n)
                       /\ Lacking(n) => Lacking(n)'
  <2>1. CASE UNCHANGED svc
    BY <2>1 DEF Fresh, Lacking, Exists
  <2>2. ASSUME NEW m \in Names, DeleteService(m)
        PROVE  \A n \in Names : svc'[n] = IF n = m THEN NoSvc ELSE svc[n]
    BY <1>1, <2>2 DEF SwarmOK, DeleteService
  <2> QED
    BY <1>4, <2>1, <2>2 DEF Fresh, Lacking, Exists, NoSvc
<1> QED
  BY <1>2, <1>3, <1>5 DEF Plain

\* Handlers that stay, or begin.
LEMMA TasksStay ==
    ASSUME UNCHANGED task
    PROVE  PollerGoes /\ StartGoes
  BY DEF PollerGoes, StartGoes

LEMMA BeginGoes ==
    ASSUME TaskOK, NEW p \in Servers, NEW t, Api!Begin(p, t),
           t.op = "start" => t.pc = "mark"
    PROVE  PollerGoes /\ StartGoes
<1>1. task' = [task EXCEPT ![p] = t]
  BY DEF Api!Begin
<1>2. \A q \in Procs : task'[q] = IF q = p THEN t ELSE task[q]
  BY <1>1 DEF TaskOK
<1>3. p # Poller
  BY SwarmAssumption
<1> QED
  BY <1>2, <1>3 DEF PollerGoes, StartGoes, Procs

LEMMA StillPlain ==
    ASSUME UNCHANGED <<svc, poll, aged>>, PollerGoes, StartGoes
    PROVE  Plain
  BY DEF Plain, Fresh, Lacking, Exists

LEMMA UserPlain ==
    ASSUME IndInv, UserStep
    PROVE  Plain
<1>1. UNCHANGED <<svc, poll, aged>>
  BY DEF UserStep, Api!DestroyJob, Api!CreateJob, Api!StartJob, Api!CancelJob,
         Api!CleanJob, Api!EditJob, Api!cluster
<1>2. CASE Api!DestroyJob
  BY <1>1, <1>2, TasksStay, StillPlain DEF Api!DestroyJob, Api!web
<1>3. ASSUME NEW p \in Servers,
             \/ Api!CreateJob(p) \/ Api!StartJob(p) \/ Api!CancelJob(p)
             \/ Api!CleanJob(p) \/ Api!EditJob(p)
      PROVE  Plain
  <2>1. \E t : Api!Begin(p, t) /\ (t.op = "start" => t.pc = "mark")
    BY <1>3 DEF Api!CreateJob, Api!StartJob, Api!CancelJob, Api!CleanJob,
                Api!EditJob, Api!StartHandler, Api!Handler
  <2> QED
    BY <1>1, <2>1, BeginGoes, StillPlain, Parts DEF Kept, WebInv
<1> QED
  BY <1>2, <1>3 DEF UserStep

LEMMA TakePlain ==
    ASSUME IndInv, TakeMessage \/ \E m \in Api!Requests : TakeRequest(m)
    PROVE  Plain
<1>1. UNCHANGED <<svc, poll, aged>>
  BY DEF TakeMessage, TakeRequest, Api!StartAvesjob, Api!HandleRequest, Api!cluster
<1>2. \E p \in Servers : \E t : Api!Begin(p, t) /\ (t.op = "start" => t.pc = "mark")
  <2>1. CASE TakeMessage
    BY <2>1 DEF TakeMessage, Api!StartAvesjob, Api!StartHandler, Api!Handler, Api!Idle
  <2>2. ASSUME NEW m \in Api!Requests, TakeRequest(m)
        PROVE  \E p \in Servers : \E t : Api!Begin(p, t) /\ (t.op = "start" => t.pc = "mark")
    <3> DEFINE t == CASE m.kind = "wstat" -> Api!WorkerChangeStatus(m)
                      [] m.kind = "jstat" -> Api!JobChangeStatus(m)
                      [] m.kind = "jres"  -> Api!FinishJob(m)
    <3>1. \E p \in Servers : Api!Begin(p, t)
      BY <2>2 DEF TakeRequest, Api!HandleRequest
    <3>2. t.op # "start"
      BY DEF Api!Requests, Api!WorkerChangeStatus, Api!JobChangeStatus, Api!FinishJob,
             Api!Handler, Api!Idle
    <3> HIDE DEF t
    <3> QED
      BY <3>1, <3>2
  <2> QED
    BY <2>1, <2>2
<1> QED
  BY <1>1, <1>2, BeginGoes, StillPlain, Parts DEF Kept, WebInv

\* The scripts, and what docker does of itself.
LEMMA ContainerPlain ==
    ASSUME IndInv, NEW n \in Names,
           \/ ScriptStep(n) \/ TrainStep(n) \/ SwarmStep(n)
           \/ Api!Breaks(n) /\ UNCHANGED <<poll, aged>>
           \/ ContainerDies(n) \/ Rejected(n)
    PROVE  Plain
<1>1. UNCHANGED <<task, poll, aged>>
  BY DEF ScriptStep, TrainStep, SwarmStep, Api!ReportWorkerRunning, Api!Rendezvous,
         Api!Prepare, Api!StartMpi, Api!ReportResult, Api!ReportBroken, Api!TrainWon,
         Api!TrainLost, Api!Breaks, Api!ScriptFrame, ScriptEnds, TaskStarts,
         ContainerStarts, ContainerDies, Rejected, ContainerFrame
<1>2. \/ UNCHANGED svc
      \/ TaskMoves(n, {"new"}, "preparing") \/ TaskMoves(n, {"preparing"}, "running")
      \/ TaskMoves(n, {"running"}, "over")
      \/ TaskMoves(n, {"new", "preparing"}, "rejected")
  BY DEF ScriptStep, TrainStep, SwarmStep, Api!ReportWorkerRunning, Api!Rendezvous,
         Api!Prepare, Api!StartMpi, Api!ReportResult, Api!ReportBroken, Api!TrainWon,
         Api!TrainLost, Api!Breaks, Api!ScriptFrame, ScriptEnds, TaskStarts,
         ContainerStarts, ContainerDies, Rejected, TaskMade, ContainerRuns,
         ContainerOver, TaskRejected, Api!cluster
<1>3. \A k \in Names : /\ Fresh(k)' => Fresh(k)
                       /\ Lacking(k) => Lacking(k)'
  <2>1. CASE UNCHANGED svc
    BY <2>1 DEF Fresh, Lacking, Exists
  <2>2. ASSUME NEW from \in SUBSET (SvcPhases \ {"none", "rejected"}),
               NEW to \in SvcPhases \ {"none", "new"}, TaskMoves(n, from, to)
        PROVE  \A k \in Names : /\ Fresh(k)' => Fresh(k)
                                /\ Lacking(k) => Lacking(k)'
    <3>1. svc \in [Names -> Services]
      BY Parts DEF SwarmOK
    <3>2. svc'[n].phase = to /\ \A k \in Names : k # n => svc'[k] = svc[k]
      BY <2>2, <3>1 DEF TaskMoves, Services
    <3>3. svc[n].phase \notin {"none", "rejected"}
      BY <2>2 DEF TaskMoves
    <3> QED
      BY <2>2, <3>2, <3>3 DEF Fresh, Lacking, Exists
  <2> QED
    BY <1>2, <2>1, <2>2 DEF SvcPhases
<1> QED
  BY <1>1, <1>3, TasksStay DEF Plain

\* Handlers and the poller die, reports are late or lost.
LEMMA LossPlain ==
    ASSUME IndInv,
           \/ \E p \in Procs : Api!Crash(p) /\ UNCHANGED <<script, poll, aged>>
           \/ \E m \in Api!Requests :
                 (Api!ReportTimesOut(m) \/ Api!ReportLost(m)) /\ UNCHANGED <<poll, aged>>
           \/ PollerDies
           \/ UNCHANGED vars
    PROVE  Plain
<1>1. UNCHANGED <<svc, aged>> /\ (poll' = poll \/ poll' = Asleep)
  BY DEF Api!Crash, Api!ReportTimesOut, Api!ReportLost, Api!ScriptFrame, PollerDies,
         Api!cluster, swarm, vars
<1>2. PollerGoes /\ StartGoes
  <2>1. ASSUME NEW p \in Procs, Api!Crash(p) PROVE PollerGoes /\ StartGoes
    <3>1. task' = [task EXCEPT ![p] = Api!Idle]
      BY <2>1 DEF Api!Crash, Api!End, Api!Goto
    <3>2. \A q \in Procs : task'[q] = IF q = p THEN Api!Idle ELSE task[q]
      BY <3>1, Parts DEF Kept, WebInv, TaskOK
    <3> QED
      BY <3>2 DEF PollerGoes, StartGoes, Procs, Api!Idle
  <2>2. CASE UNCHANGED task
    BY <2>2, TasksStay
  <2> QED
    BY <2>1, <2>2 DEF Api!ReportTimesOut, Api!ReportLost, Api!ScriptFrame, PollerDies,
                      web, vars
<1> QED
  BY <1>1, <1>2 DEF Plain, Fresh, Lacking, Exists

\* What is excused stays so, and what runs beside the poller is noted at once.
LEMMA Notes ==
    ASSUME HNext
    PROVE  Noted' /\ (Excused => Excused')
<1>1. causes' = causes \union {c \in Causes : Happens(c)}
  BY DEF HNext
<1>2. ASSUME Polling', NEW p \in Procs, Starting(p)' PROVE "beside" \in causes'
  <2>1. Happens("beside")
    BY <1>2 DEF Happens, PollerAtWork, Polling, Starting
  <2> QED
    BY <1>1, <2>1 DEF Causes
<1> QED
  BY <1>1, <1>2 DEF Noted, Excused

LEMMA PlainKeeps ==
    ASSUME PollInv, HNext, Plain
    PROVE  PollInv'
<1> USE DEF PollInv, Plain
<1>1. Noted' /\ (Excused => Excused')
  BY Notes
<1>2. PollerOp'
  BY DEF PollerGoes, PollerOp, Api!Idle
<1>3. StartIsYoung'
  BY <1>1 DEF StartGoes, StartIsYoung, Starting
<1>4. FreshIsYoung'
  BY <1>1 DEF FreshIsYoung, Asleep
<1>5. SeenLacking'
  BY <1>1 DEF SeenLacking, PollerGoes, Asleep, Api!Idle
<1> QED
  BY <1>1, <1>2, <1>3, <1>4, <1>5

\* A service is made: its start is beside whatever the poller does.
LEMMA ServiceKeeps ==
    ASSUME IndInv, PollInv, HNext, NEW p \in Procs, StartService(p), UNCHANGED aged
    PROVE  PollInv'
<1> USE DEF PollInv
<1>1. Noted' /\ (Excused => Excused')
  BY Notes
<1>2. PollerGoes /\ StartGoes
  BY HandlerGoesPlainly, Parts DEF Kept, WebInv, HandlerStep, OtherStep
<1>3. PollerOp'
  BY <1>2 DEF PollerGoes, PollerOp, Api!Idle
<1>4. StartIsYoung'
  BY <1>1, <1>2 DEF StartGoes, StartIsYoung, Starting
<1>5. Starting(p) /\ task[p].pc = "pod" /\ p \in Servers
  BY DEF StartService, At, Starting, PollerOp, Procs
<1>6. UNCHANGED <<poll, aged>>
  BY DEF StartService
<1>7. FreshIsYoung'
  <2>1. aged \/ poll.old \/ poll.pc = "look" => Excused
    <3>1. poll.old \/ poll.pc = "look" => Polling
      BY DEF Polling, Asleep
    <3> QED
      BY <1>5, <3>1 DEF StartIsYoung, Noted, Excused, Procs
  <2> QED
    BY <1>1, <1>6, <2>1 DEF FreshIsYoung
<1>8. SeenLacking'
  <2>1. poll.pc = "rows" \/ task[Poller].op = "image" => Excused
    <3>1. poll.pc = "rows" \/ task[Poller].op = "image" => Polling
      BY DEF Polling, Asleep, Api!Idle
    <3> QED
      BY <1>5, <3>1 DEF Noted, Excused, Procs
  <2>2. task'[Poller].op = "image" => task[Poller].op = "image"
    BY <1>2 DEF PollerGoes, Api!Idle
  <2> QED
    BY <1>1, <1>6, <2>1, <2>2 DEF SeenLacking
<1> QED
  BY <1>1, <1>3, <1>4, <1>7, <1>8

\* Five minutes are noted when they pass a start or a new service.
LEMMA TimeKeeps ==
    ASSUME IndInv, PollInv, HNext, TimePasses
    PROVE  PollInv'
<1> USE DEF PollInv
<1>1. Noted' /\ (Excused => Excused')
  BY Notes
<1>2. UNCHANGED <<task, svc>> /\ aged' /\ poll'.pc = poll.pc
  BY Parts DEF TimePasses, web, swarm, LocalOK
<1>3. Slow => Excused'
  <2>1. Spend("timeout") => budget' # budget
    BY Parts DEF Spend, Kept, BudgetOK, Kinds, FaultKinds
  <2>2. Slow => Happens("slow")
    BY <1>2, <2>1 DEF TimePasses, Happens
  <2> QED
    BY <2>2 DEF HNext, Causes, Excused
<1>4. PollerOp'
  BY <1>2 DEF PollerOp
<1>5. StartIsYoung'
  BY <1>2, <1>3 DEF StartIsYoung, Slow, Starting
<1>6. FreshIsYoung'
  BY <1>2, <1>3 DEF FreshIsYoung, Slow, Fresh
<1>7. SeenLacking'
  BY <1>1, <1>2 DEF SeenLacking, Lacking, Exists
<1> QED
  BY <1>1, <1>4, <1>5, <1>6, <1>7

LEMMA Looks ==
    ASSUME NEW rows, LookAt(rows)
    PROVE  ~poll'.old /\ poll'.pc \in {"sleep", "look"}
  BY DEF LookAt, Asleep

LEMMA PollMoves ==
    ASSUME PollList \/ PollAge \/ PollLook
    PROVE  /\ poll'.old => aged
           /\ poll'.pc = "look" => poll.old \/ poll.pc = "look"
           /\ poll'.pc = "rows" =>
                 /\ poll.pc = "look"
                 /\ \E r \in poll.todo : \/ Disappeared(NameOf(r))
                                         \/ svc[NameOf(r)].phase = "rejected"
<1>1. CASE PollList
  <2>1. poll' = [Asleep EXCEPT !.pc = "age", !.old = aged]
    BY <1>1 DEF PollList
  <2> QED
    BY <2>1 DEF Asleep
<1>2. CASE PollAge
  <2>1. LookAt(IF poll.old THEN JobWorkers ELSE {})
    BY <1>2 DEF PollAge
  <2>2. ~poll.old => poll' = Asleep
    BY <2>1 DEF LookAt
  <2> QED
    BY <2>1, <2>2, Looks DEF Asleep
<1>3. CASE PollLook
  <2>1. PICK r \in poll.todo :
           \/ /\ Disappeared(NameOf(r)) \/ svc[NameOf(r)].phase = "rejected"
              /\ poll' = [Asleep EXCEPT !.pc = "rows"]
           \/ LookAt(poll.todo \ {r})
    BY <1>3 DEF PollLook
  <2>2. poll.pc = "look"
    BY <1>3 DEF PollLook
  <2>3. CASE LookAt(poll.todo \ {r})
    BY <2>2, <2>3, Looks
  <2>4. CASE /\ Disappeared(NameOf(r)) \/ svc[NameOf(r)].phase = "rejected"
             /\ poll' = [Asleep EXCEPT !.pc = "rows"]
    BY <2>2, <2>4 DEF Asleep
  <2> QED
    BY <2>1, <2>3, <2>4
<1> QED
  BY <1>1, <1>2, <1>3

\* The poller lists, looks and fails the job.
LEMMA PollKeeps ==
    ASSUME IndInv, PollInv, HNext, PollStep
    PROVE  PollInv'
<1> USE DEF PollInv
<1>1. Noted' /\ (Excused => Excused')
  BY Notes
<1>2. UNCHANGED <<svc, aged>>
  BY DEF PollStep, PollList, PollAge, PollLook, PollRows, swarm
<1>3. \A n \in Names : Lacking(n) => Lacking(n)'
  BY <1>2 DEF Lacking, Exists
<1>4. CASE PollList \/ PollAge \/ PollLook
  <2>1. UNCHANGED task
    BY <1>4 DEF PollList, PollAge, PollLook, web
  <2>2. PollerOp' /\ StartIsYoung'
    BY <1>1, <1>2, <2>1 DEF PollerOp, StartIsYoung, Starting
  <2>3. /\ poll'.old => aged
        /\ poll'.pc = "look" => poll.old \/ poll.pc = "look"
    BY <1>4, PollMoves
  <2>5. FreshIsYoung'
    BY <1>1, <1>2, <2>3 DEF FreshIsYoung, Fresh
  <2>6. SeenLacking'
    <3>1. ASSUME poll'.pc = "rows" PROVE Excused \/ \E m \in Names : Lacking(m)
      <4>2. PICK r \in poll.todo :
               Disappeared(NameOf(r)) \/ svc[NameOf(r)].phase = "rejected"
        BY <1>4, <3>1, PollMoves
      <4>3. NameOf(r) \in Names
        BY <4>2, Parts DEF LocalOK, Rows, NameOf
      <4>4. poll.pc = "look"
        BY <1>4, <3>1, PollMoves
      <4> QED
        BY <4>2, <4>3, <4>4 DEF Disappeared, Lacking, Exists, FreshIsYoung, Fresh
    <3> QED
      BY <1>1, <1>3, <2>1, <3>1 DEF SeenLacking
  <2> QED
    BY <1>1, <2>2, <2>5, <2>6
<1>5. CASE PollRows
  <2> DEFINE t == Api!Handler("image", "write", NoRow, "FAILURE", Api!NoReq)
  <2>1. t.op = "image" /\ task' = [task EXCEPT ![Poller] = t]
    BY <1>5 DEF PollRows, Api!Begin, Api!Handler
  <2> HIDE DEF t
  <2>2. \A q \in Procs : task'[q] = IF q = Poller THEN t ELSE task[q]
    BY <2>1, Parts DEF Kept, WebInv, TaskOK
  <2>3. Poller \in Procs /\ Poller \notin Servers /\ Servers \subseteq Procs
    BY SwarmAssumption DEF Procs
  <2>4. PollerOp' /\ StartIsYoung'
    BY <1>1, <1>2, <2>1, <2>2, <2>3 DEF PollerOp, StartIsYoung, Starting
  <2>5. FreshIsYoung'
    BY <1>1, <1>2, <1>5 DEF PollRows, FreshIsYoung, Fresh, Asleep
  <2>6. SeenLacking'
    BY <1>1, <1>3, <1>5 DEF PollRows, SeenLacking
  <2> QED
    BY <1>1, <2>4, <2>5, <2>6
<1> QED
  BY <1>4, <1>5 DEF PollStep

LEMMA InitPoll == HInit => PollInv
<1> SUFFICES ASSUME HInit PROVE PollInv
  OBVIOUS
<1>1. task = [p \in Procs |-> Api!Idle] /\ poll = Asleep /\ ~aged
  BY DEF HInit, Init, Api!WebInit
<1>2. task[Poller] = Api!Idle /\ \A p \in Procs : task[p].op = "none"
  BY <1>1 DEF Procs, Api!Idle
<1> QED
  BY <1>1, <1>2 DEF PollInv, PollerOp, Noted, Polling, Starting, StartIsYoung,
                    FreshIsYoung, SeenLacking, Asleep, Api!Idle

LEMMA NextPoll == IndInv /\ PollInv /\ [HNext]_hvars => PollInv'
<1> SUFFICES ASSUME IndInv, PollInv, [HNext]_hvars PROVE PollInv'
  OBVIOUS
<1>1. CASE UNCHANGED hvars
  BY <1>1 DEF hvars, vars, web, swarm, PollInv, PollerOp, Noted, Polling, Starting,
              StartIsYoung, FreshIsYoung, SeenLacking, Excused, Fresh, Lacking, Exists
<1>2. CASE HNext
  <2>1. Next
    BY <1>2 DEF HNext
  <2>2. CASE UserStep \/ TakeMessage \/ \E m \in Api!Requests : TakeRequest(m)
    BY <1>2, <2>2, UserPlain, TakePlain, PlainKeeps
  <2>3. ASSUME NEW p \in Procs, HandlerStep(p) PROVE PollInv'
    <3>1. CASE StartService(p)
      <4>1. UNCHANGED aged
        BY <2>3, <3>1 DEF HandlerStep, OtherStep, SaveStep, StartService, At,
                          Api!StartMark, Api!StartFail, Api!WriteJob, Api!At
      <4> QED
        BY <1>2, <3>1, <4>1, ServiceKeeps
    <3>2. CASE ~StartService(p)
      BY <1>2, <2>3, <3>2, HandlerPlain, PlainKeeps
    <3> QED
      BY <3>1, <3>2
  <2>4. ASSUME NEW n \in Names, ScriptStep(n) \/ TrainStep(n) \/ SwarmStep(n)
        PROVE  PollInv'
    BY <1>2, <2>4, ContainerPlain, PlainKeeps
  <2>5. CASE PollStep \/ TimePasses
    BY <1>2, <2>5, PollKeeps, TimeKeeps
  <2>6. CASE Fault
    BY <1>2, <2>6, ContainerPlain, LossPlain, PlainKeeps DEF Fault
  <2> QED
    BY <2>1, <2>2, <2>3, <2>4, <2>5, <2>6 DEF Next
<1> QED
  BY <1>1, <1>2

LEMMA PollInvCorrect == HSpec => [](IndInv /\ PollInv)
<1>1. HInit => IndInv /\ PollInv
  BY InitInv, InitPoll DEF HInit
<1>2. IndInv /\ PollInv /\ [HNext]_hvars => (IndInv /\ PollInv)'
  <2>1. [HNext]_hvars => [Next]_vars
    BY DEF HNext, hvars
  <2> QED
    BY <2>1, NextInv, NextPoll
<1> QED
  BY <1>1, <1>2, PTL DEF HSpec

\* For any workers and handlers, the poller stops a container that runs only
\* when it has seen that another worker's task is missing or rejected, unless
\* a start or docker took five minutes over a service, or a start ran beside
\* the poller (watch_job: "workers are disappeared").
THEOREM PollerSparesRunningCorrect == HSpec => PollerSparesRunning
<1> DEFINE Spares == \A n \in Names :
              At(Poller, "image", "stopPod") /\ svc[n].phase = "running" /\ ~Exists(n)'
              => \/ causes \intersect {"slow", "beside"} # {}
                 \/ \E m \in Names \ {n} : Lacking(m)
<1>1. PollInv => Spares
  BY DEF PollInv, SeenLacking, Excused, At, Lacking, Exists
<1>2. PollInv => [Spares]_hvars
  BY <1>1
<1> QED
  BY <1>2, PollInvCorrect, PTL DEF PollerSparesRunning

-----------------------------------------------------------------------------
(* NamesFree: the invariant.                                               *)

Stopping == {"cancel", "clean", "finish", "image"}

\* What a handler of each operation may be at, and what it writes.
ShapeOf(t, p) ==
    /\ t.op # "event"
    /\ t.pc \in Api!StopPcs => t.op \in Stopping
    /\ t.pc = "write" => t.op \in {"cancel", "finish", "image", "jstat", "edit"}
    /\ t.pc = "saveRow" => t.op = "wstat"
    /\ t.op = "image" => p = Poller
    /\ t.op = "cancel" => t.out = "CANCELED"
    /\ t.op \in {"finish", "image"} => t.out \in {"FINISHED", "FAILURE"}
    /\ t.op = "jstat" => t.out = "RUNNING"
    /\ t.op = "wstat" => t.out # Absent
Shapes == \A p \in Procs : ShapeOf(task[p], p)

Telling == \A m \in inbox : /\ m.kind = "jstat" => m.st = "RUNNING"
                            /\ m.kind = "jres" => m.st # "RUNNING"

Within == \A k \in Kinds : budget[k] <= Budget[k]

\* Before the job is created nothing is at work on it.
NotYetCreated ==
    ~Spent("create") =>
        /\ job = Absent /\ \A r \in Rows : wst[r] = Absent
        /\ \A p \in Procs : Idle(p)
        /\ poll = Asleep /\ startMsgs = 0

\* Nobody has edited or destroyed the row.
EditsSpend == \A p \in Procs : task[p].op = "edit" => Spent("edit")

\* Configs are those of rows that are there.
Here(r) == wst[r] # Absent
TaskHere(t) ==
    t.op = "start" => /\ \A r \in t.todo : Here(r)
                      /\ t.pc \in Api!RowPcs => Here(t.cur)
AllHere == /\ \A r \in Rows : HasConfigs(r) => Here(r)
           /\ \A p \in Procs : TaskHere(task[p])
RowsHere == ~Spent("destroy") => AllHere

\* What has been noted.
NoOverlap ==
    \A p, q \in Procs :
        p # q /\ Starting(p) /\ task[q].op \in {"start", "cancel", "clean", "finish"}
        => "overlap" \in causes
NoPartial ==
    \A p \in Procs, r \in Rows :
        task[p].pc = "fail" /\ cfgs[r] = p => "partial" \in causes

Clean ==
    /\ causes \intersect {"partial", "overlap", "beside"} = {}
    /\ ~Spent("refuse") /\ ~Spent("crash") /\ ~Spent("edit") /\ ~Spent("destroy")

Nothing == \A r \in Rows : ~HasConfigs(r)

\* The handler of q will still come to the configs of r.
ComesTo(q, r) ==
    \/ task[q].pc = "stopList"
    \/ task[q].pc = "stopPod" /\ r \in task[q].todo
    \/ task[q].pc = "stopCm" /\ r \in task[q].todo \union {task[q].cur}

FreshIsFree == job \in {"NEW", Absent} => Nothing
StartIsActive == \A p \in Procs : Starting(p) /\ task[p].pc # "mark" => job \in Active
StartOwns ==
    ~Debug => \A p \in Procs, r \in Rows :
                 Starting(p) /\ HasConfigs(r) => cfgs[r] = p
OverIsStopped ==
    ~Debug /\ job \in {"FINISHED", "FAILURE"} =>
        \A r \in Rows : HasConfigs(r) =>
            \E q \in Procs : task[q].op \in {"finish", "image"} /\ ComesTo(q, r)
CanceledIsFree == job = "CANCELED" => Nothing
CancelComes ==
    \A q \in Procs, r \in Rows : task[q].op = "cancel" /\ HasConfigs(r) => ComesTo(q, r)
StoppedIsGone ==
    \A q \in Procs : task[q].pc = "stopCm" => ~Exists(NameOf(task[q].cur))

FreeInv ==
    /\ FreshIsFree /\ StartIsActive /\ StartOwns /\ OverIsStopped
    /\ CanceledIsFree /\ CancelComes /\ StoppedIsGone

GroundInv == Within /\ Shapes /\ Telling /\ NotYetCreated /\ EditsSpend /\ RowsHere
NotedInv == NoOverlap /\ NoPartial

-----------------------------------------------------------------------------
(* The shapes of the handlers, and what the requests tell.                 *)

LEMMA PutShape ==
    ASSUME TaskOK, Shapes, NEW p \in Procs, NEW t, task' = [task EXCEPT ![p] = t],
           ShapeOf(t, p)
    PROVE  Shapes'
<1>1. \A q \in Procs : task'[q] = IF q = p THEN t ELSE task[q]
  BY DEF TaskOK
<1> QED
  BY <1>1 DEF Shapes

LEMMA IdleShape == \A p : ShapeOf(Api!Idle, p)
  BY DEF ShapeOf, Api!Idle, Api!StopPcs

LEMMA EndShape ==
    ASSUME TaskOK, Shapes, NEW p \in Procs, Api!End(p)
    PROVE  Shapes'
<1>1. task' = [task EXCEPT ![p] = Api!Idle]
  BY DEF Api!End, Api!Goto
<1>2. \A q \in Procs : task'[q] = IF q = p THEN Api!Idle ELSE task[q]
  BY <1>1 DEF TaskOK
<1> QED
  BY <1>2, IdleShape DEF Shapes

\* A handler may go on to pc.
MayGo(p, pc) ==
    /\ pc \in Api!StopPcs => task[p].op \in Stopping
    /\ pc = "write" => task[p].op \in Stopping \ {"clean"}
    /\ pc # "saveRow"

LEMMA GoShape ==
    ASSUME TaskOK, Shapes, NEW p \in Procs, NEW t, task' = [task EXCEPT ![p] = t],
           NEW pc, Same(t, task[p], pc), MayGo(p, pc)
    PROVE  Shapes'
<1>1. ShapeOf(t, p)
  BY DEF Shapes, ShapeOf, Same, MayGo, Stopping
<1> QED
  BY <1>1, PutShape

LEMMA ToShape ==
    ASSUME TaskOK, Shapes, NEW p \in Procs, NEW pc, Api!To(p, pc), MayGo(p, pc)
    PROVE  Shapes'
<1>1. Same([task[p] EXCEPT !.pc = pc], task[p], pc)
  BY TaskType, SameOp
<1> QED
  BY <1>1, GoShape DEF Api!To, Api!Goto

LEMMA NextWorkerShape ==
    ASSUME TaskOK, Shapes, NEW p \in Procs, NEW rows, Api!NextWorker(p, rows)
    PROVE  Shapes'
<1>1. CASE rows = {}
  BY <1>1, EndShape DEF Api!NextWorker
<1>2. CASE rows # {}
  <2>1. PICK r \in rows :
           Api!Goto(p, [task[p] EXCEPT !.pc = "config", !.cur = r,
                                       !.todo = rows \ {r}])
    BY <1>2 DEF Api!NextWorker
  <2> DEFINE t == [task[p] EXCEPT !.pc = "config", !.cur = r, !.todo = rows \ {r}]
  <2>2. Same(t, task[p], "config")
    BY TaskType, SameOp
  <2>3. MayGo(p, "config")
    BY DEF MayGo, Api!StopPcs
  <2> QED
    BY <2>1, <2>2, <2>3, GoShape DEF Api!Goto
<1> QED
  BY <1>1, <1>2

LEMMA AfterStopShape ==
    ASSUME TaskOK, Shapes, NEW p \in Procs, Api!AfterStop(p)
    PROVE  Shapes'
<1> DEFINE t == [task[p] EXCEPT !.pc = "write", !.cur = NoRow]
<1>1. Same(t, task[p], "write")
  BY TaskType, SameOp
<1>2. CASE task[p].op = "cancel"
  <2>1. MayGo(p, "write")
    BY <1>2 DEF MayGo, Stopping, Api!StopPcs
  <2> QED
    BY <1>1, <1>2, <2>1, GoShape DEF Api!AfterStop, Api!Goto
<1>3. CASE task[p].op # "cancel"
  BY <1>3, EndShape DEF Api!AfterStop
<1> QED
  BY <1>2, <1>3

LEMMA HandlerShape ==
    ASSUME TaskOK, Shapes, NEW p \in Procs, HandlerStep(p)
    PROVE  Shapes'
<1> USE DEF Api!StopPcs
<1>0. ShapeOf(task[p], p)
  BY DEF Shapes
<1>1. CASE Api!StartMark(p) \/ Api!StartFail(p)
  BY <1>1, ToShape, EndShape DEF Api!StartMark, Api!StartFail, MayGo
<1>2. CASE Api!WriteJob(p)
  <2>1. task[p].op \in {"finish", "image"} => MayGo(p, "stopList")
    BY DEF MayGo, Stopping
  <2> QED
    BY <1>2, <2>1, ToShape, EndShape DEF Api!WriteJob
<1>3. CASE Api!EnqueueStart(p)
  <2>1. task' = [task EXCEPT ![p] = Api!Idle]
    BY <1>3 DEF Api!EnqueueStart
  <2>2. \A q \in Procs : task'[q] = IF q = p THEN Api!Idle ELSE task[q]
    BY <2>1 DEF TaskOK
  <2> QED
    BY <2>2, IdleShape DEF Shapes
<1>4. CASE Api!StartCount(p) \/ Api!MakeCheck(p) \/ Api!MakeInsert(p)
  BY <1>4, ToShape DEF Api!StartCount, Api!MakeCheck, Api!MakeInsert, MayGo
<1>5. CASE Api!SaveRow(p)
  <2>1. task[p].op = "wstat"
    BY <1>0, <1>5 DEF Api!SaveRow, ShapeOf
  <2> QED
    BY <1>5, <2>1, EndShape DEF Api!SaveRow
<1>6. CASE Api!StartList(p) \/ Api!StartSave(p)
  BY <1>6, NextWorkerShape, EndShape DEF Api!StartList, Api!StartSave
<1>7. CASE Api!StopList(p)
  <2> DEFINE rows == {r \in Api!JobWorkers : ~Api!Spared(task[p].op, r)}
             t == [task[p] EXCEPT !.pc = "stopPod", !.todo = rows]
  <2>1. Api!AfterStop(p) \/ Api!Goto(p, t)
    BY <1>7 DEF Api!StopList
  <2> HIDE DEF rows
  <2>2. Same(t, task[p], "stopPod")
    BY TaskType, SameOp
  <2>3. MayGo(p, "stopPod")
    BY <1>0, <1>7 DEF Api!StopList, ShapeOf, MayGo
  <2> QED
    BY <2>1, <2>2, <2>3, AfterStopShape, GoShape DEF Api!Goto
<1>8. CASE StartConfigs(p) \/ StartService(p)
  BY <1>8, ToShape DEF StartConfigs, StartService, MayGo
<1>9. CASE StopService(p)
  <2>1. PICK r \in task[p].todo :
           task' = [task EXCEPT ![p].pc = "stopCm", ![p].cur = r, ![p].todo = @ \ {r}]
    BY <1>9 DEF StopService
  <2> DEFINE t == [task[p] EXCEPT !.pc = "stopCm", !.cur = r, !.todo = @ \ {r}]
  <2>2. Same(t, task[p], "stopCm")
    BY TaskType, SameOp
  <2>3. task' = [task EXCEPT ![p] = t]
    BY <2>1 DEF TaskOK
  <2>4. MayGo(p, "stopCm")
    BY <1>0, <1>9 DEF StopService, ShapeOf, MayGo
  <2> QED
    BY <2>2, <2>3, <2>4, GoShape
<1>10. CASE StopConfigs(p)
  <2>1. MayGo(p, "stopPod")
    BY <1>0, <1>10 DEF StopConfigs, ShapeOf, MayGo
  <2> QED
    BY <1>10, <2>1, ToShape, AfterStopShape DEF StopConfigs
<1> QED
  BY <1>1, <1>2, <1>3, <1>4, <1>5, <1>6, <1>7, <1>8, <1>9, <1>10
     DEF HandlerStep, SaveStep, OtherStep

LEMMA BeginShape ==
    ASSUME TaskOK, Shapes, NEW p \in Procs, NEW t, Api!Begin(p, t), ShapeOf(t, p)
    PROVE  Shapes'
  BY PutShape DEF Api!Begin

LEMMA OthersShape ==
    ASSUME IndInv, Shapes, Telling, [Next]_vars
    PROVE  Shapes'
<1> USE DEF Api!StopPcs
<1>0. TaskOK /\ Servers \subseteq Procs
  BY Parts DEF Kept, WebInv, Procs
<1>s. ASSUME UNCHANGED task PROVE Shapes'
  BY <1>s DEF Shapes
<1>1. CASE UserStep
  <2>1. CASE Api!DestroyJob
    BY <1>s, <2>1 DEF Api!DestroyJob, Api!web
  <2>2. ASSUME NEW p \in Servers,
               \/ Api!CreateJob(p) \/ Api!StartJob(p) \/ Api!CancelJob(p)
               \/ Api!CleanJob(p) \/ Api!EditJob(p)
        PROVE  Shapes'
    <3>1. /\ ShapeOf(Api!Handler("create", "enqueue", NoRow, Api!Absent, Api!NoReq), p)
          /\ ShapeOf(Api!StartHandler, p)
          /\ ShapeOf(Api!Handler("cancel", "stopList", NoRow, "CANCELED", Api!NoReq), p)
          /\ ShapeOf(Api!Handler("clean", "stopList", NoRow, Api!Absent, Api!NoReq), p)
          /\ ShapeOf(Api!Handler("edit", "write", NoRow, job, Api!NoReq), p)
      BY DEF ShapeOf, Api!Handler, Api!StartHandler, Stopping
    <3> QED
      BY <1>0, <2>2, <3>1, BeginShape
         DEF Api!CreateJob, Api!StartJob, Api!CancelJob, Api!CleanJob, Api!EditJob
  <2> QED
    BY <1>1, <2>1, <2>2 DEF UserStep
<1>2. ASSUME NEW p \in Procs, HandlerStep(p) PROVE Shapes'
  BY <1>0, <1>2, HandlerShape
<1>3. CASE TakeMessage
  <2>1. \A p : ShapeOf(Api!StartHandler, p)
    BY DEF ShapeOf, Api!Handler, Api!StartHandler, Stopping
  <2>2. PICK p \in Servers : Api!StartAvesjob(p)
    BY <1>3 DEF TakeMessage
  <2>3. CASE Api!Begin(p, Api!StartHandler)
    BY <1>0, <2>1, <2>3, BeginShape
  <2>4. CASE Api!Begin(p, Api!Idle)
    BY <1>0, <2>4, IdleShape, BeginShape
  <2> QED
    BY <2>2, <2>3, <2>4 DEF Api!StartAvesjob
<1>4. ASSUME NEW m \in Api!Requests, TakeRequest(m) PROVE Shapes'
  <2> DEFINE t == CASE m.kind = "wstat" -> Api!WorkerChangeStatus(m)
                    [] m.kind = "jstat" -> Api!JobChangeStatus(m)
                    [] m.kind = "jres"  -> Api!FinishJob(m)
  <2>1. PICK p \in Servers : Api!Begin(p, t)
    BY <1>4 DEF TakeRequest, Api!HandleRequest
  <2>2. m \in inbox /\ m.kind \in {"wstat", "jstat", "jres"}
        /\ m.st \in {"RUNNING", "FINISHED", "FAILURE"}
    BY <1>4 DEF TakeRequest, Api!HandleRequest, Api!Requests
  <2>3. \/ t = Api!Idle
        \/ m.kind = "wstat" /\ t = Api!Handler("wstat", "saveRow", m.row, m.st, m)
        \/ m.kind = "jstat" /\ t = Api!Handler("jstat", "write", NoRow, m.st, m)
        \/ m.kind = "jres" /\ t = Api!Handler("finish", "write", NoRow, m.st, m)
    BY <2>2 DEF Api!WorkerChangeStatus, Api!JobChangeStatus, Api!FinishJob
  <2> HIDE DEF t
  <2>4. ShapeOf(t, p)
    <3>1. CASE t = Api!Idle
      BY <3>1, IdleShape
    <3>2. CASE t # Api!Idle
      BY <2>2, <2>3, <3>2 DEF ShapeOf, Telling, Api!Handler, Stopping, Absent
    <3> QED
      BY <3>1, <3>2
  <2> QED
    BY <1>0, <2>1, <2>4, BeginShape
<1>5. ASSUME NEW n \in Names, ScriptStep(n) \/ TrainStep(n) \/ SwarmStep(n) PROVE Shapes'
  BY <1>s, <1>5
     DEF ScriptStep, TrainStep, SwarmStep, Api!ReportWorkerRunning, Api!Rendezvous,
         Api!Prepare, Api!StartMpi, Api!ReportResult, Api!ReportBroken, Api!TrainWon,
         Api!TrainLost, Api!ScriptFrame, ScriptEnds, TaskStarts, ContainerStarts,
         ContainerFrame
<1>6. CASE PollStep
  <2>1. CASE PollRows
    <3>1. ShapeOf(Api!Handler("image", "write", NoRow, "FAILURE", Api!NoReq), Poller)
      BY DEF ShapeOf, Api!Handler, Stopping
    <3> QED
      BY <1>0, <2>1, <3>1, BeginShape DEF PollRows, Procs
  <2> QED
    BY <1>6, <1>s, <2>1 DEF PollStep, PollList, PollAge, PollLook, web
<1>7. CASE TimePasses
  BY <1>7, <1>s DEF TimePasses, web
<1>8. CASE Fault
  <2>1. ASSUME NEW p \in Procs, Api!Crash(p) PROVE Shapes'
    BY <1>0, <2>1, EndShape DEF Api!Crash
  <2> QED
    BY <1>8, <1>s, <2>1
       DEF Fault, Api!Breaks, ContainerDies, Rejected, ContainerFrame, Api!ScriptFrame,
           Api!ReportTimesOut, Api!ReportLost, PollerDies, web
<1>9. CASE UNCHANGED vars
  BY <1>9, <1>s DEF vars, web
<1> QED
  BY <1>1, <1>2, <1>3, <1>4, <1>5, <1>6, <1>7, <1>8, <1>9 DEF Next

\* A new request is the report of a script, or one of its last words.
LEMMA TellingNext ==
    ASSUME IndInv, Telling, [Next]_vars
    PROVE  Telling'
<1>1. SwarmOK /\ LocalOK /\ Kept
  BY Parts
<1> DEFINE New(m) == /\ m.kind = "jstat" => m.st = "RUNNING"
                     /\ m.kind = "jres" => m.st # "RUNNING"
<1>2. ASSUME \A m \in inbox' : m \in inbox \/ New(m) PROVE Telling'
  BY <1>2 DEF Telling
<1>s. ASSUME inbox' \subseteq inbox PROVE Telling'
  BY <1>s DEF Telling
<1>3. ASSUME NEW n \in Names, NEW kind, NEW st, Api!Report(n, kind, st),
             kind = "jstat" => st = "RUNNING", kind = "jres" => st # "RUNNING"
      PROVE  Telling'
  BY <1>2, <1>3 DEF Api!Report
<1>4. ASSUME NEW n \in Names, ScriptStep(n) \/ TrainStep(n) \/ Api!Breaks(n)
      PROVE  Telling'
  BY <1>3, <1>4, <1>s
     DEF ScriptStep, TrainStep, Api!ReportWorkerRunning, Api!Rendezvous,
         Api!Prepare, Api!StartMpi, Api!ReportResult, Api!ReportBroken, Api!TrainWon,
         Api!TrainLost, Api!Breaks, Api!Quietly, ScriptEnds, ContainerFrame
<1>5. ASSUME NEW n PROVE \A m \in LastWords(n) : New(m)
  BY DEF LastWords
<1>6. ASSUME NEW p \in Procs, HandlerStep(p) PROVE Telling'
  <2>1. CASE StopService(p)
    <3>1. \/ inbox' = inbox
          \/ \E n : inbox' \in {inbox} \union {inbox \union {m} : m \in LastWords(n)}
      BY <2>1 DEF StopService
    <3> HIDE DEF New
    <3> QED
      BY <1>2, <1>5, <3>1
  <2>2. CASE ~StopService(p)
    <3>1. inbox' = inbox
      BY <1>6, <2>2
         DEF HandlerStep, SaveStep, OtherStep, Api!StartMark, Api!StartFail,
             Api!WriteJob, Api!EnqueueStart, Api!StartCount, Api!MakeCheck,
             Api!MakeInsert, Api!StartList, Api!StartSave, Api!StopList, Api!SaveRow,
             StartConfigs, StartService, StopConfigs, Api!NextWorker, Api!AfterStop,
             Api!To, Api!End, Api!Goto
    <3> QED
      BY <1>s, <3>1
  <2> QED
    BY <2>1, <2>2
<1>7. CASE UserStep \/ TakeMessage \/ \E m \in Api!Requests : TakeRequest(m)
  <2>1. inbox' \subseteq inbox
    BY <1>7 DEF UserStep, Api!DestroyJob, Api!CreateJob, Api!StartJob, Api!CancelJob,
                Api!CleanJob, Api!EditJob, Api!web, TakeMessage, Api!StartAvesjob,
                TakeRequest, Api!HandleRequest
  <2> QED
    BY <1>s, <2>1
<1>8. CASE PollStep \/ TimePasses \/ UNCHANGED vars
  BY <1>s, <1>8 DEF PollStep, PollList, PollAge, PollLook, PollRows, TimePasses, web, vars
<1>9. CASE Fault
  BY <1>4, <1>9, <1>s
     DEF Fault, Api!Crash, Api!End, Api!Goto, ContainerDies, Rejected, ContainerFrame,
         Api!ReportTimesOut, Api!ReportLost, PollerDies, web
<1>10. ASSUME NEW n \in Names, SwarmStep(n) PROVE Telling'
  BY <1>10, <1>s DEF SwarmStep, TaskStarts, ContainerStarts, ContainerFrame
<1> QED
  BY <1>4, <1>6, <1>7, <1>8, <1>9, <1>10 DEF Next

LEMMA BudgetFalls ==
    ASSUME IndInv, [Next]_vars, NEW k \in Kinds
    PROVE  budget'[k] <= budget[k]
<1> USE DEF Kinds, UserKinds, FaultKinds
<1>1. BudgetOK
  BY Parts DEF Kept
<1>2. ASSUME NEW l \in Kinds, Spend(l) \/ Api!Spend(l) PROVE budget'[k] <= budget[k]
  BY <1>1, <1>2 DEF Spend, Api!Spend, BudgetOK
<1>3. ASSUME UNCHANGED budget PROVE budget'[k] <= budget[k]
  BY <1>1, <1>3 DEF BudgetOK
<1>4. CASE UserStep
  BY <1>2, <1>4 DEF UserStep, Api!DestroyJob, Api!CreateJob, Api!StartJob,
                    Api!CancelJob, Api!CleanJob, Api!EditJob
<1>5. ASSUME NEW p \in Procs, HandlerStep(p) PROVE budget'[k] <= budget[k]
  <2>1. CASE StopService(p)
    BY <1>2, <1>3, <2>1 DEF StopService
  <2>2. CASE ~StopService(p)
    BY <1>2, <1>3, <1>5, <2>2
       DEF HandlerStep, SaveStep, OtherStep, Api!StartMark, Api!StartFail,
           Api!WriteJob, Api!EnqueueStart, Api!StartCount, Api!MakeCheck,
           Api!MakeInsert, Api!StartList, Api!StartSave, Api!StopList, Api!SaveRow,
           StartConfigs, StartService, StopConfigs
  <2> QED
    BY <2>1, <2>2
<1>6. CASE TakeMessage \/ \E m \in Api!Requests : TakeRequest(m)
  BY <1>3, <1>6 DEF TakeMessage, Api!StartAvesjob, TakeRequest, Api!HandleRequest
<1>7. ASSUME NEW n \in Names, ScriptStep(n) \/ TrainStep(n) \/ SwarmStep(n)
      PROVE  budget'[k] <= budget[k]
  BY <1>3, <1>7
     DEF ScriptStep, TrainStep, SwarmStep, Api!ReportWorkerRunning, Api!Rendezvous,
         Api!Prepare, Api!StartMpi, Api!ReportResult, Api!ReportBroken, Api!TrainWon,
         Api!TrainLost, ScriptEnds, TaskStarts, ContainerStarts
<1>8. CASE PollStep \/ TimePasses \/ UNCHANGED vars
  BY <1>2, <1>3, <1>8
     DEF PollStep, PollList, PollAge, PollLook, PollRows, TimePasses, vars
<1>9. CASE Fault
  BY <1>2, <1>9
     DEF Fault, Api!Crash, Api!Breaks, ContainerDies, Rejected, Api!ReportTimesOut,
         Api!ReportLost, PollerDies
<1> QED
  BY <1>4, <1>5, <1>6, <1>7, <1>8, <1>9 DEF Next

\* What has been spent stays so, and was there to be spent.
LEMMA SpentStays ==
    ASSUME IndInv, IndInv', Within, [Next]_vars
    PROVE  /\ Within'
           /\ \A k \in Kinds : Spent(k) => Spent(k)'
           /\ \A k \in Kinds : budget'[k] < budget[k] => Spent(k)'
<1>1. BudgetOK /\ BudgetOK'
  BY DEF IndInv, TypeOK
<1>2. \A k \in Kinds : budget'[k] <= budget[k]
  BY BudgetFalls
<1> QED
  BY <1>1, <1>2, BudgetAssumption DEF Within, Spent, BudgetOK

\* An edit is the user's.
LEMMA EditsNext ==
    ASSUME IndInv, IndInv', Within, EditsSpend, [Next]_vars
    PROVE  EditsSpend'
<1>0. /\ TaskOK /\ Servers \subseteq Procs /\ Poller \in Procs
      /\ "edit" \in Kinds
  BY Parts DEF Kept, WebInv, Procs, Kinds, UserKinds
<1>1. ASSUME \A p \in Procs : task'[p].op = "edit" => \/ task[p].op = "edit"
                                                     \/ Spent("edit")'
      PROVE  EditsSpend'
  BY <1>0, <1>1, SpentStays DEF EditsSpend
<1>s. ASSUME UNCHANGED task PROVE EditsSpend'
  BY <1>1, <1>s
<1>p. ASSUME NEW p \in Procs, NEW t, task' = [task EXCEPT ![p] = t], t.op # "edit"
      PROVE  EditsSpend'
  <2>1. \A q \in Procs : task'[q] = IF q = p THEN t ELSE task[q]
    BY <1>0, <1>p DEF TaskOK
  <2> QED
    BY <1>1, <1>p, <2>1
<1>2. CASE UserStep
  <2>1. CASE Api!DestroyJob
    BY <1>s, <2>1 DEF Api!DestroyJob, Api!web
  <2>2. ASSUME NEW p \in Servers,
               \/ Api!CreateJob(p) \/ Api!StartJob(p) \/ Api!CancelJob(p)
               \/ Api!CleanJob(p)
        PROVE  EditsSpend'
    <3>1. \E t : Api!Begin(p, t) /\ t.op # "edit"
      BY <2>2 DEF Api!CreateJob, Api!StartJob, Api!CancelJob, Api!CleanJob,
                  Api!StartHandler, Api!Handler
    <3> QED
      BY <1>0, <1>p, <3>1 DEF Api!Begin
  <2>3. ASSUME NEW p \in Servers, Api!EditJob(p) PROVE EditsSpend'
    <3>1. budget'["edit"] < budget["edit"]
      BY <1>0, <2>3, Parts DEF Api!EditJob, Api!Spend, Kept, BudgetOK
    <3> QED
      BY <1>0, <1>1, <3>1, SpentStays
  <2> QED
    BY <1>2, <2>1, <2>2, <2>3 DEF UserStep
<1>3. ASSUME NEW p \in Procs, HandlerStep(p) PROVE EditsSpend'
  <2>1. GoesOn(p)
    BY <1>0, <1>3, HandlerGoes
  <2> QED
    BY <1>1, <2>1 DEF GoesOn, Api!Idle
<1>4. CASE TakeMessage
  <2>1. \E p \in Servers : \E t : Api!Begin(p, t) /\ t.op # "edit"
    BY <1>4 DEF TakeMessage, Api!StartAvesjob, Api!StartHandler, Api!Handler, Api!Idle
  <2> QED
    BY <1>0, <1>p, <2>1 DEF Api!Begin
<1>5. ASSUME NEW m \in Api!Requests, TakeRequest(m) PROVE EditsSpend'
  <2> DEFINE t == CASE m.kind = "wstat" -> Api!WorkerChangeStatus(m)
                    [] m.kind = "jstat" -> Api!JobChangeStatus(m)
                    [] m.kind = "jres"  -> Api!FinishJob(m)
  <2>1. PICK p \in Servers : Api!Begin(p, t)
    BY <1>5 DEF TakeRequest, Api!HandleRequest
  <2>2. t.op # "edit"
    BY DEF Api!Requests, Api!WorkerChangeStatus, Api!JobChangeStatus, Api!FinishJob,
           Api!Handler, Api!Idle
  <2> HIDE DEF t
  <2> QED
    BY <1>0, <1>p, <2>1, <2>2 DEF Api!Begin
<1>6. ASSUME NEW n \in Names, ScriptStep(n) \/ TrainStep(n) \/ SwarmStep(n)
      PROVE  EditsSpend'
  BY <1>s, <1>6
     DEF ScriptStep, TrainStep, SwarmStep, Api!ReportWorkerRunning, Api!Rendezvous,
         Api!Prepare, Api!StartMpi, Api!ReportResult, Api!ReportBroken, Api!TrainWon,
         Api!TrainLost, Api!ScriptFrame, ScriptEnds, TaskStarts, ContainerStarts,
         ContainerFrame
<1>7. CASE PollStep \/ TimePasses \/ UNCHANGED vars
  <2>1. CASE PollRows
    <3>1. \E t : Api!Begin(Poller, t) /\ t.op # "edit"
      BY <2>1 DEF PollRows, Api!Handler
    <3> QED
      BY <1>0, <1>p, <3>1 DEF Api!Begin
  <2> QED
    BY <1>7, <1>s, <2>1 DEF PollStep, PollList, PollAge, PollLook, TimePasses, web, vars
<1>8. CASE Fault
  <2>1. ASSUME NEW p \in Procs, Api!Crash(p) PROVE EditsSpend'
    <3>1. Api!Idle.op # "edit" /\ task' = [task EXCEPT ![p] = Api!Idle]
      BY <2>1 DEF Api!Crash, Api!End, Api!Goto, Api!Idle
    <3> QED
      BY <1>p, <3>1
  <2> QED
    BY <1>8, <1>s, <2>1
       DEF Fault, Api!Breaks, ContainerDies, Rejected, ContainerFrame, Api!ScriptFrame,
           Api!ReportTimesOut, Api!ReportLost, PollerDies, web
<1> QED
  BY <1>2, <1>3, <1>4, <1>5, <1>6, <1>7, <1>8 DEF Next

-----------------------------------------------------------------------------
(* Steps beside the handlers.                                              *)

\* No row, config or handler changes, and no service is made.
Aside ==
    /\ UNCHANGED <<job, wst, cfgs, task, startMsgs>>
    /\ poll' = poll \/ poll' = Asleep
    /\ \A n \in Names : Exists(n)' => Exists(n)

LEMMA ContainerAside ==
    ASSUME IndInv, NEW n \in Names,
           \/ ScriptStep(n) \/ TrainStep(n) \/ SwarmStep(n)
           \/ Api!Breaks(n) /\ UNCHANGED <<poll, aged>>
           \/ ContainerDies(n) \/ Rejected(n)
    PROVE  Aside
<1>1. UNCHANGED <<job, wst, cfgs, task, startMsgs, poll>>
  BY DEF ScriptStep, TrainStep, SwarmStep, Api!ReportWorkerRunning, Api!Rendezvous,
         Api!Prepare, Api!StartMpi, Api!ReportResult, Api!ReportBroken, Api!TrainWon,
         Api!TrainLost, Api!Breaks, Api!ScriptFrame, ScriptEnds, TaskStarts,
         ContainerStarts, ContainerDies, Rejected, ContainerFrame, TaskMade,
         ContainerRuns, ContainerOver, TaskRejected, TaskMoves, Api!store, store,
         Api!cluster
<1>2. UNCHANGED svc \/ \E to : svc' = [svc EXCEPT ![n].phase = to] /\ Exists(n)
  BY DEF ScriptStep, TrainStep, SwarmStep, Api!ReportWorkerRunning, Api!Rendezvous,
         Api!Prepare, Api!StartMpi, Api!ReportResult, Api!ReportBroken, Api!TrainWon,
         Api!TrainLost, Api!Breaks, Api!ScriptFrame, ScriptEnds, TaskStarts,
         ContainerStarts, ContainerDies, Rejected, TaskMade, ContainerRuns,
         ContainerOver, TaskRejected, TaskMoves, Exists, Api!cluster
<1>3. \A k \in Names : Exists(k)' => Exists(k)
  <2>1. \A k \in Names : k # n => svc'[k] = svc[k]
    BY <1>2, Parts DEF SwarmOK
  <2> QED
    BY <1>2, <2>1 DEF Exists
<1> QED
  BY <1>1, <1>3 DEF Aside

LEMMA LostAside ==
    ASSUME \/ \E m \in Api!Requests :
                 (Api!ReportTimesOut(m) \/ Api!ReportLost(m)) /\ UNCHANGED <<poll, aged>>
           \/ PollerDies \/ PollList \/ PollAge \/ PollLook \/ TimePasses
           \/ UNCHANGED vars
    PROVE  UNCHANGED <<job, wst, cfgs, task, startMsgs, svc>>
  BY DEF Api!ReportTimesOut, Api!ReportLost, Api!ScriptFrame, PollerDies, PollList,
         PollAge, PollLook, TimePasses, vars, web, swarm, store, Api!store, Api!cluster

\* A job is created before anything is done to it.
LEMMA NotYetNext ==
    ASSUME IndInv, IndInv', Within, NotYetCreated, [Next]_vars
    PROVE  NotYetCreated'
<1> SUFFICES ASSUME ~Spent("create")' PROVE NotYetCreated'
  BY DEF NotYetCreated
<1>k. "create" \in Kinds
  BY DEF Kinds, UserKinds
<1>0. /\ job = Absent /\ \A r \in Rows : wst[r] = Absent
      /\ \A p \in Procs : task[p] = Api!Idle
      /\ poll = Asleep /\ startMsgs = 0
  BY <1>k, SpentStays DEF NotYetCreated, Idle
<1>t. TaskOK /\ StoreOK /\ Servers \subseteq Procs
  BY Parts DEF Kept, WebInv, Procs
<1>s. ASSUME UNCHANGED <<job, wst, task, startMsgs, poll>> PROVE NotYetCreated'
  BY <1>0, <1>s DEF NotYetCreated, Idle
<1>1. CASE UserStep
  <2>1. ASSUME NEW p \in Servers, Api!CreateJob(p) PROVE FALSE
    <3>1. budget'["create"] < budget["create"]
      BY <1>k, <2>1, Parts DEF Api!CreateJob, Api!Spend, Kept, BudgetOK
    <3> QED
      BY <1>k, <3>1, SpentStays
  <2> QED
    BY <1>0, <1>1, <2>1
       DEF UserStep, Api!DestroyJob, Api!StartJob, Api!CancelJob, Api!CleanJob,
           Api!EditJob, Api!ReadyToRun, Api!Ready, Api!JobExists, Api!Absent, Absent
<1>2. ASSUME NEW p \in Procs, HandlerStep(p) PROVE FALSE
  <2>1. task[p].pc = "idle" /\ task[p].op = "none"
    BY <1>0 DEF Api!Idle
  <2> QED
    BY <1>2, <2>1
       DEF HandlerStep, SaveStep, OtherStep, Api!StartMark, Api!StartFail,
           Api!WriteJob, Api!EnqueueStart, Api!StartCount, Api!MakeCheck,
           Api!MakeInsert, Api!StartList, Api!StartSave, Api!StopList, Api!SaveRow,
           StartConfigs, StartService, StopConfigs, StopService, At, Api!At
<1>3. CASE TakeMessage
  BY <1>0, <1>3 DEF TakeMessage, Api!StartAvesjob
<1>4. ASSUME NEW m \in Api!Requests, TakeRequest(m) PROVE NotYetCreated'
  <2>1. PICK p \in Servers : Api!HandleRequest(p, m)
    BY <1>4 DEF TakeRequest
  <2>2. wst[m.row] = Absent /\ m.kind \in {"wstat", "jstat", "jres"}
    BY <1>0, SameStore DEF Api!Requests
  <2>3. /\ Api!WorkerChangeStatus(m) = Api!Idle
        /\ Api!JobChangeStatus(m) = Api!Idle
        /\ Api!FinishJob(m) = Api!Idle
    BY <1>0, <2>2, SameStore
       DEF Api!WorkerChangeStatus, Api!JobChangeStatus, Api!FinishJob, Api!JobExists, Absent
  <2>4. task' = [task EXCEPT ![p] = Api!Idle]
    BY <2>1, <2>2, <2>3 DEF Api!HandleRequest, Api!Begin
  <2>5. \A q \in Procs : task'[q] = Api!Idle
    BY <1>0, <1>t, <2>4 DEF TaskOK
  <2>6. UNCHANGED <<job, wst, startMsgs, poll>>
    BY <1>4 DEF TakeRequest, Api!HandleRequest, Api!store
  <2> QED
    BY <1>0, <2>5, <2>6 DEF NotYetCreated, Idle
<1>5. ASSUME NEW n \in Names,
             \/ ScriptStep(n) \/ TrainStep(n) \/ SwarmStep(n)
             \/ Api!Breaks(n) /\ UNCHANGED <<poll, aged>>
             \/ ContainerDies(n) \/ Rejected(n)
      PROVE  NotYetCreated'
  BY <1>0, <1>s, <1>5, ContainerAside DEF Aside
<1>6. CASE PollStep \/ TimePasses \/ PollerDies
  BY <1>0, <1>6 DEF PollStep, PollList, PollAge, PollLook, PollRows, TimePasses,
                    PollerDies, Asleep, Absent
<1>7. ASSUME NEW m \in Api!Requests,
             Api!ReportTimesOut(m) \/ Api!ReportLost(m), UNCHANGED <<poll, aged>>
      PROVE  NotYetCreated'
  BY <1>s, <1>7, LostAside
<1>8. ASSUME NEW p \in Procs, Api!Crash(p) PROVE FALSE
  BY <1>0, <1>8 DEF Api!Crash
<1>9. CASE UNCHANGED vars
  BY <1>s, <1>9 DEF vars, web, store
<1> QED
  BY <1>1, <1>2, <1>3, <1>4, <1>5, <1>6, <1>7, <1>8, <1>9 DEF Next, Fault

-----------------------------------------------------------------------------
(* The rows of the configs, and of those who make them.                    *)

RowsStay == \A r \in Rows : Here(r) => Here(r)'

\* TaskHere of a handler in the next state.
HereNext(t) ==
    t.op = "start" => /\ \A r \in t.todo : wst'[r] # Absent
                      /\ t.pc \in Api!RowPcs => wst'[t.cur] # Absent

LEMMA PutHere ==
    ASSUME WebInv, AllHere, RowsStay, NEW p \in Procs, NEW t,
           task' = [task EXCEPT ![p] = t], HereNext(t),
           \A r \in Rows : HasConfigs(r)' => HasConfigs(r) \/ Here(r)
    PROVE  AllHere'
<1>1. \A q \in Procs : task'[q] = IF q = p THEN t ELSE task[q]
  BY DEF WebInv, TaskOK
<1>2. ASSUME NEW q \in Procs, q # p PROVE TaskHere(task[q])'
  <2>1. task[q].op = "start" => task[q].todo \subseteq Rows
    BY SameStore DEF WebInv, TaskOK, Api!Tasks, Api!Idle
  <2>2. task[q].pc \in Api!RowPcs => task[q].cur \in Rows
    BY DEF WebInv, ShapeOK
  <2>3. TaskHere(task[q]) /\ task'[q] = task[q]
    BY <1>1, <1>2 DEF AllHere
  <2> QED
    BY <2>1, <2>2, <2>3 DEF TaskHere, RowsStay
<1>3. TaskHere(task[p])'
  BY <1>1 DEF TaskHere, HereNext, Here
<1>4. \A q \in Procs : TaskHere(task[q])'
  BY <1>2, <1>3
<1>5. \A r \in Rows : HasConfigs(r)' => Here(r)'
  BY DEF AllHere, RowsStay
<1> QED
  BY <1>4, <1>5 DEF AllHere

LEMMA StillHere ==
    ASSUME AllHere, UNCHANGED <<wst, cfgs, task>>
    PROVE  AllHere'
  BY DEF AllHere, Here, HasConfigs, TaskHere

LEMMA OtherHere == \A t : t.op # "start" => HereNext(t)
  BY DEF HereNext

\* A handler that is no start goes on.
LEMMA GoesHere ==
    ASSUME WebInv, AllHere, RowsStay, NEW p \in Procs, GoesOn(p), task[p].op # "start",
           \A r \in Rows : HasConfigs(r)' => HasConfigs(r), DOMAIN task' = Procs
    PROVE  AllHere'
<1>1. task'[p].op # "start"
  BY DEF GoesOn, Api!Idle
<1>2. ASSUME NEW q \in Procs, q # p PROVE TaskHere(task[q])'
  <2>1. task[q].op = "start" => task[q].todo \subseteq Rows
    BY SameStore DEF WebInv, TaskOK, Api!Tasks, Api!Idle
  <2>2. task[q].pc \in Api!RowPcs => task[q].cur \in Rows
    BY DEF WebInv, ShapeOK
  <2>3. TaskHere(task[q]) /\ task'[q] = task[q]
    BY <1>2 DEF AllHere, GoesOn
  <2> QED
    BY <2>1, <2>2, <2>3 DEF TaskHere, RowsStay
<1>3. TaskHere(task[p])'
  BY <1>1 DEF TaskHere
<1> QED
  BY <1>2, <1>3 DEF AllHere, RowsStay

\* A start goes on, on the same rows.
LEMMA ToHere ==
    ASSUME WebInv, AllHere, RowsStay, NEW p \in Procs, NEW pc, Api!To(p, pc),
           task[p].pc \in Api!RowPcs \/ pc \notin Api!RowPcs,
           \A r \in Rows : HasConfigs(r)' => HasConfigs(r) \/ Here(r)
    PROVE  AllHere'
<1> DEFINE t == [task[p] EXCEPT !.pc = pc]
<1>1. task[p] \in Api!Tasks \union {Api!Idle}
  BY DEF WebInv, TaskOK
<1>2. /\ t.op = task[p].op /\ t.pc = pc /\ t.cur = task[p].cur
      /\ t.todo = task[p].todo
  BY <1>1 DEF Api!Tasks, Api!Idle
<1>3. task' = [task EXCEPT ![p] = t]
  BY DEF Api!To, Api!Goto
<1> HIDE DEF t
<1>4. task[p].todo \subseteq Rows /\ (task[p].pc \in Api!RowPcs => task[p].cur \in Rows)
  BY <1>1, SameStore DEF WebInv, ShapeOK, Api!Tasks, Api!Idle
<1>5. TaskHere(task[p])
  BY DEF AllHere
<1>6. HereNext(t)
  BY <1>2, <1>4, <1>5 DEF TaskHere, HereNext, RowsStay, Here
<1> QED
  BY <1>3, <1>6, PutHere

LEMMA EndHere ==
    ASSUME WebInv, AllHere, RowsStay, NEW p \in Procs, Api!End(p),
           \A r \in Rows : HasConfigs(r)' => HasConfigs(r) \/ Here(r)
    PROVE  AllHere'
<1>1. task' = [task EXCEPT ![p] = Api!Idle] /\ Api!Idle.op # "start"
  BY DEF Api!End, Api!Goto, Api!Idle
<1>2. HereNext(Api!Idle)
  BY <1>1, OtherHere
<1> QED
  BY <1>1, <1>2, PutHere

LEMMA NextWorkerHere ==
    ASSUME WebInv, AllHere, RowsStay, NEW p \in Procs, NEW rows \in SUBSET Rows,
           Api!NextWorker(p, rows), \A r \in rows : Here(r), UNCHANGED cfgs
    PROVE  AllHere'
<1>c. \A r \in Rows : HasConfigs(r)' => HasConfigs(r) \/ Here(r)
  BY DEF HasConfigs
<1>1. CASE rows = {}
  BY <1>c, <1>1, EndHere DEF Api!NextWorker
<1>2. CASE rows # {}
  <2>1. PICK r \in rows :
           Api!Goto(p, [task[p] EXCEPT !.pc = "config", !.cur = r,
                                       !.todo = rows \ {r}])
    BY <1>2 DEF Api!NextWorker
  <2> DEFINE t == [task[p] EXCEPT !.pc = "config", !.cur = r, !.todo = rows \ {r}]
  <2>2. task[p] \in Api!Tasks \union {Api!Idle}
    BY DEF WebInv, TaskOK
  <2>3. t.cur = r /\ t.todo = rows \ {r} /\ task' = [task EXCEPT ![p] = t]
    BY <2>1, <2>2 DEF Api!Tasks, Api!Idle, Api!Goto
  <2> HIDE DEF t
  <2>4. HereNext(t)
    BY <2>3 DEF HereNext, RowsStay, Here
  <2> QED
    BY <1>c, <2>3, <2>4, PutHere
<1> QED
  BY <1>1, <1>2

LEMMA HandlerHere ==
    ASSUME IndInv, IndInv', Shapes, AllHere, NEW p \in Procs, HandlerStep(p)
    PROVE  AllHere'
<1> USE SameStore DEF Api!RowPcs
<1>0. Kept /\ WebInv /\ StoreOK /\ ShapeOf(task[p], p) /\ DOMAIN task' = Procs
  BY Parts DEF Kept, Shapes, IndInv, TypeOK, Api!WebOK
<1>g. GoesOn(p)
  BY <1>0, HandlerGoes DEF WebInv
<1>w. ASSUME UNCHANGED wst PROVE RowsStay
  BY <1>w DEF RowsStay, Here
<1>c. ASSUME UNCHANGED cfgs
      PROVE  \A r \in Rows : HasConfigs(r)' => HasConfigs(r) \/ Here(r)
  BY <1>c DEF HasConfigs
<1>1. CASE Api!StartMark(p) \/ Api!StartFail(p) \/ Api!StartCount(p) \/ Api!MakeCheck(p)
  <2>1. UNCHANGED <<wst, cfgs>>
    BY <1>1 DEF Api!StartMark, Api!StartFail, Api!StartCount, Api!MakeCheck,
                Api!store, Api!cluster
  <2> QED
    BY <1>0, <1>1, <1>c, <1>w, <2>1, ToHere, EndHere
       DEF Api!StartMark, Api!StartFail, Api!StartCount, Api!MakeCheck
<1>2. CASE Api!WriteJob(p) \/ Api!EnqueueStart(p) \/ Api!StopList(p)
  <2>1. UNCHANGED <<wst, cfgs>>
    BY <1>2 DEF Api!WriteJob, Api!EnqueueStart, Api!StopList, Api!store, Api!cluster
  <2>2. task[p].op # "start"
    BY <1>0, <1>2 DEF ShapeOf, Stopping, Api!StopPcs, Api!WriteJob, Api!EnqueueStart,
                      Api!StopList, Api!At
  <2> QED
    BY <1>0, <1>g, <1>w, <2>1, <2>2, GoesHere DEF HasConfigs
<1>3. CASE Api!MakeInsert(p)
  <2>1. RowsStay
    BY <1>0, <1>3 DEF Api!MakeInsert, Api!MakeWorkers, RowsStay, Here, StoreOK, Absent,
                      Api!store
  <2>2. UNCHANGED cfgs
    BY <1>3 DEF Api!MakeInsert, Api!cluster
  <2> QED
    BY <1>0, <1>3, <1>c, <2>1, <2>2, ToHere DEF Api!MakeInsert
<1>4. CASE Api!StartList(p)
  <2>1. UNCHANGED <<wst, cfgs>> /\ Api!NextWorker(p, JobWorkers)
    BY <1>4 DEF Api!StartList, Api!store, Api!cluster
  <2>2. JobWorkers \in SUBSET Rows /\ \A r \in JobWorkers : Here(r)
    BY DEF JobWorkers, Here
  <2> QED
    BY <1>0, <1>w, <2>1, <2>2, NextWorkerHere
<1>5. CASE Api!StartSave(p)
  <2>1. UNCHANGED cfgs
    BY <1>5 DEF Api!StartSave, Api!cluster
  <2>2. RowsStay
    BY <1>0, <1>5 DEF Api!StartSave, Api!SaveWorker, RowsStay, Here, StoreOK, Absent
  <2>3. task[p].todo \in SUBSET Rows /\ \A r \in task[p].todo : Here(r)
    BY <1>0, <1>5 DEF WebInv, TaskOK, Api!StartSave, Api!At, Api!Tasks, Api!Idle,
                      AllHere, TaskHere
  <2>4. Api!NextWorker(p, task[p].todo) \/ Api!End(p)
    BY <1>5 DEF Api!StartSave
  <2> QED
    BY <1>0, <1>c, <2>1, <2>2, <2>3, <2>4, NextWorkerHere, EndHere
<1>6. CASE Api!SaveRow(p)
  <2>1. task[p].op = "wstat" /\ task[p].out # Absent
    BY <1>0, <1>6 DEF Api!SaveRow, ShapeOf
  <2>2. RowsStay /\ UNCHANGED cfgs
    BY <1>0, <1>6, <2>1 DEF Api!SaveRow, Api!SaveWorker, RowsStay, Here, StoreOK,
                            Api!cluster
  <2> QED
    BY <1>0, <1>g, <2>1, <2>2, GoesHere DEF HasConfigs
<1>7. CASE StartConfigs(p)
  <2>1. task[p].cur \in Rows /\ UNCHANGED wst
    BY <1>0, <1>7, CurIsRow DEF StartConfigs, At, store
  <2>2. Here(task[p].cur)
    BY <1>7 DEF StartConfigs, At, AllHere, TaskHere
  <2>3. \A r \in Rows : HasConfigs(r)' => HasConfigs(r) \/ Here(r)
    <3>1. MakeConfigs(task[p].cur, p) \/ UNCHANGED cfgs
      BY <1>7 DEF StartConfigs
    <3>2. cfgs \in [Rows -> Procs \union {NoOwner}]
      BY Parts DEF SwarmOK
    <3> QED
      BY <2>2, <3>1, <3>2 DEF MakeConfigs, HasConfigs
  <2>4. task[p].pc = "config" /\ (Api!To(p, "pod") \/ Api!To(p, "fail"))
    BY <1>7 DEF StartConfigs, At
  <2> QED
    BY <1>0, <1>w, <2>1, <2>3, <2>4, ToHere
<1>8. CASE StartService(p)
  <2>1. UNCHANGED <<wst, cfgs>>
    BY <1>8 DEF StartService, store
  <2>2. task[p].pc = "pod" /\ (Api!To(p, "save") \/ Api!To(p, "fail"))
    BY <1>8 DEF StartService, At
  <2> QED
    BY <1>0, <1>c, <1>w, <2>1, <2>2, ToHere
<1>9. CASE StopService(p) \/ StopConfigs(p)
  <2>1. UNCHANGED wst
    BY <1>9 DEF StopService, StopConfigs, store
  <2>2. \A r \in Rows : HasConfigs(r)' => HasConfigs(r)
    <3>1. UNCHANGED cfgs \/ \E c : cfgs' = [cfgs EXCEPT ![c] = NoOwner]
      BY <1>9 DEF StopService, StopConfigs, DeleteConfigs
    <3>2. cfgs \in [Rows -> Procs \union {NoOwner}]
      BY Parts DEF SwarmOK
    <3> QED
      BY <3>1, <3>2 DEF HasConfigs
  <2>3. task[p].op # "start"
    BY <1>0, <1>9 DEF ShapeOf, Stopping, Api!StopPcs, StopService, StopConfigs
  <2> QED
    BY <1>0, <1>g, <1>w, <2>1, <2>2, <2>3, GoesHere
<1> QED
  BY <1>1, <1>2, <1>3, <1>4, <1>5, <1>6, <1>7, <1>8, <1>9
     DEF HandlerStep, SaveStep, OtherStep

LEMMA BeginHere ==
    ASSUME WebInv, AllHere, NEW p \in Procs, NEW t, Api!Begin(p, t),
           t.op = "start" => t.todo = {} /\ t.pc = "mark", UNCHANGED <<wst, cfgs>>
    PROVE  AllHere'
<1>1. HereNext(t)
  BY DEF HereNext, Api!RowPcs
<1> QED
  BY <1>1, PutHere DEF Api!Begin, RowsStay, Here, HasConfigs

LEMMA RowsNext ==
    ASSUME IndInv, IndInv', Within, Shapes, RowsHere, [Next]_vars
    PROVE  RowsHere'
<1> SUFFICES ASSUME ~Spent("destroy")' PROVE AllHere'
  BY DEF RowsHere
<1>k. "destroy" \in Kinds
  BY DEF Kinds, UserKinds
<1>0. AllHere
  BY <1>k, SpentStays DEF RowsHere
<1>t. Kept /\ WebInv /\ Servers \subseteq Procs /\ Poller \in Procs
  BY Parts DEF Kept, Procs
<1>1. CASE UserStep
  <2>1. ASSUME Api!DestroyJob PROVE FALSE
    <3>1. budget'["destroy"] < budget["destroy"]
      BY <1>k, <1>t, <2>1 DEF Api!DestroyJob, Api!Spend, Kept, BudgetOK
    <3> QED
      BY <1>k, <3>1, SpentStays
  <2>2. ASSUME NEW p \in Servers,
               \/ Api!CreateJob(p) \/ Api!StartJob(p) \/ Api!CancelJob(p)
               \/ Api!CleanJob(p) \/ Api!EditJob(p)
        PROVE  AllHere'
    <3>1. \E t : Api!Begin(p, t) /\ (t.op = "start" => t.todo = {} /\ t.pc = "mark")
      BY <2>2 DEF Api!CreateJob, Api!StartJob, Api!CancelJob, Api!CleanJob,
                  Api!EditJob, Api!StartHandler, Api!Handler
    <3>2. UNCHANGED <<wst, cfgs>>
      BY <2>2 DEF Api!CreateJob, Api!StartJob, Api!CancelJob, Api!CleanJob,
                  Api!EditJob, Api!store, Api!cluster
    <3> QED
      BY <1>0, <1>t, <3>1, <3>2, BeginHere
  <2> QED
    BY <1>1, <2>1, <2>2 DEF UserStep
<1>2. ASSUME NEW p \in Procs, HandlerStep(p) PROVE AllHere'
  BY <1>0, <1>2, HandlerHere
<1>3. CASE TakeMessage
  <2>1. \E p \in Servers : \E t : /\ Api!Begin(p, t)
                                  /\ t.op = "start" => t.todo = {} /\ t.pc = "mark"
    BY <1>3 DEF TakeMessage, Api!StartAvesjob, Api!StartHandler, Api!Handler, Api!Idle
  <2>2. UNCHANGED <<wst, cfgs>>
    BY <1>3 DEF TakeMessage, Api!StartAvesjob, Api!store, Api!cluster
  <2> QED
    BY <1>0, <1>t, <2>1, <2>2, BeginHere
<1>4. ASSUME NEW m \in Api!Requests, TakeRequest(m) PROVE AllHere'
  <2> DEFINE t == CASE m.kind = "wstat" -> Api!WorkerChangeStatus(m)
                    [] m.kind = "jstat" -> Api!JobChangeStatus(m)
                    [] m.kind = "jres"  -> Api!FinishJob(m)
  <2>1. PICK p \in Servers : Api!Begin(p, t)
    BY <1>4 DEF TakeRequest, Api!HandleRequest
  <2>2. t.op # "start"
    BY DEF Api!Requests, Api!WorkerChangeStatus, Api!JobChangeStatus, Api!FinishJob,
           Api!Handler, Api!Idle
  <2>3. UNCHANGED <<wst, cfgs>>
    BY <1>4 DEF TakeRequest, Api!HandleRequest, Api!store, Api!cluster
  <2> HIDE DEF t
  <2> QED
    BY <1>0, <1>t, <2>1, <2>2, <2>3, BeginHere
<1>5. ASSUME NEW n \in Names,
             \/ ScriptStep(n) \/ TrainStep(n) \/ SwarmStep(n)
             \/ Api!Breaks(n) /\ UNCHANGED <<poll, aged>>
             \/ ContainerDies(n) \/ Rejected(n)
      PROVE  AllHere'
  BY <1>0, <1>5, ContainerAside, StillHere DEF Aside
<1>6. CASE PollRows
  <2> DEFINE t == Api!Handler("image", "write", NoRow, "FAILURE", Api!NoReq)
  <2>1. t.op # "start" /\ task' = [task EXCEPT ![Poller] = t]
    BY <1>6 DEF PollRows, Api!Begin, Api!Handler
  <2>2. RowsStay
    BY <1>6 DEF PollRows, RowsStay, Here, Absent
  <2>3. UNCHANGED cfgs
    BY <1>6 DEF PollRows, swarm
  <2> HIDE DEF t
  <2> QED
    BY <1>0, <1>t, <2>1, <2>2, <2>3, OtherHere, PutHere DEF HasConfigs
<1>7. ASSUME \/ \E m \in Api!Requests :
                   (Api!ReportTimesOut(m) \/ Api!ReportLost(m)) /\ UNCHANGED <<poll, aged>>
             \/ PollerDies \/ PollList \/ PollAge \/ PollLook \/ TimePasses
             \/ UNCHANGED vars
      PROVE  AllHere'
  BY <1>0, <1>7, LostAside, StillHere
<1>8. ASSUME NEW p \in Procs, Api!Crash(p) PROVE AllHere'
  BY <1>0, <1>t, <1>8, EndHere DEF Api!Crash, RowsStay, Here, HasConfigs, Api!store,
                                   Api!cluster
<1> QED
  BY <1>1, <1>2, <1>3, <1>4, <1>5, <1>6, <1>7, <1>8 DEF Next, Fault, PollStep

-----------------------------------------------------------------------------
(* The invariant of NamesFree, step by step.                               *)

LEMMA NotedNext ==
    ASSUME HNext
    PROVE  NotedInv'
<1>1. causes' = causes \union {c \in Causes : Happens(c)}
  BY DEF HNext
<1>2. ASSUME NEW p \in Procs, NEW q \in Procs, p # q, Starting(p)',
             task'[q].op \in {"start", "cancel", "clean", "finish"}
      PROVE  "overlap" \in causes'
  <2>1. Happens("overlap")
    BY <1>2 DEF Happens, Starting
  <2> QED
    BY <1>1, <2>1 DEF Causes
<1>3. ASSUME NEW p \in Procs, NEW r \in Rows, task'[p].pc = "fail", cfgs'[r] = p
      PROVE  "partial" \in causes'
  <2>1. Happens("partial")
    BY <1>3 DEF Happens
  <2> QED
    BY <1>1, <2>1 DEF Causes
<1> QED
  BY <1>2, <1>3 DEF NotedInv, NoOverlap, NoPartial

\* Nothing is at work on the job beside a start.
LEMMA Lonely ==
    ASSUME Clean, NoOverlap, Noted, Shapes, NEW p \in Procs, Starting(p),
           NEW q \in Procs, q # p
    PROVE  task[q].op \notin Stopping \union {"start"}
<1>1. "overlap" \notin causes /\ "beside" \notin causes
  BY DEF Clean
<1>2. task[q].op \notin {"start", "cancel", "clean", "finish"}
  BY <1>1 DEF NoOverlap
<1>3. task[q].op # "image"
  <2>1. task[q].op = "image" => q = Poller
    BY DEF Shapes, ShapeOf
  <2>2. task[Poller] = Api!Idle
    BY <1>1 DEF Noted, Polling
  <2> QED
    BY <2>1, <2>2 DEF Api!Idle
<1> QED
  BY <1>2, <1>3 DEF Stopping

\* Nothing is refused, and nobody dies, in a step that leaves all clean.
LEMMA CleanStays ==
    ASSUME IndInv, IndInv', Within, Clean', HNext
    PROVE  /\ Clean
           /\ ~Spend("refuse") /\ ~Api!Spend("crash") /\ ~Spend("crash")
           /\ ~Api!Spend("edit") /\ ~Api!Spend("destroy")
<1> USE DEF Kinds, UserKinds, FaultKinds
<1>1. causes \subseteq causes' /\ [Next]_vars
  BY DEF HNext
<1>2. Clean
  BY <1>1, SpentStays DEF Clean
<1>3. BudgetOK
  BY Parts DEF Kept
<1>4. ASSUME NEW k \in Kinds, Spend(k) \/ Api!Spend(k) PROVE Spent(k)'
  <2>1. budget'[k] < budget[k]
    BY <1>3, <1>4 DEF Spend, Api!Spend, BudgetOK
  <2> QED
    BY <1>1, <2>1, SpentStays
<1> QED
  BY <1>2, <1>4 DEF Clean

\* p goes on, while the job's status stays and nothing is made.
LEMMA MoveFree ==
    ASSUME FreeInv, WebInv, NEW p \in Procs,
           \A q \in Procs : q # p => task'[q] = task[q],
           UNCHANGED job,
           \A r \in Rows : HasConfigs(r)' => HasConfigs(r) /\ cfgs'[r] = cfgs[r],
           \A n \in Names : Exists(n)' => Exists(n),
           Starting(p)' => Starting(p) /\ (task'[p].pc # "mark" => task[p].pc # "mark"),
           \A r \in Rows :
               ~Debug /\ task[p].op \in {"finish", "image"}
                      /\ HasConfigs(r)' /\ ComesTo(p, r)
               => task'[p].op = task[p].op /\ ComesTo(p, r)',
           task'[p].op = "cancel" =>
               \/ task'[p].pc = "stopList"
               \/ /\ task[p].op = "cancel"
                  /\ \A r \in Rows : HasConfigs(r)' /\ ComesTo(p, r) => ComesTo(p, r)',
           task'[p].pc = "stopCm" => ~Exists(NameOf(task[p].cur))'
    PROVE  FreeInv'
<1> USE DEF FreeInv
<1>1. FreshIsFree' /\ CanceledIsFree'
  BY DEF FreshIsFree, CanceledIsFree, Nothing
<1>2. StartIsActive' /\ StartOwns'
  BY DEF StartIsActive, StartOwns, Starting
<1>3. \A q \in Procs, r \in Rows : q # p => (ComesTo(q, r)' <=> ComesTo(q, r))
  BY DEF ComesTo
<1>4. OverIsStopped'
  <2>1. ASSUME ~Debug, job \in {"FINISHED", "FAILURE"}, NEW r \in Rows, HasConfigs(r)'
        PROVE  \E q \in Procs : task'[q].op \in {"finish", "image"} /\ ComesTo(q, r)'
    <3>1. PICK q \in Procs : task[q].op \in {"finish", "image"} /\ ComesTo(q, r)
      BY <2>1 DEF OverIsStopped
    <3>2. CASE q = p
      BY <2>1, <3>1, <3>2
    <3>3. CASE q # p
      BY <1>3, <3>1, <3>3
    <3> QED
      BY <3>2, <3>3
  <2> QED
    BY <2>1 DEF OverIsStopped
<1>5. CancelComes'
  <2>1. ASSUME NEW q \in Procs, NEW r \in Rows, task'[q].op = "cancel", HasConfigs(r)'
        PROVE  ComesTo(q, r)'
    <3>1. CASE q = p
      <4>1. CASE task'[p].pc = "stopList"
        BY <3>1, <4>1 DEF ComesTo
      <4>2. CASE task'[p].pc # "stopList"
        BY <2>1, <3>1, <4>2 DEF CancelComes
      <4> QED
        BY <4>1, <4>2
    <3>2. CASE q # p
      BY <1>3, <2>1, <3>2 DEF CancelComes
    <3> QED
      BY <3>1, <3>2
  <2> QED
    BY <2>1 DEF CancelComes
<1>6. StoppedIsGone'
  <2>1. ASSUME NEW q \in Procs, task'[q].pc = "stopCm"
        PROVE  ~Exists(NameOf(task[q].cur))'
    <3>1. CASE q = p
      BY <2>1, <3>1
    <3>2. CASE q # p
      <4>1. task'[q] = task[q] /\ task[q].cur \in Rows
        BY <2>1, <3>2 DEF WebInv, ShapeOK, Api!RowPcs
      <4>2. NameOf(task[q].cur) \in Names
        BY <4>1 DEF Rows, NameOf
      <4>3. ~Exists(NameOf(task[q].cur))
        BY <2>1, <4>1 DEF StoppedIsGone
      <4> QED
        BY <4>1, <4>2, <4>3
    <3> QED
      BY <3>1, <3>2
  <2> QED
    BY <2>1 DEF StoppedIsGone
<1> QED
  BY <1>1, <1>2, <1>4, <1>5, <1>6

\* Handlers of other operations than those that stop.
LEMMA GoesFree ==
    ASSUME FreeInv, WebInv, Shapes', NEW p \in Procs, GoesOn(p),
           task[p].op \notin Stopping, task[p].op = "start" => task[p].pc # "mark",
           UNCHANGED <<job, cfgs, svc>>
    PROVE  FreeInv'
<1>1. /\ \A q \in Procs : q # p => task'[q] = task[q]
      /\ task'[p] = Api!Idle \/ (task'[p].op = task[p].op /\ task'[p].pc # "mark")
  BY DEF GoesOn
<1>2. task'[p].op = "none" \/ task'[p].op = task[p].op
  BY <1>1 DEF Api!Idle
<1>3. task'[p].op \notin Stopping
  BY <1>2 DEF Stopping
<1>4. task'[p].pc # "stopCm"
  BY <1>3 DEF Shapes, ShapeOf, Api!StopPcs
<1>5. /\ \A r \in Rows : HasConfigs(r)' => HasConfigs(r) /\ cfgs'[r] = cfgs[r]
      /\ \A n \in Names : Exists(n)' => Exists(n)
  BY DEF HasConfigs, Exists
<1>6. Starting(p)' => Starting(p) /\ (task'[p].pc # "mark" => task[p].pc # "mark")
  BY <1>2 DEF Starting
<1> QED
  BY <1>1, <1>3, <1>4, <1>5, <1>6, MoveFree DEF Stopping

\* The fields of a handler that goes on.
LEMMA StopFields ==
    ASSUME TaskOK, NEW p \in Procs
    PROVE  /\ \A pc : LET t == [task[p] EXCEPT !.pc = pc] IN
                 t.op = task[p].op /\ t.pc = pc /\ t.cur = task[p].cur
                                   /\ t.todo = task[p].todo
           /\ \A pc, cur : LET t == [task[p] EXCEPT !.pc = pc, !.cur = cur] IN
                 t.op = task[p].op /\ t.pc = pc
           /\ \A pc, todo : LET t == [task[p] EXCEPT !.pc = pc, !.todo = todo] IN
                 t.op = task[p].op /\ t.pc = pc /\ t.todo = todo
           /\ \A pc, cur, todo :
                 LET t == [task[p] EXCEPT !.pc = pc, !.cur = cur, !.todo = todo] IN
                 t.op = task[p].op /\ t.pc = pc /\ t.cur = cur /\ t.todo = todo
<1>1. task[p] \in Api!Tasks \union {Api!Idle}
  BY TaskType
<1> QED
  BY <1>1 DEF Api!Tasks, Api!Idle

LEMMA GotoIs ==
    ASSUME TaskOK, NEW p \in Procs, NEW t, Api!Goto(p, t)
    PROVE  task'[p] = t /\ \A q \in Procs : q # p => task'[q] = task[q]
  BY DEF Api!Goto, TaskOK

LEMMA EndIs ==
    ASSUME TaskOK, NEW p \in Procs, Api!End(p)
    PROVE  task'[p] = Api!Idle /\ \A q \in Procs : q # p => task'[q] = task[q]
<1>1. task' = [task EXCEPT ![p] = Api!Idle]
  BY DEF Api!End, Api!Goto
<1> QED
  BY <1>1 DEF TaskOK

\* A cancel goes to its write, the others end.
LEMMA AfterStopIs ==
    ASSUME TaskOK, NEW p \in Procs, Api!AfterStop(p)
    PROVE  /\ \/ task[p].op = "cancel" /\ task'[p].op = "cancel" /\ task'[p].pc = "write"
              \/ task[p].op # "cancel" /\ task'[p] = Api!Idle
           /\ \A q \in Procs : q # p => task'[q] = task[q]
<1>1. CASE task[p].op = "cancel"
  <2> DEFINE t == [task[p] EXCEPT !.pc = "write", !.cur = NoRow]
  <2>1. t.op = task[p].op /\ t.pc = "write" /\ Api!Goto(p, t)
    BY <1>1, StopFields DEF Api!AfterStop
  <2> HIDE DEF t
  <2> QED
    BY <1>1, <2>1, GotoIs
<1>2. CASE task[p].op # "cancel"
  BY <1>2, EndIs DEF Api!AfterStop
<1> QED
  BY <1>1, <1>2

LEMMA StopListFree ==
    ASSUME IndInv, FreeInv, Shapes, AllHere, NEW p \in Procs, Api!StopList(p)
    PROVE  FreeInv'
<1>0. WebInv /\ TaskOK /\ ShapeOf(task[p], p) /\ task[p].pc = "stopList"
  BY Parts DEF Kept, WebInv, Shapes, Api!StopList
<1>1. task[p].op \in Stopping
  BY <1>0 DEF ShapeOf, Api!StopPcs
<1>2. UNCHANGED <<job, cfgs, svc>>
  BY DEF Api!StopList, Api!store, Api!cluster
<1>3. /\ \A r \in Rows : HasConfigs(r)' => HasConfigs(r) /\ cfgs'[r] = cfgs[r]
      /\ \A n \in Names : Exists(n)' => Exists(n)
  BY <1>2 DEF HasConfigs, Exists
<1> DEFINE rows == {r \in Api!JobWorkers : ~Api!Spared(task[p].op, r)}
           t == [task[p] EXCEPT !.pc = "stopPod", !.todo = rows]
<1>4. ASSUME NEW r \in Rows, HasConfigs(r), ~Debug \/ task[p].op # "finish"
      PROVE  r \in rows
  BY <1>4, SameStore DEF AllHere, Here, JobWorkers, Api!Spared
<1>5. (rows = {} /\ Api!AfterStop(p)) \/ Api!Goto(p, t)
  BY DEF Api!StopList
<1>6. t.op = task[p].op /\ t.pc = "stopPod" /\ t.todo = rows
  BY <1>0, StopFields
<1> HIDE DEF rows, t
<1>7. CASE rows = {} /\ Api!AfterStop(p)
  <2>1. /\ \/ task[p].op = "cancel" /\ task'[p].op = "cancel" /\ task'[p].pc = "write"
           \/ task[p].op # "cancel" /\ task'[p] = Api!Idle
        /\ \A q \in Procs : q # p => task'[q] = task[q]
    BY <1>0, <1>7, AfterStopIs
  <2>2. task'[p].op # "start" /\ task'[p].pc # "stopCm"
        /\ (task'[p].op = "cancel" => task[p].op = "cancel")
    BY <2>1 DEF Api!Idle
  <2>3. \A r \in Rows : ~Debug \/ task[p].op # "finish" => ~HasConfigs(r)
    BY <1>4, <1>7
  <2> QED
    BY <1>0, <1>2, <1>3, <2>1, <2>2, <2>3, MoveFree DEF Starting
<1>8. CASE Api!Goto(p, t)
  <2>1. task'[p] = t /\ \A q \in Procs : q # p => task'[q] = task[q]
    BY <1>0, <1>8, GotoIs
  <2>2. ~Starting(p)'
    BY <1>1, <1>6, <2>1 DEF Starting, Stopping
  <2>3. \A r \in Rows : HasConfigs(r) /\ (~Debug \/ task[p].op # "finish")
                        => ComesTo(p, r)'
    BY <1>4, <1>6, <2>1 DEF ComesTo
  <2> QED
    BY <1>0, <1>2, <1>3, <1>6, <2>1, <2>2, <2>3, MoveFree
<1> QED
  BY <1>5, <1>7, <1>8

LEMMA StopServiceFree ==
    ASSUME IndInv, FreeInv, Shapes, NEW p \in Procs, StopService(p), ~Spend("refuse")
    PROVE  FreeInv'
<1>0. WebInv /\ TaskOK /\ ShapeOf(task[p], p) /\ task[p].pc = "stopPod"
  BY Parts DEF Kept, WebInv, Shapes, StopService
<1>1. PICK r \in task[p].todo :
        /\ DeleteService(NameOf(r))
        /\ task' = [task EXCEPT ![p].pc = "stopCm", ![p].cur = r, ![p].todo = @ \ {r}]
  BY DEF StopService
<1>2. UNCHANGED <<job, cfgs>>
  BY DEF StopService, store
<1> DEFINE t == [task[p] EXCEPT !.pc = "stopCm", !.cur = r, !.todo = @ \ {r}]
<1>3. task' = [task EXCEPT ![p] = t]
  BY <1>0, <1>1 DEF TaskOK
<1>4. t.op = task[p].op /\ t.pc = "stopCm" /\ t.cur = r /\ t.todo = task[p].todo \ {r}
  BY <1>0, StopFields
<1> HIDE DEF t
<1>5. task'[p] = t /\ \A q \in Procs : q # p => task'[q] = task[q]
  BY <1>0, <1>3 DEF TaskOK
<1>6. /\ \A n \in Names : Exists(n)' => Exists(n)
      /\ ~Exists(NameOf(r))'
  <2>1. task[p] \in Api!Tasks
    BY <1>0 DEF TaskOK, Api!Idle
  <2>2. NameOf(r) \in Names
    BY <1>1, <2>1, SameStore DEF Api!Tasks, Rows, NameOf
  <2>3. \A n \in Names : svc'[n] = IF n = NameOf(r) THEN NoSvc ELSE svc[n]
    BY <1>1, Parts DEF SwarmOK, DeleteService
  <2> QED
    BY <2>2, <2>3 DEF Exists, NoSvc
<1>7. task[p].op \in Stopping
  BY <1>0 DEF ShapeOf, Api!StopPcs
<1>8. ~Starting(p)'
  BY <1>4, <1>5, <1>7 DEF Starting, Stopping
<1>9. \A s \in Rows : ComesTo(p, s) => ComesTo(p, s)'
  BY <1>0, <1>4, <1>5 DEF ComesTo
<1>10. \A s \in Rows : HasConfigs(s)' => HasConfigs(s) /\ cfgs'[s] = cfgs[s]
  BY <1>2 DEF HasConfigs
<1>11. task'[p].cur = r /\ ~Exists(NameOf(task[p].cur))'
  BY <1>4, <1>5, <1>6
<1> QED
  BY <1>0, <1>2, <1>4, <1>5, <1>6, <1>8, <1>9, <1>10, <1>11, MoveFree

LEMMA StopConfigsFree ==
    ASSUME IndInv, FreeInv, Shapes, NEW p \in Procs, StopConfigs(p), ~Spend("refuse")
    PROVE  FreeInv'
<1>0. /\ WebInv /\ TaskOK /\ ShapeOf(task[p], p) /\ task[p].pc = "stopCm"
      /\ cfgs \in [Rows -> Procs \union {NoOwner}]
  BY Parts DEF Kept, WebInv, Shapes, StopConfigs, SwarmOK
<1>1. task[p].cur \in Rows /\ task[p].op \in Stopping
  BY <1>0 DEF WebInv, ShapeOK, Api!RowPcs, ShapeOf, Api!StopPcs
<1>2. ~InUse(task[p].cur)
  <2>1. ~Exists(NameOf(task[p].cur))
    BY <1>0 DEF FreeInv, StoppedIsGone
  <2> QED
    BY <2>1 DEF InUse, IndInv, ScriptsStay
<1>3. cfgs' = [cfgs EXCEPT ![task[p].cur] = NoOwner]
  BY <1>2 DEF StopConfigs, DeleteConfigs
<1>4. /\ \A r \in Rows : HasConfigs(r)' => /\ HasConfigs(r) /\ cfgs'[r] = cfgs[r]
                                          /\ r # task[p].cur
  BY <1>0, <1>1, <1>3 DEF HasConfigs
<1>5. UNCHANGED <<job, svc>>
  BY DEF StopConfigs, store
<1>6. \A n \in Names : Exists(n)' => Exists(n)
  BY <1>5 DEF Exists
<1>7. CASE task[p].todo = {} /\ Api!AfterStop(p)
  <2>1. /\ \/ task[p].op = "cancel" /\ task'[p].op = "cancel" /\ task'[p].pc = "write"
           \/ task[p].op # "cancel" /\ task'[p] = Api!Idle
        /\ \A q \in Procs : q # p => task'[q] = task[q]
    BY <1>0, <1>7, AfterStopIs
  <2>2. task'[p].op # "start" /\ task'[p].pc # "stopCm"
        /\ (task'[p].op = "cancel" => task[p].op = "cancel")
    BY <2>1 DEF Api!Idle
  <2>3. \A r \in Rows : HasConfigs(r)' => ~ComesTo(p, r)
    BY <1>0, <1>4, <1>7 DEF ComesTo
  <2> QED
    BY <1>0, <1>4, <1>5, <1>6, <2>1, <2>2, <2>3, MoveFree DEF Starting
<1>8. CASE Api!To(p, "stopPod")
  <2> DEFINE t == [task[p] EXCEPT !.pc = "stopPod"]
  <2>1. t.op = task[p].op /\ t.pc = "stopPod" /\ t.todo = task[p].todo
    BY <1>0, StopFields
  <2>2. Api!Goto(p, t)
    BY <1>8 DEF Api!To
  <2> HIDE DEF t
  <2>3. task'[p] = t /\ \A q \in Procs : q # p => task'[q] = task[q]
    BY <1>0, <2>2, GotoIs
  <2>4. ~Starting(p)'
    BY <1>1, <2>1, <2>3 DEF Starting, Stopping
  <2>5. \A r \in Rows : HasConfigs(r)' /\ ComesTo(p, r) => ComesTo(p, r)'
    BY <1>0, <1>4, <2>1, <2>3 DEF ComesTo
  <2> QED
    BY <1>0, <1>4, <1>5, <1>6, <2>1, <2>3, <2>4, <2>5, MoveFree
<1> QED
  BY <1>7, <1>8 DEF StopConfigs

\* A handler that stops nothing more, beside a write of the job.
LEMMA KeepFree ==
    ASSUME FreeInv, WebInv, NEW p \in Procs,
           \A q \in Procs : q # p => task'[q] = task[q],
           UNCHANGED <<cfgs, svc>>, Starting(p)' => Starting(p),
           task'[p].op # "cancel", task'[p].pc # "stopCm"
    PROVE  StartOwns' /\ CancelComes' /\ StoppedIsGone'
<1> USE DEF FreeInv
<1>1. StartOwns'
  BY DEF StartOwns, Starting, HasConfigs
<1>2. CancelComes'
  BY DEF CancelComes, ComesTo, HasConfigs
<1>3. StoppedIsGone'
  BY DEF StoppedIsGone, Exists
<1> QED
  BY <1>1, <1>2, <1>3

LEMMA MarkFree ==
    ASSUME FreeInv, WebInv, NEW p \in Procs, Api!StartMark(p)
    PROVE  FreeInv'
<1>1. job' = "STARTING" /\ UNCHANGED <<cfgs, svc>> /\ task[p].op = "start"
  BY DEF Api!StartMark, Api!SaveJob, Api!cluster, Api!At
<1> DEFINE t == [task[p] EXCEPT !.pc = "count"]
<1>2. t.op = "start" /\ t.pc = "count" /\ Api!Goto(p, t)
  BY <1>1, StopFields DEF Api!StartMark, Api!To, WebInv
<1> HIDE DEF t
<1>3. task'[p] = t /\ \A q \in Procs : q # p => task'[q] = task[q]
  BY <1>2, GotoIs DEF WebInv
<1>4. StartOwns' /\ CancelComes' /\ StoppedIsGone'
  BY <1>1, <1>2, <1>3, KeepFree DEF Starting
<1> QED
  BY <1>1, <1>4 DEF FreeInv, FreshIsFree, StartIsActive, OverIsStopped, CanceledIsFree,
                    Active, Absent

\* A start that fails cleanly had made nothing, and found nothing.
LEMMA FailFree ==
    ASSUME FreeInv, WebInv, Shapes, Clean, NotedInv, Noted, NEW p \in Procs,
           Api!StartFail(p)
    PROVE  FreeInv'
<1>1. /\ job' = "FAILURE" /\ UNCHANGED <<cfgs, svc>>
      /\ Starting(p) /\ task[p].pc = "fail"
  BY DEF Api!StartFail, Api!SaveJob, Api!cluster, Api!At, Starting
<1>2. task'[p] = Api!Idle /\ \A q \in Procs : q # p => task'[q] = task[q]
  BY EndIs DEF Api!StartFail, WebInv
<1>3. task'[p].op = "none" /\ task'[p].pc = "idle"
  BY <1>2 DEF Api!Idle
<1>4. StartOwns' /\ CancelComes' /\ StoppedIsGone'
  BY <1>1, <1>2, <1>3, KeepFree DEF Starting
<1>5. ~Debug => Nothing'
  <2>1. \A r \in Rows : cfgs[r] # p
    BY <1>1 DEF NotedInv, NoPartial, Clean
  <2> QED
    BY <1>1, <2>1 DEF FreeInv, StartOwns, Nothing, HasConfigs
<1>6. \A q \in Procs : ~Starting(q)'
  BY <1>1, <1>2, <1>3, Lonely DEF NotedInv, Starting
<1> QED
  BY <1>1, <1>4, <1>5, <1>6 DEF FreeInv, FreshIsFree, StartIsActive, OverIsStopped,
                                CanceledIsFree, Nothing, Absent

LEMMA WriteFree ==
    ASSUME FreeInv, WebInv, Shapes, EditsSpend, Clean, NotedInv, Noted,
           NEW p \in Procs, Api!WriteJob(p)
    PROVE  FreeInv'
<1>0. /\ task[p].pc = "write" /\ job' = task[p].out /\ UNCHANGED <<cfgs, svc>>
      /\ ShapeOf(task[p], p)
  BY DEF Api!WriteJob, Api!SaveJob, Api!cluster, Shapes
<1>1. task[p].op \in {"cancel", "finish", "image", "jstat"}
  BY <1>0 DEF ShapeOf, EditsSpend, Clean
<1>2. /\ \A q \in Procs : q # p => task'[q] = task[q]
      /\ \/ /\ task[p].op \in {"finish", "image"}
            /\ task'[p].op = task[p].op /\ task'[p].pc = "stopList"
         \/ task[p].op \in {"cancel", "jstat"} /\ task'[p] = Api!Idle
  <2>1. CASE task[p].op \in {"finish", "image"}
    <3> DEFINE t == [task[p] EXCEPT !.pc = "stopList"]
    <3>1. t.op = task[p].op /\ t.pc = "stopList" /\ Api!Goto(p, t)
      BY <2>1, StopFields DEF Api!WriteJob, Api!To, WebInv
    <3> HIDE DEF t
    <3> QED
      BY <2>1, <3>1, GotoIs DEF WebInv
  <2>2. CASE task[p].op \in {"cancel", "jstat"}
    BY <2>2, EndIs DEF Api!WriteJob, WebInv
  <2> QED
    BY <1>1, <2>1, <2>2
<1>3. task'[p].op \notin {"cancel", "start"} /\ task'[p].pc # "stopCm"
  BY <1>2 DEF Api!Idle
<1>4. StartOwns' /\ CancelComes' /\ StoppedIsGone'
  BY <1>0, <1>2, <1>3, KeepFree DEF Starting
<1>5. CASE task[p].op = "jstat"
  <2>1. job' = "RUNNING"
    BY <1>0, <1>5 DEF ShapeOf
  <2> QED
    BY <1>4, <2>1 DEF FreeInv, FreshIsFree, StartIsActive, OverIsStopped,
                      CanceledIsFree, Active, Absent
<1>6. CASE task[p].op # "jstat"
  <2>1. \A q \in Procs : ~Starting(q)'
    <3>1. ASSUME NEW q \in Procs, Starting(q)' PROVE FALSE
      <4>1. q # p /\ Starting(q)
        BY <1>2, <1>3, <3>1 DEF Starting
      <4>2. task[p].op \notin Stopping
        BY <4>1, Lonely DEF NotedInv
      <4> QED
        BY <1>1, <1>6, <4>2 DEF Stopping
    <3> QED
      BY <3>1
  <2>2. CASE task[p].op = "cancel"
    <3>1. job' = "CANCELED" /\ Nothing'
      BY <1>0, <2>2 DEF ShapeOf, FreeInv, CancelComes, ComesTo, Nothing, HasConfigs
    <3> QED
      BY <1>4, <2>1, <3>1 DEF FreeInv, FreshIsFree, StartIsActive, OverIsStopped,
                              CanceledIsFree
  <2>3. CASE task[p].op \in {"finish", "image"}
    <3>1. job' \in {"FINISHED", "FAILURE"}
      BY <1>0, <2>3 DEF ShapeOf
    <3>2. task'[p].op \in {"finish", "image"} /\ \A r \in Rows : ComesTo(p, r)'
      BY <1>2, <2>3 DEF ComesTo
    <3> QED
      BY <1>4, <2>1, <3>1, <3>2 DEF FreeInv, FreshIsFree, StartIsActive, OverIsStopped,
                                    CanceledIsFree, Absent
  <2> QED
    BY <1>1, <1>6, <2>2, <2>3
<1> QED
  BY <1>5, <1>6

\* A start makes configs of its own, while nothing stops it.
LEMMA ConfigsFree ==
    ASSUME IndInv, FreeInv, Shapes, Clean, NotedInv, Noted, NEW p \in Procs,
           StartConfigs(p), ~Spend("refuse")
    PROVE  FreeInv'
<1>0. /\ WebInv /\ TaskOK /\ cfgs \in [Rows -> Procs \union {NoOwner}]
      /\ Starting(p) /\ task[p].pc = "config"
  BY Parts DEF Kept, WebInv, SwarmOK, StartConfigs, At, Starting
<1>1. task[p].cur \in Rows
  BY <1>0 DEF WebInv, ShapeOK, Api!RowPcs
<1>2. UNCHANGED <<job, svc>>
  BY DEF StartConfigs, store
<1>3. job \in Active
  BY <1>0 DEF FreeInv, StartIsActive
<1>4. Api!To(p, "pod") \/ Api!To(p, "fail")
  BY DEF StartConfigs
<1>5. /\ \A q \in Procs : q # p => task'[q] = task[q]
      /\ task'[p].op = "start" /\ task'[p].pc \in {"pod", "fail"}
  <2>1. ASSUME NEW pc, Api!To(p, pc)
        PROVE  /\ \A q \in Procs : q # p => task'[q] = task[q]
               /\ task'[p].op = "start" /\ task'[p].pc = pc
    <3> DEFINE t == [task[p] EXCEPT !.pc = pc]
    <3>1. t.op = "start" /\ t.pc = pc /\ Api!Goto(p, t)
      BY <1>0, <2>1, StopFields DEF Api!To, Starting
    <3> HIDE DEF t
    <3> QED
      BY <1>0, <3>1, GotoIs
  <2> QED
    BY <1>4, <2>1
<1>6. \A r \in Rows : cfgs'[r] = cfgs[r] \/ cfgs'[r] = p
  BY <1>0, <1>1 DEF StartConfigs, MakeConfigs
<1>7. \A q \in Procs : q # p => task[q].op \notin Stopping \union {"start"}
  BY <1>0, Lonely DEF NotedInv
<1>8. StartIsActive' /\ FreshIsFree' /\ OverIsStopped' /\ CanceledIsFree'
  BY <1>2, <1>3 DEF StartIsActive, FreshIsFree, OverIsStopped, CanceledIsFree, Active,
                    Absent
<1>9. StartOwns'
  BY <1>0, <1>5, <1>6, <1>7 DEF FreeInv, StartOwns, Starting, HasConfigs
<1>10. CancelComes'
  BY <1>5, <1>7 DEF CancelComes, Stopping
<1>11. StoppedIsGone'
  BY <1>2, <1>5 DEF FreeInv, StoppedIsGone, Exists
<1> QED
  BY <1>8, <1>9, <1>10, <1>11 DEF FreeInv

LEMMA ServiceFree ==
    ASSUME IndInv, FreeInv, Shapes, Clean, NotedInv, Noted, NEW p \in Procs,
           StartService(p)
    PROVE  FreeInv'
<1>0. /\ WebInv /\ TaskOK /\ Starting(p) /\ task[p].pc = "pod"
  BY Parts DEF Kept, WebInv, StartService, At, Starting
<1>1. UNCHANGED <<job, cfgs>>
  BY DEF StartService, store
<1>2. Api!To(p, "save") \/ Api!To(p, "fail")
  BY DEF StartService
<1>3. /\ \A q \in Procs : q # p => task'[q] = task[q]
      /\ task'[p].op = "start" /\ task'[p].pc \in {"save", "fail"}
  <2>1. ASSUME NEW pc, Api!To(p, pc)
        PROVE  /\ \A q \in Procs : q # p => task'[q] = task[q]
               /\ task'[p].op = "start" /\ task'[p].pc = pc
    <3> DEFINE t == [task[p] EXCEPT !.pc = pc]
    <3>1. t.op = "start" /\ t.pc = pc /\ Api!Goto(p, t)
      BY <1>0, <2>1, StopFields DEF Api!To, Starting
    <3> HIDE DEF t
    <3> QED
      BY <1>0, <3>1, GotoIs
  <2> QED
    BY <1>2, <2>1
<1>4. \A q \in Procs : q # p => task[q].op \notin Stopping \union {"start"}
  BY <1>0, Lonely DEF NotedInv
<1>5. job \in Active
  BY <1>0 DEF FreeInv, StartIsActive
<1>6. StartIsActive' /\ FreshIsFree' /\ OverIsStopped' /\ CanceledIsFree'
  BY <1>1, <1>5 DEF StartIsActive, FreshIsFree, OverIsStopped, CanceledIsFree, Active,
                    Absent
<1>7. StartOwns'
  BY <1>0, <1>1, <1>3, <1>4 DEF FreeInv, StartOwns, Starting, HasConfigs
<1>8. CancelComes'
  BY <1>3, <1>4 DEF CancelComes, Stopping
<1>9. StoppedIsGone'
  <2>1. \A q \in Procs : q # p => task[q].pc # "stopCm"
    BY <1>4 DEF Shapes, ShapeOf, Api!StopPcs
  <2> QED
    BY <1>3, <2>1 DEF StoppedIsGone
<1> QED
  BY <1>6, <1>7, <1>8, <1>9 DEF FreeInv

\* Rows, configs and handlers as they are, and no new service.
LEMMA AsideFree ==
    ASSUME FreeInv, WebInv, Aside
    PROVE  FreeInv'
<1> USE DEF FreeInv, Aside
<1>1. FreshIsFree' /\ StartIsActive' /\ StartOwns' /\ CanceledIsFree'
  BY DEF FreshIsFree, StartIsActive, StartOwns, CanceledIsFree, Nothing, HasConfigs,
         Starting
<1>2. OverIsStopped' /\ CancelComes'
  BY DEF OverIsStopped, CancelComes, ComesTo, HasConfigs
<1>3. StoppedIsGone'
  <2>1. ASSUME NEW q \in Procs, task[q].pc = "stopCm"
        PROVE  ~Exists(NameOf(task[q].cur))'
    <3>1. task[q].cur \in Rows
      BY <2>1 DEF WebInv, ShapeOK, Api!RowPcs
    <3> QED
      BY <2>1, <3>1 DEF StoppedIsGone, Rows, NameOf
  <2> QED
    BY <2>1 DEF StoppedIsGone
<1> QED
  BY <1>1, <1>2, <1>3

LEMMA BeginIs ==
    ASSUME TaskOK, NEW p \in Procs, NEW t, Api!Begin(p, t)
    PROVE  task[p] = Api!Idle /\ task'[p] = t /\ \A q \in Procs : q # p => task'[q] = task[q]
  BY DEF Api!Begin, TaskOK

\* Any handler but a start begins.
LEMMA BeginFree ==
    ASSUME FreeInv, WebInv, NEW p \in Procs, NEW t, Api!Begin(p, t), t.op # "start",
           t.op = "cancel" => t.pc = "stopList", t.pc # "stopCm",
           UNCHANGED <<job, cfgs, svc>>
    PROVE  FreeInv'
<1>1. /\ task[p] = Api!Idle /\ task'[p] = t
      /\ \A q \in Procs : q # p => task'[q] = task[q]
  BY BeginIs DEF WebInv
<1>2. task[p].op = "none"
  BY <1>1 DEF Api!Idle
<1> QED
  BY <1>1, <1>2, MoveFree DEF Starting, HasConfigs, Exists

\* A start begins, on a job that is ready: nothing else is at work on it.
LEMMA StartFree ==
    ASSUME FreeInv, WebInv, Shapes', Clean', NotedInv', Noted', NEW p \in Procs,
           Api!Begin(p, Api!StartHandler), Api!ReadyToRun, UNCHANGED <<job, cfgs, svc>>
    PROVE  FreeInv'
<1>1. /\ task[p] = Api!Idle /\ task'[p] = Api!StartHandler
      /\ \A q \in Procs : q # p => task'[q] = task[q]
  BY BeginIs DEF WebInv
<1>2. task'[p].op = "start" /\ task'[p].pc = "mark" /\ task[p].op = "none"
  BY <1>1 DEF Api!StartHandler, Api!Handler, Api!Idle
<1>3. \A q \in Procs : q # p => task'[q].op \notin Stopping \union {"start"}
  <2>1. Starting(p)'
    BY <1>2 DEF Starting
  <2>2. \A P, Q : P \in Procs /\ Q \in Procs /\ Starting(P)' /\ P # Q
                  => task'[Q].op \notin {"start", "cancel", "clean", "finish"}
    BY DEF NotedInv, NoOverlap, Clean
  <2>3. task'[Poller] = Api!Idle
    BY <2>1 DEF Noted, Polling, Clean
  <2>4. \A q \in Procs : task'[q].op = "image" => q = Poller
    BY DEF Shapes, ShapeOf
  <2> QED
    BY <2>1, <2>2, <2>3, <2>4 DEF Api!Idle, Stopping
<1>4. \A q \in Procs : task[q].op \notin Stopping
  BY <1>1, <1>2, <1>3 DEF Stopping
<1>5. ~Debug => Nothing
  <2>1. job \in {"NEW", "FINISHED", "FAILURE", "CANCELED"}
    BY DEF Api!ReadyToRun, Api!Ready
  <2>2. CASE job \in {"FINISHED", "FAILURE"}
    BY <1>4, <2>2 DEF FreeInv, OverIsStopped, Nothing, Stopping
  <2>3. CASE job \in {"NEW", "CANCELED"}
    BY <2>3 DEF FreeInv, FreshIsFree, CanceledIsFree
  <2> QED
    BY <2>1, <2>2, <2>3
<1>6. FreshIsFree' /\ CanceledIsFree'
  BY DEF FreeInv, FreshIsFree, CanceledIsFree, Nothing, HasConfigs
<1>7. StartIsActive' /\ StartOwns'
  BY <1>2, <1>3, <1>5 DEF StartIsActive, StartOwns, Starting, Nothing, HasConfigs
<1>8. OverIsStopped'
  BY <1>5 DEF OverIsStopped, Nothing, HasConfigs
<1>9. CancelComes' /\ StoppedIsGone'
  <2>1. \A q \in Procs : task'[q].op \notin Stopping
    BY <1>2, <1>3 DEF Stopping
  <2>2. \A q \in Procs : task'[q].pc # "stopCm"
    BY <2>1 DEF Shapes, ShapeOf, Api!StopPcs
  <2> QED
    BY <2>1, <2>2 DEF CancelComes, StoppedIsGone, Stopping
<1> QED
  BY <1>6, <1>7, <1>8, <1>9 DEF FreeInv

LEMMA CreateFree ==
    ASSUME FreeInv, WebInv, NotYetCreated, NEW p \in Procs, Api!CreateJob(p)
    PROVE  FreeInv'
<1> DEFINE t == Api!Handler("create", "enqueue", NoRow, Api!Absent, Api!NoReq)
<1>1. ~Spent("create") /\ job' = "NEW" /\ UNCHANGED <<cfgs, svc>> /\ Api!Begin(p, t)
  BY DEF Api!CreateJob, Api!Spent, Spent, Api!SaveJob, Api!cluster
<1>2. t.op = "create" /\ t.pc = "enqueue"
  BY DEF Api!Handler
<1> HIDE DEF t
<1>3. task'[p] = t /\ \A q \in Procs : q # p => task'[q] = task[q]
  BY <1>1, BeginIs DEF WebInv
<1>4. job = Absent /\ \A q \in Procs : task[q].op = "none" /\ task[q].pc = "idle"
  BY <1>1 DEF NotYetCreated, Idle, Api!Idle
<1>5. Nothing
  BY <1>4 DEF FreeInv, FreshIsFree
<1>6. \A q \in Procs : /\ task'[q].op \in {"none", "create"}
                       /\ task'[q].pc \in {"idle", "enqueue"}
  BY <1>2, <1>3, <1>4
<1>7. Nothing'
  BY <1>1, <1>5 DEF Nothing, HasConfigs
<1>8. StartIsActive' /\ StartOwns'
  BY <1>6 DEF StartIsActive, StartOwns, Starting
<1>9. CancelComes' /\ StoppedIsGone'
  BY <1>6 DEF CancelComes, StoppedIsGone
<1> QED
  BY <1>1, <1>7, <1>8, <1>9 DEF FreeInv, FreshIsFree, OverIsStopped, CanceledIsFree

LEMMA HandlerFree ==
    ASSUME IndInv, IndInv', FreeInv, AllHere, Shapes, Shapes', EditsSpend, Clean,
           NotedInv, Noted, NEW p \in Procs, HandlerStep(p), ~Spend("refuse")
    PROVE  FreeInv'
<1>0. WebInv /\ TaskOK /\ ShapeOf(task[p], p)
  BY Parts DEF Kept, WebInv, Shapes
<1>g. GoesOn(p)
  BY <1>0, HandlerGoes
<1>1. CASE Api!StartMark(p) \/ Api!StartFail(p) \/ Api!WriteJob(p)
  BY <1>0, <1>1, MarkFree, FailFree, WriteFree
<1>2. CASE Api!EnqueueStart(p) \/ Api!StartCount(p) \/ Api!MakeCheck(p)
           \/ Api!MakeInsert(p) \/ Api!StartList(p) \/ Api!StartSave(p)
  <2>1. UNCHANGED <<job, cfgs, svc>>
    BY <1>2 DEF Api!EnqueueStart, Api!StartCount, Api!MakeCheck, Api!MakeInsert,
                Api!StartList, Api!StartSave, Api!store, Api!cluster
  <2>2. task[p].op \in {"create", "start"} /\ task[p].pc # "mark"
    BY <1>2 DEF Api!EnqueueStart, Api!StartCount, Api!MakeCheck, Api!MakeInsert,
                Api!StartList, Api!StartSave, Api!At
  <2> QED
    BY <1>0, <1>g, <2>1, <2>2, GoesFree DEF Stopping
<1>3. CASE Api!SaveRow(p)
  <2>1. UNCHANGED <<job, cfgs, svc>> /\ task[p].op = "wstat"
    BY <1>0, <1>3 DEF Api!SaveRow, Api!cluster, ShapeOf
  <2> QED
    BY <1>0, <1>g, <2>1, GoesFree DEF Stopping
<1>4. CASE Api!StopList(p) \/ StopService(p) \/ StopConfigs(p)
  BY <1>4, StopListFree, StopServiceFree, StopConfigsFree
<1>5. CASE StartConfigs(p) \/ StartService(p)
  BY <1>5, ConfigsFree, ServiceFree
<1> QED
  BY <1>1, <1>2, <1>3, <1>4, <1>5 DEF HandlerStep, SaveStep, OtherStep

LEMMA NextFree ==
    ASSUME IndInv, IndInv', Noted, Noted', GroundInv, GroundInv', NotedInv, NotedInv',
           Clean => FreeInv, HNext
    PROVE  Clean' => FreeInv'
<1> SUFFICES ASSUME Clean' PROVE FreeInv'
  OBVIOUS
<1> USE DEF GroundInv
<1>0. /\ WebInv /\ TaskOK /\ Next
      /\ Servers \subseteq Procs /\ Poller \in Procs
  BY Parts DEF Kept, WebInv, HNext, Procs
<1>1. /\ Clean /\ FreeInv
      /\ ~Spend("refuse") /\ ~Api!Spend("crash") /\ ~Spend("crash")
      /\ ~Api!Spend("edit") /\ ~Api!Spend("destroy")
  BY CleanStays
<1>2. AllHere
  BY <1>1 DEF RowsHere, Clean
<1>3. CASE UserStep
  <2>1. ~Api!DestroyJob /\ \A p \in Servers : ~Api!EditJob(p)
    BY <1>1 DEF Api!DestroyJob, Api!EditJob
  <2>2. ASSUME NEW p \in Servers, Api!CreateJob(p) PROVE FreeInv'
    BY <1>0, <1>1, <2>2, CreateFree
  <2>3. ASSUME NEW p \in Servers, Api!StartJob(p) PROVE FreeInv'
    <3>1. /\ Api!Begin(p, Api!StartHandler) /\ Api!ReadyToRun
          /\ UNCHANGED <<job, cfgs, svc>>
      BY <2>3 DEF Api!StartJob, Api!store, Api!cluster
    <3> QED
      BY <1>0, <1>1, <3>1, StartFree
  <2>4. ASSUME NEW p \in Servers, Api!CancelJob(p) \/ Api!CleanJob(p) PROVE FreeInv'
    <3>1. \E t : /\ Api!Begin(p, t) /\ t.op # "start" /\ t.pc = "stopList"
      BY <2>4 DEF Api!CancelJob, Api!CleanJob, Api!Handler
    <3>2. UNCHANGED <<job, cfgs, svc>>
      BY <2>4 DEF Api!CancelJob, Api!CleanJob, Api!store, Api!cluster
    <3> QED
      BY <1>0, <1>1, <3>1, <3>2, BeginFree
  <2> QED
    BY <1>3, <2>1, <2>2, <2>3, <2>4 DEF UserStep
<1>4. ASSUME NEW p \in Procs, HandlerStep(p) PROVE FreeInv'
  BY <1>1, <1>2, <1>4, HandlerFree
<1>5. CASE TakeMessage
  <2>1. PICK p \in Servers : Api!StartAvesjob(p)
    BY <1>5 DEF TakeMessage
  <2>2. UNCHANGED <<job, cfgs, svc>>
    BY <2>1 DEF Api!StartAvesjob, Api!store, Api!cluster
  <2>3. CASE Api!ReadyToRun
    <3>1. Api!Begin(p, Api!StartHandler)
      BY <2>1, <2>3 DEF Api!StartAvesjob
    <3> QED
      BY <1>0, <1>1, <2>2, <2>3, <3>1, StartFree
  <2>4. CASE ~Api!ReadyToRun
    <3>1. /\ Api!Begin(p, Api!Idle) /\ Api!Idle.op = "none" /\ Api!Idle.pc = "idle"
      BY <2>1, <2>4 DEF Api!StartAvesjob, Api!Idle
    <3> QED
      BY <1>0, <1>1, <2>2, <3>1, BeginFree
  <2> QED
    BY <2>3, <2>4
<1>6. ASSUME NEW m \in Api!Requests, TakeRequest(m) PROVE FreeInv'
  <2> DEFINE t == CASE m.kind = "wstat" -> Api!WorkerChangeStatus(m)
                    [] m.kind = "jstat" -> Api!JobChangeStatus(m)
                    [] m.kind = "jres"  -> Api!FinishJob(m)
  <2>1. PICK p \in Servers : Api!Begin(p, t)
    BY <1>6 DEF TakeRequest, Api!HandleRequest
  <2>2. t.op \notin {"start", "cancel"} /\ t.pc # "stopCm"
    BY DEF Api!Requests, Api!WorkerChangeStatus, Api!JobChangeStatus, Api!FinishJob,
           Api!Handler, Api!Idle
  <2>3. UNCHANGED <<job, cfgs, svc>>
    BY <1>6 DEF TakeRequest, Api!HandleRequest, Api!store, Api!cluster
  <2> HIDE DEF t
  <2> QED
    BY <1>0, <1>1, <2>1, <2>2, <2>3, BeginFree
<1>7. ASSUME NEW n \in Names,
             \/ ScriptStep(n) \/ TrainStep(n) \/ SwarmStep(n)
             \/ Api!Breaks(n) /\ UNCHANGED <<poll, aged>>
             \/ ContainerDies(n) \/ Rejected(n)
      PROVE  FreeInv'
  BY <1>0, <1>1, <1>7, ContainerAside, AsideFree
<1>8. CASE PollRows
  <2> DEFINE t == Api!Handler("image", "write", NoRow, "FAILURE", Api!NoReq)
  <2>1. t.op = "image" /\ t.pc = "write" /\ Api!Begin(Poller, t)
        /\ UNCHANGED <<job, cfgs, svc>>
    BY <1>8 DEF PollRows, Api!Handler, swarm
  <2> HIDE DEF t
  <2> QED
    BY <1>0, <1>1, <2>1, BeginFree
<1>9. ASSUME \/ \E m \in Api!Requests :
                   (Api!ReportTimesOut(m) \/ Api!ReportLost(m)) /\ UNCHANGED <<poll, aged>>
             \/ PollList \/ PollAge \/ PollLook \/ TimePasses
      PROVE  FreeInv'
  <2>1. UNCHANGED <<job, cfgs, svc, task>>
    BY <1>9, LostAside
  <2> QED
    BY <1>1, <2>1 DEF FreeInv, FreshIsFree, StartIsActive, StartOwns, OverIsStopped,
                      CanceledIsFree, CancelComes, StoppedIsGone, Nothing, HasConfigs,
                      ComesTo, Starting, Exists
<1>10. ~PollerDies /\ \A p \in Procs : ~Api!Crash(p)
  BY <1>1 DEF PollerDies, Api!Crash
<1> QED
  BY <1>0, <1>3, <1>4, <1>5, <1>6, <1>7, <1>8, <1>9, <1>10 DEF Next, Fault, PollStep

-----------------------------------------------------------------------------
NamesInv == IndInv /\ PollInv /\ GroundInv /\ NotedInv /\ (Clean => FreeInv)

LEMMA InitNames == HInit => NamesInv
<1> SUFFICES ASSUME HInit PROVE NamesInv
  OBVIOUS
<1>1. IndInv /\ PollInv
  BY InitInv, InitPoll DEF HInit
<1>2. /\ job = Absent /\ wst = [r \in Rows |-> Absent]
      /\ cfgs = [r \in Rows |-> NoOwner] /\ task = [p \in Procs |-> Api!Idle]
      /\ startMsgs = 0 /\ inbox = {} /\ poll = Asleep /\ budget = Budget
  BY DEF HInit, Init, StoreInit, SwarmInit, Api!WebInit, BudgetInit
<1>3. \A p \in Procs : /\ task[p] = Api!Idle
                       /\ task[p].op = "none" /\ task[p].pc = "idle"
  BY <1>2 DEF Api!Idle
<1>4. Nothing /\ \A r \in Rows : wst[r] = Absent /\ cfgs[r] = NoOwner
  BY <1>2 DEF Nothing, HasConfigs
<1>5. Within
  BY <1>2, BudgetAssumption DEF Within
<1>6. Shapes
  BY <1>3, IdleShape DEF Shapes
<1>7. Telling /\ NotYetCreated /\ EditsSpend
  BY <1>2, <1>3, <1>4 DEF Telling, NotYetCreated, EditsSpend, Idle
<1>8. RowsHere
  BY <1>3, <1>4 DEF RowsHere, AllHere, TaskHere, HasConfigs
<1>9. NotedInv
  BY <1>3, <1>4, SwarmAssumption DEF NotedInv, NoOverlap, NoPartial, Starting
<1>10. FreeInv
  BY <1>2, <1>3, <1>4 DEF FreeInv, FreshIsFree, StartIsActive, StartOwns, OverIsStopped,
     CanceledIsFree, CancelComes, StoppedIsGone, Starting, Nothing
<1> QED
  BY <1>1, <1>5, <1>6, <1>7, <1>8, <1>9, <1>10 DEF NamesInv, GroundInv

LEMMA NextNames == NamesInv /\ [HNext]_hvars => NamesInv'
<1> SUFFICES ASSUME NamesInv, [HNext]_hvars PROVE NamesInv'
  OBVIOUS
<1> USE DEF NamesInv
<1>1. [Next]_vars
  BY DEF HNext, hvars
<1>2. IndInv' /\ PollInv'
  BY <1>1, NextInv, NextPoll
<1>3. GroundInv'
  BY <1>1, <1>2, OthersShape, TellingNext, NotYetNext, EditsNext, RowsNext, SpentStays
     DEF GroundInv
<1>4. CASE HNext
  BY <1>2, <1>3, <1>4, NotedNext, NextFree DEF PollInv
<1>5. CASE UNCHANGED hvars
  <2>1. UNCHANGED <<job, cfgs, svc, task, causes, budget>>
    BY <1>5 DEF hvars, vars, web, swarm, store
  <2>2. NotedInv'
    BY <2>1 DEF NotedInv, NoOverlap, NoPartial, Starting
  <2>3. (Clean => FreeInv)'
    BY <2>1 DEF Clean, Spent, FreeInv, FreshIsFree, StartIsActive, StartOwns,
                OverIsStopped, CanceledIsFree, CancelComes, StoppedIsGone, Nothing,
                HasConfigs, ComesTo, Starting, Exists
  <2> QED
    BY <1>2, <1>3, <2>2, <2>3
<1> QED
  BY <1>4, <1>5

\* For any workers, handlers, modes and budgets: when nothing is under way, a
\* job that is over has neither a service nor configs left, unless one of the
\* causes of NamesFree has occurred (_docker_stop, create_multiple_configs).
\* So no later start is refused for what an earlier one has left.
THEOREM NamesFreeCorrect == HSpec => []NamesFree
<1>1. HInit => NamesInv
  BY InitNames
<1>2. NamesInv /\ [HNext]_hvars => NamesInv'
  BY NextNames
<1>3. NamesInv => NamesFree
  <2> SUFFICES ASSUME NamesInv, job \in Terminal, Quiet, Clean, ~Debug \/ job = "CANCELED"
               PROVE  \A n \in Names : ~Exists(n) /\ \A r \in Rows : ~HasConfigs(r)
    BY DEF NamesFree, Clean
  <2>1. \A p \in Procs : task[p].op = "none"
    BY DEF Quiet, Idle, Api!Idle
  <2>2. Nothing
    <3>1. CASE job = "CANCELED"
      BY <3>1 DEF NamesInv, FreeInv, CanceledIsFree
    <3>2. CASE job # "CANCELED"
      BY <2>1, <3>2 DEF NamesInv, FreeInv, OverIsStopped, Nothing, Terminal
    <3> QED
      BY <3>1, <3>2
  <2> QED
    BY <2>2 DEF NamesInv, IndInv, ScriptsStay, Nothing
<1> QED
  BY <1>1, <1>2, <1>3, PTL DEF HSpec

=============================================================================
