------------------------ MODULE AvesK8sHistory_proofs ------------------------
(***************************************************************************)
(* Theorems about the run of a job: a pod is created once while nobody     *)
(* starts the job again, RUNNING is told when every pod has been created,  *)
(* and FINISHED is not told after the reporting pod failed.                *)
(***************************************************************************)
EXTENDS AvesK8sHistory, AvesK8s_proofs, FiniteSetTheorems

USE DEF Absent

-----------------------------------------------------------------------------
(* What a step does to the handlers.                                       *)

\* The handler of p goes on in its operation, or ends; the others rest.
HandlerMoves(p) ==
    /\ \A q \in Procs \ {p} : task'[q] = task[q]
    /\ UNCHANGED inbox
    /\ \/ /\ task'[p] = Idle
          /\ waiting' \in {waiting, waiting \ {task[p].req}}
       \/ /\ task'[p] # Idle /\ task'[p].op = task[p].op
          /\ task'[p].out = task[p].out /\ task'[p].req = task[p].req
          /\ UNCHANGED waiting

LEMMA GotoMoves ==
    ASSUME TypeInv, NEW p \in Procs, task[p].pc # "idle", NEW t, Goto(p, t),
           t = Idle \/ /\ t.op = task[p].op /\ t.out = task[p].out
                       /\ t.req = task[p].req
    PROVE  HandlerMoves(p)
<1>1. task[p] \in Tasks /\ task \in [Procs -> Tasks \union {Idle}]
  BY DEF TypeInv, TypeOK, WebOK, Idle
<1>2. task[p].op # "none" /\ Idle.op = "none"
  BY <1>1 DEF Tasks, Ops, Idle
<1>3. task'[p] = t
  BY <1>1 DEF Goto
<1> QED
  BY <1>1, <1>2, <1>3 DEF Goto, HandlerMoves

LEMMA EndMoves ==
    ASSUME TypeInv, NEW p \in Procs, task[p].pc # "idle", End(p)
    PROVE  HandlerMoves(p)
  BY GotoMoves DEF End

LEMMA ToMoves ==
    ASSUME TypeInv, NEW p \in Procs, task[p].pc # "idle", NEW pc, To(p, pc)
    PROVE  HandlerMoves(p)
<1> DEFINE t == [task[p] EXCEPT !.pc = pc]
<1>1. t.op = task[p].op /\ t.out = task[p].out /\ t.req = task[p].req
  BY DEF TypeInv, TypeOK, WebOK, Tasks, Idle
<1> QED
  BY <1>1, GotoMoves DEF To

LEMMA NextWorkerMoves ==
    ASSUME TypeInv, NEW p \in Procs, task[p].pc # "idle", NEW rows,
           NextWorker(p, rows)
    PROVE  HandlerMoves(p)
<1>1. CASE rows = {}
  BY <1>1, EndMoves DEF NextWorker
<1>2. CASE rows # {}
  <2>1. PICK r \in rows :
           Goto(p, [task[p] EXCEPT !.pc = "config", !.cur = r,
                                   !.todo = rows \ {r}])
    BY <1>2 DEF NextWorker
  <2> DEFINE t == [task[p] EXCEPT !.pc = "config", !.cur = r,
                                  !.todo = rows \ {r}]
  <2>2. t.op = task[p].op /\ t.out = task[p].out /\ t.req = task[p].req
    BY DEF TypeInv, TypeOK, WebOK, Tasks, Idle
  <2> QED
    BY <2>1, <2>2, GotoMoves
<1> QED
  BY <1>1, <1>2

LEMMA AfterStopMoves ==
    ASSUME TypeInv, NEW p \in Procs, task[p].pc # "idle", AfterStop(p)
    PROVE  HandlerMoves(p)
<1> DEFINE t == [task[p] EXCEPT !.pc = "write", !.cur = NoRow]
<1>1. t.op = task[p].op /\ t.out = task[p].out /\ t.req = task[p].req
  BY DEF TypeInv, TypeOK, WebOK, Tasks, Idle
<1> QED
  BY <1>1, EndMoves, GotoMoves DEF AfterStop

LEMMA HandlerStepMoves ==
    ASSUME TypeInv, NEW p \in Procs, HandlerStep(p)
    PROVE  HandlerMoves(p)
<1>1. CASE EnqueueStart(p)
  BY <1>1 DEF EnqueueStart, TypeInv, TypeOK, WebOK, HandlerMoves
<1>2. CASE \/ StartMark(p) \/ StartCount(p) \/ MakeCheck(p) \/ MakeInsert(p)
           \/ StartConfig(p) \/ StartPod(p) \/ StartFail(p)
           \/ WriteJob(p) \/ SaveRow(p) \/ EventCount(p)
  BY <1>2, ToMoves, EndMoves
     DEF StartMark, StartCount, MakeCheck, MakeInsert, StartConfig, StartPod,
         StartFail, WriteJob, SaveRow, EventCount, At
<1>3. CASE StartList(p) \/ StartSave(p)
  BY <1>3, NextWorkerMoves, EndMoves DEF StartList, StartSave, At
<1>4. CASE StopList(p)
  <2> DEFINE rows == {r \in JobWorkers : ~Spared(task[p].op, r)}
             t == [task[p] EXCEPT !.pc = "stopPod", !.todo = rows]
  <2>1. (AfterStop(p) \/ Goto(p, t)) /\ task[p].pc # "idle"
    BY <1>4 DEF StopList
  <2> HIDE DEF rows
  <2>2. t.op = task[p].op /\ t.out = task[p].out /\ t.req = task[p].req
    BY DEF TypeInv, TypeOK, WebOK, Tasks, Idle
  <2> QED
    BY <2>1, <2>2, AfterStopMoves, GotoMoves
<1>5. CASE StopPod(p)
  <2>1. PICK r \in task[p].todo :
           Goto(p, [task[p] EXCEPT !.pc = "stopCm", !.cur = r,
                                   !.todo = @ \ {r}])
    BY <1>5 DEF StopPod
  <2> DEFINE t == [task[p] EXCEPT !.pc = "stopCm", !.cur = r, !.todo = @ \ {r}]
  <2>2. t.op = task[p].op /\ t.out = task[p].out /\ t.req = task[p].req
    BY DEF TypeInv, TypeOK, WebOK, Tasks, Idle
  <2> QED
    BY <1>5, <2>1, <2>2, GotoMoves DEF StopPod
<1>6. CASE StopCm(p)
  BY <1>6, AfterStopMoves, ToMoves DEF StopCm
<1>7. CASE EventJob(p)
  <2>1. task[p].op \in {"event", "image"} /\ task[p].pc # "idle"
    BY <1>7 DEF EventJob, TypeInv, ShapeOK, Shaped
  <2>2. \/ End(p) \/ To(p, "write") \/ To(p, "evCount")
    BY <1>7, <2>1 DEF EventJob, JobExists
  <2> QED
    BY <2>1, <2>2, ToMoves, EndMoves
<1> QED
  BY <1>1, <1>2, <1>3, <1>4, <1>5, <1>6, <1>7 DEF HandlerStep

\* Whatever a process does to its task.
OwnStep(p) ==
    \/ CreateJob(p) \/ StartJob(p) \/ CancelJob(p) \/ CleanJob(p) \/ EditJob(p)
    \/ HandlerStep(p) \/ StartAvesjob(p) \/ Crash(p)
    \/ \E m \in Requests : HandleRequest(p, m)
    \/ \E e \in Events : ProcessEvent(p, e)

\* A task changes by a step of its own process.
LEMMA TaskSteps ==
    ASSUME TypeInv, [Next]_vars, NEW q \in Procs, task'[q] # task[q]
    PROVE  OwnStep(q)
<1>t. task \in [Procs -> Tasks \union {Idle}]
  BY DEF TypeInv, TypeOK, WebOK
<1>1. task' # task
  OBVIOUS
<1>2. ASSUME NEW p \in Procs, p # q, NEW t, task' = [task EXCEPT ![p] = t]
      PROVE  FALSE
  BY <1>2, <1>t
<1>3. ASSUME NEW p \in Procs, OwnStep(p)
      PROVE  p = q
  <2>1. CASE HandlerStep(p)
    BY <2>1, HandlerStepMoves DEF HandlerMoves
  <2>2. CASE Crash(p)
    BY <2>2, <1>2 DEF Crash, End, Goto
  <2>3. CASE \/ CreateJob(p) \/ StartJob(p) \/ CancelJob(p) \/ CleanJob(p)
             \/ EditJob(p) \/ StartAvesjob(p)
             \/ \E m \in Requests : HandleRequest(p, m)
             \/ \E e \in Events : ProcessEvent(p, e)
    BY <2>3, <1>2 DEF CreateJob, StartJob, CancelJob, CleanJob, EditJob,
                      StartAvesjob, HandleRequest, ProcessEvent, Begin
  <2> QED
    BY <1>3, <2>1, <2>2, <2>3 DEF OwnStep
<1>4. CASE UserStep
  BY <1>1, <1>3, <1>4 DEF UserStep, OwnStep, DestroyJob, web
<1>5. CASE \/ TakeMessage
           \/ \E m \in Requests : TakeRequest(m)
           \/ \E e \in Events : TakeEvent(e)
  BY <1>3, <1>5 DEF TakeMessage, TakeRequest, TakeEvent, OwnStep
<1>6. ASSUME NEW n \in Names, ScriptStep(n) \/ TrainStep(n) \/ KubeletStep(n)
      PROVE  UNCHANGED task
  BY <1>6 DEF ScriptStep, TrainStep, KubeletStep, ReportWorkerRunning,
              Rendezvous, Prepare, StartMpi, ReportResult, ReportBroken,
              TrainWon, TrainLost, ScriptEnds, PodStarts, PodGoes, PodDies,
              ScriptFrame, web
<1>7. CASE Fault
  <2>1. CASE \E p \in Procs : Crash(p)
    BY <2>1, <1>3 DEF OwnStep
  <2>2. CASE ~ \E p \in Procs : Crash(p)
    BY <1>7, <2>2, <1>1
       DEF Fault, Breaks, ImageFails, PodDies, ReportTimesOut,
           ReportLost, EventDropped, WatchAgain, ScriptFrame, web
  <2> QED
    BY <2>1, <2>2
<1>8. CASE UNCHANGED vars
  BY <1>1, <1>8 DEF vars, web
<1>9. ASSUME NEW p \in Procs, HandlerStep(p)
      PROVE  OwnStep(q)
  BY <1>3, <1>9 DEF OwnStep
<1> QED
  BY <1>1, <1>3, <1>4, <1>5, <1>6, <1>7, <1>8, <1>9 DEF Next

\* A request that is taken: by the handler of its kind, or by none.
LEMMA RequestTaken ==
    ASSUME TypeInv, NEW p \in Procs, NEW m \in Requests, HandleRequest(p, m)
    PROVE  /\ task[p] = Idle /\ m \in inbox /\ inbox' = inbox \ {m}
           /\ \A q \in Procs \ {p} : task'[q] = task[q]
           /\ \/ /\ task'[p] = Idle /\ waiting' = waiting \ {m}
                 /\ \/ m.kind = "wstat" /\ wst[m.row] = Absent
                    \/ m.kind = "jstat" /\ ~JobExists
                    \/ m.kind = "jres" /\ job # "RUNNING"
              \/ /\ UNCHANGED waiting
                 /\ \/ /\ m.kind = "wstat"
                       /\ task'[p] = Handler("wstat", "saveRow", m.row, m.st, m)
                    \/ /\ m.kind = "jstat"
                       /\ task'[p] = Handler("jstat", "write", NoRow, m.st, m)
                    \/ /\ m.kind = "jres" /\ job = "RUNNING"
                       /\ task'[p] = Handler("finish", "write", NoRow, m.st, m)
<1>1. \A op, pc, cur, out, req : Handler(op, pc, cur, out, req).req = req
  BY DEF Handler
<1>2. m # NoReq /\ Idle.req = NoReq
  BY DEF Requests, NoReq, Idle
<1>3. \A op, pc, cur, out : Handler(op, pc, cur, out, m) # Idle
  BY <1>1, <1>2
<1>4. task \in [Procs -> Tasks \union {Idle}]
  BY DEF TypeInv, TypeOK, WebOK
<1>5. m.kind \in {"wstat", "jstat", "jres"}
  BY DEF Requests
<1>6. ASSUME NEW t, Begin(p, t)
      PROVE  /\ task[p] = Idle /\ task'[p] = t
             /\ \A q \in Procs \ {p} : task'[q] = task[q]
  BY <1>4, <1>6 DEF Begin
<1>7. m \in inbox /\ inbox' = inbox \ {m}
  BY DEF HandleRequest
<1>8. CASE m.kind = "wstat"
  <2>1. /\ Begin(p, WorkerChangeStatus(m))
        /\ waiting' = IF WorkerChangeStatus(m) = Idle THEN waiting \ {m}
                                                      ELSE waiting
    BY <1>8 DEF HandleRequest
  <2> QED
    BY <2>1, <1>3, <1>6, <1>7, <1>8 DEF WorkerChangeStatus
<1>9. CASE m.kind = "jstat"
  <2>1. /\ Begin(p, JobChangeStatus(m))
        /\ waiting' = IF JobChangeStatus(m) = Idle THEN waiting \ {m}
                                                   ELSE waiting
    BY <1>9 DEF HandleRequest
  <2> QED
    BY <2>1, <1>3, <1>6, <1>7, <1>9 DEF JobChangeStatus
<1>10. CASE m.kind = "jres"
  <2>1. /\ Begin(p, FinishJob(m))
        /\ waiting' = IF FinishJob(m) = Idle THEN waiting \ {m} ELSE waiting
    BY <1>10 DEF HandleRequest
  <2> QED
    BY <2>1, <1>3, <1>6, <1>7, <1>10 DEF FinishJob
<1> QED
  BY <1>5, <1>8, <1>9, <1>10

\* A pod event that is taken, while its row is active, or consumed.
LEMMA EventTaken ==
    ASSUME TypeInv, NEW p \in Procs, NEW e \in Events, ProcessEvent(p, e)
    PROVE  /\ task[p] = Idle /\ e \in events
           /\ \A q \in Procs \ {p} : task'[q] = task[q]
           /\ \/ task'[p] = Idle
              \/ /\ wst[e.row] \in Active
                 /\ \/ /\ e.kind = "Succeeded"
                       /\ task'[p] = Handler("event", "saveRow", e.row,
                                             "FINISHED", NoReq)
                    \/ /\ e.kind = "Failed"
                       /\ task'[p] = Handler("event", "saveRow", e.row,
                                             "FAILURE", NoReq)
                    \/ /\ e.kind = "ImageError"
                       /\ task'[p] = Handler("image", "saveRow", e.row,
                                             "FAILURE", NoReq)
<1>1. task \in [Procs -> Tasks \union {Idle}]
  BY DEF TypeInv, TypeOK, WebOK
<1>2. e.kind \in {"Succeeded", "Failed", "ImageError"}
  BY DEF Events, EventKinds
<1>3. ASSUME NEW t, Begin(p, t)
      PROVE  /\ task[p] = Idle /\ task'[p] = t
             /\ \A q \in Procs \ {p} : task'[q] = task[q]
  BY <1>1, <1>3 DEF Begin
<1>4. CASE wst[e.row] \notin Active
  BY <1>3, <1>4 DEF ProcessEvent
<1>5. CASE wst[e.row] \in Active
  BY <1>2, <1>3, <1>5 DEF ProcessEvent, Outcome
<1> QED
  BY <1>4, <1>5

\* What a user's request begins with.
LEMMA UserTaken ==
    ASSUME TypeInv, NEW p \in Procs,
           CancelJob(p) \/ CleanJob(p) \/ EditJob(p)
    PROVE  /\ \A q \in Procs \ {p} : task'[q] = task[q]
           /\ UNCHANGED <<store, cluster, inbox, waiting>>
           /\ \/ /\ CancelJob(p) /\ Spend("cancel")
                 /\ task'[p] = Handler("cancel", "stopList", NoRow, "CANCELED", NoReq)
              \/ /\ CleanJob(p) /\ Spend("clean")
                 /\ task'[p] = Handler("clean", "stopList", NoRow, Absent, NoReq)
              \/ /\ EditJob(p) /\ Spend("edit")
                 /\ task'[p] = Handler("edit", "write", NoRow, job, NoReq)
  BY DEF TypeInv, TypeOK, WebOK, CancelJob, CleanJob, EditJob, Begin

-----------------------------------------------------------------------------
(* A pod is created once.                                                  *)

\* The handler with task t has still to create the pod of n.
Awaited(t, n) ==
    \/ t.op = "create"
    \/ /\ t.op = "start"
       /\ \/ t.pc \notin {"config", "pod", "save", "fail"}
          \/ t.cur = NoRow
          \/ \E r \in t.todo : NameOf(r) = n
          \/ t.pc # "save" /\ NameOf(t.cur) = n

\* The start of n's pod is still to come.
NotYet(n) ==
    \/ ~Spent("create") \/ startMsgs > 0
    \/ \E p \in Procs : Awaited(task[p], n)

\* The loop of AvesJob.start goes on to pods it had still to create.
LEMMA NextWorkerAwaits ==
    ASSUME TypeInv, NEW p \in Procs, Starting(p), NEW n, NEW rows \in SUBSET Rows,
           NextWorker(p, rows), Awaited(task'[p], n)
    PROVE  \E r \in rows : NameOf(r) = n
<1>1. task[p] \in Tasks /\ task \in [Procs -> Tasks \union {Idle}]
  BY DEF TypeInv, TypeOK, WebOK, Starting, Idle
<1>2. CASE rows = {}
  BY <1>1, <1>2 DEF NextWorker, End, Goto, Awaited, Idle
<1>3. CASE rows # {}
  <2>1. PICK r \in rows :
           Goto(p, [task[p] EXCEPT !.pc = "config", !.cur = r,
                                   !.todo = rows \ {r}])
    BY <1>3 DEF NextWorker
  <2> DEFINE t == [task[p] EXCEPT !.pc = "config", !.cur = r,
                                  !.todo = rows \ {r}]
  <2>2. /\ t.op = "start" /\ t.pc = "config" /\ t.cur = r
        /\ t.todo = rows \ {r}
    BY <1>1 DEF Tasks, Starting
  <2>3. task'[p] = t
    BY <1>1, <2>1 DEF Goto
  <2> HIDE DEF t
  <2>4. r # NoRow
    BY StoreAssumption
  <2> QED
    BY <2>2, <2>3, <2>4 DEF Awaited
<1> QED
  BY <1>2, <1>3

\* A handler that goes on awaits no pod it did not await.
LEMMA HandlerAwaits ==
    ASSUME TypeInv, NEW p \in Procs, HandlerStep(p), NEW n,
           Awaited(task'[p], n)
    PROVE  Awaited(task[p], n)
<1>1. task[p] \in Tasks \union {Idle} /\ task \in [Procs -> Tasks \union {Idle}]
  BY DEF TypeInv, TypeOK, WebOK
<1>2. task'[p].op = task[p].op /\ task[p].op \in {"create", "start"}
  BY HandlerStepMoves DEF HandlerMoves, Awaited, Idle
<1>3. CASE task[p].op = "create"
  BY <1>3 DEF Awaited
<1>4. CASE task[p].op = "start" /\ task[p].pc \notin {"config", "pod", "save", "fail"}
  BY <1>4 DEF Awaited
<1>5. CASE Starting(p) /\ task[p].pc \in {"config", "pod", "save", "fail"}
  <2>1. StartConfig(p) \/ StartPod(p) \/ StartSave(p) \/ StartFail(p)
    BY <1>5 DEF HandlerStep, Starting, At, EnqueueStart, StartMark,
                StartCount, MakeCheck, MakeInsert, StartList, StopList,
                StopPod, StopCm, WriteJob, SaveRow, EventJob, EventCount
  <2>2. ASSUME NEW pc, To(p, pc)
        PROVE  /\ task'[p].cur = task[p].cur /\ task'[p].todo = task[p].todo
               /\ task'[p].pc = pc
    BY <1>1, <2>2 DEF To, Goto, Tasks, Idle
  <2>3. End(p) => task'[p].op = "none"
    BY <1>1 DEF End, Goto, Idle
  <2>4. CASE StartConfig(p)
    <3>1. To(p, "pod") /\ task[p].pc = "config"
      BY <2>4 DEF StartConfig, At
    <3>2. task[p].cur # NoRow
      BY <1>1, <3>1, StoreAssumption
         DEF TypeInv, ShapeOK, Shaped, RowPcs
    <3>3. /\ task'[p].cur = task[p].cur /\ task'[p].todo = task[p].todo
          /\ task'[p].pc = "pod"
      BY <2>2, <3>1
    <3>4. NameOf(task[p].cur) = n \/ \E r \in task[p].todo : NameOf(r) = n
      BY <1>2, <1>5, <3>2, <3>3 DEF Awaited, Starting
    <3> QED
      BY <1>5, <3>1, <3>4 DEF Awaited, Starting
  <2>5. CASE StartPod(p)
    <3>1. (To(p, "save") \/ To(p, "fail")) /\ task[p].pc = "pod"
      BY <2>5 DEF StartPod, At
    <3>2. task[p].cur # NoRow
      BY <1>1, <3>1, StoreAssumption
         DEF TypeInv, ShapeOK, Shaped, RowPcs
    <3>3. /\ task'[p].cur = task[p].cur /\ task'[p].todo = task[p].todo
          /\ task'[p].pc \in {"save", "fail"}
      BY <2>2, <3>1
    <3>4. NameOf(task[p].cur) = n \/ \E r \in task[p].todo : NameOf(r) = n
      BY <1>2, <1>5, <3>2, <3>3 DEF Awaited, Starting
    <3> QED
      BY <1>5, <3>1, <3>4 DEF Awaited, Starting
  <2>6. CASE StartSave(p)
    <3>1. NextWorker(p, task[p].todo)
      BY <1>2, <2>3, <2>6 DEF StartSave
    <3>2. task[p].todo \in SUBSET Rows
      BY <1>1 DEF Tasks, Idle
    <3>3. \E r \in task[p].todo : NameOf(r) = n
      BY <1>5, <3>1, <3>2, NextWorkerAwaits
    <3> QED
      BY <1>5, <3>3 DEF Awaited, Starting
  <2>7. CASE StartFail(p)
    BY <1>2, <2>3, <2>7 DEF StartFail
  <2> QED
    BY <2>1, <2>4, <2>5, <2>6, <2>7
<1> QED
  BY <1>2, <1>3, <1>4, <1>5 DEF Starting

\* While nobody starts the job again, no pod's start comes a second time.
LEMMA NotYetShrinks ==
    ASSUME TypeInv, BudgetBound, [Next]_vars, ~Spent("start")',
           NEW n, NotYet(n)'
    PROVE  NotYet(n)
<1> SUFFICES ASSUME ~NotYet(n) PROVE FALSE
  OBVIOUS
<1>k. "start" \in Kinds /\ "create" \in Kinds
  BY DEF Kinds, UserKinds
<1>1. Spent("create")' /\ ~Spend("start")
  BY <1>k, BudgetShrinks, SpendSpent DEF NotYet
<1>2. \A p \in Procs : ~CreateJob(p) /\ ~StartAvesjob(p) /\ ~StartJob(p)
                       /\ ~EnqueueStart(p)
  BY <1>1 DEF NotYet, CreateJob, StartAvesjob, StartJob, EnqueueStart, At,
              Awaited
<1>3. startMsgs' = startMsgs
  BY <1>1, <1>2, NextCalm DEF Calm, MakeInsert, To, Goto
<1>4. PICK q \in Procs : Awaited(task'[q], n)
  BY <1>1, <1>3 DEF NotYet
<1>5. task'[q] # task[q] /\ ~Awaited(task[q], n)
  BY <1>4 DEF NotYet
<1>6. OwnStep(q)
  BY <1>5, TaskSteps
<1>7. task'[q].op \in {"create", "start"}
  BY <1>4 DEF Awaited
<1>h. /\ \A op, pc, cur, out, req : Handler(op, pc, cur, out, req).op = op
      /\ Idle.op = "none"
  BY DEF Handler, Idle
<1>8. ~(CancelJob(q) \/ CleanJob(q) \/ EditJob(q))
  BY <1>7, <1>h, UserTaken
<1>9. ~ \E m \in Requests : HandleRequest(q, m)
  BY <1>7, <1>h, RequestTaken
<1>10. ~ \E e \in Events : ProcessEvent(q, e)
  BY <1>7, <1>h, EventTaken
<1>11. ~Crash(q)
  BY <1>7, <1>h DEF Crash, End, Goto, TypeInv, TypeOK, WebOK
<1>12. ~HandlerStep(q)
  BY <1>4, <1>5, HandlerAwaits
<1> QED
  BY <1>2, <1>6, <1>8, <1>9, <1>10, <1>11, <1>12 DEF OwnStep

\* What a step does to the pod of n.
PodGone(n) == pod'[n] = NoPod /\ pod[n].phase # "running"
PodCreated(n) ==
    /\ \E p \in Procs : /\ StartPod(p) /\ To(p, "save")
                        /\ NameOf(task[p].cur) = n /\ pod'[n].row = task[p].cur
    /\ pod[n].phase = "none"
    /\ pod'[n].phase = "pending" /\ ~pod'[n].dying
PodGoesOn(n) ==
    /\ pod'[n].row = pod[n].row
    /\ \/ pod'[n].phase = pod[n].phase /\ ~pod[n].dying /\ \E p \in Procs : StopPod(p)
       \/ /\ pod[n].phase = "pending" /\ pod'[n].phase = "running" /\ PodStarts(n)
          /\ pod'[n].dying = pod[n].dying
       \/ /\ pod[n].phase = "running" /\ pod'[n].phase = "succeeded" /\ ScriptEnds(n)
          /\ pod'[n].dying = pod[n].dying
       \/ /\ pod[n].phase = "running" /\ pod'[n].phase = "failed" /\ PodDies(n)
          /\ pod'[n].dying = pod[n].dying

LEMMA PodMoves ==
    ASSUME TypeInv, [Next]_vars, NEW n \in Names
    PROVE  pod'[n] = pod[n] \/ PodGone(n) \/ PodCreated(n) \/ PodGoesOn(n)
<1> DEFINE G == pod'[n] = pod[n] \/ PodGone(n) \/ PodCreated(n) \/ PodGoesOn(n)
<1>p. pod \in [Names -> Pods] /\ pod' \in [Names -> Pods]
  BY NextType DEF TypeInv, TypeOK, ClusterOK
<1>d. \A q \in Pods : q.dying \in BOOLEAN
  BY DEF Pods
<1>1. CASE UNCHANGED pod
  BY <1>1
<1>2. ASSUME NEW p \in Procs, StartPod(p), ~UNCHANGED pod
      PROVE  G
  <2> DEFINE c == [phase |-> "pending", dying |-> FALSE, row |-> task[p].cur]
  <2>1. c.phase = "pending" /\ c.dying = FALSE /\ c.row = task[p].cur
    OBVIOUS
  <2>2. /\ pod' = [pod EXCEPT ![NameOf(task[p].cur)] = c] /\ To(p, "save")
        /\ pod[NameOf(task[p].cur)].phase = "none"
    BY <1>2 DEF StartPod, CreatePod, CanCreatePod
  <2> HIDE DEF c
  <2>3. CASE n = NameOf(task[p].cur)
    BY <1>2, <2>1, <2>2, <2>3, <1>p DEF PodCreated
  <2>4. CASE n # NameOf(task[p].cur)
    BY <2>2, <2>4, <1>p
  <2> QED
    BY <2>3, <2>4
<1>3. ASSUME NEW p \in Procs, StopPod(p), ~UNCHANGED pod
      PROVE  G
  <2>1. PICK k : DeletePod(k)
    BY <1>3 DEF StopPod
  <2> DEFINE d == IF Live(k) THEN [pod[k] EXCEPT !.dying = TRUE] ELSE NoPod
  <2>2. pod' = [pod EXCEPT ![k] = d]
    BY <2>1 DEF DeletePod
  <2>3. CASE n = k /\ Live(k)
    <3> DEFINE e == [pod[k] EXCEPT !.dying = TRUE]
    <3>1. d = e
      BY <2>3
    <3>2. k \in Names
      BY <2>3
    <3>3. e.phase = pod[k].phase /\ e.row = pod[k].row /\ e.dying = TRUE
      BY <3>2, <1>p DEF Pods
    <3>4. pod[k].dying => e = pod[k]
      BY <3>2, <1>p DEF Pods
    <3>5. pod'[n] = e
      BY <2>2, <2>3, <3>1, <1>p
    <3> HIDE DEF e
    <3> QED
      BY <1>3, <2>3, <3>3, <3>4, <3>5 DEF PodGoesOn
  <2>4. CASE n = k /\ ~Live(k)
    BY <2>2, <2>4, <1>p DEF PodGone, Live
  <2>5. CASE n # k
    <3> HIDE DEF d
    <3> QED
      BY <2>2, <2>5, <1>p
  <2> QED
    BY <2>3, <2>4, <2>5
<1>4. ASSUME NEW k \in Names, PodGoes(k)
      PROVE  G
  BY <1>4, <1>p DEF PodGoes, PodRemoved, PodGone
<1>5. ASSUME NEW k \in Names, NEW ph, pod' = [pod EXCEPT ![k].phase = ph]
      PROVE  /\ n # k => pod'[n] = pod[n]
             /\ n = k => /\ pod'[n].phase = ph /\ pod'[n].row = pod[n].row
                         /\ pod'[n].dying = pod[n].dying
  <2> DEFINE d == [pod[k] EXCEPT !.phase = ph]
  <2>1. pod' = [pod EXCEPT ![k] = d]
    BY <1>5
  <2>2. d.row = pod[k].row /\ d.phase = ph /\ d.dying = pod[k].dying
    BY <1>p DEF Pods
  <2> HIDE DEF d
  <2> QED
    BY <2>1, <2>2, <1>p
<1>6. ASSUME NEW k \in Names, PodStarts(k)
      PROVE  G
  BY <1>5, <1>6 DEF PodStarts, PodRuns, PodGoesOn
<1>7. ASSUME NEW k \in Names, PodDies(k)
      PROVE  G
  BY <1>5, <1>7 DEF PodDies, PodKilled, PodGoesOn
<1>8. ASSUME NEW k \in Names, ScriptEnds(k)
      PROVE  G
  BY <1>5, <1>8 DEF ScriptEnds, PodExits, PodGoesOn
<1>9. CASE \/ \E p \in Procs : StartConfig(p) \/ StopCm(p)
           \/ \E m \in Requests, p \in Procs : HandleRequest(p, m)
           \/ \E e \in Events, p \in Procs : ProcessEvent(p, e)
           \/ \E k \in Names : ImageFails(k)
           \/ WatchAgain
           \/ \E m \in Requests : ReportLost(m)
           \/ \E e \in Events : EventDropped(e)
  BY <1>1, <1>9
     DEF StartConfig, StopCm, HandleRequest, ProcessEvent, ImageFails,
         ImageError, WatchAgain, Resync, ReportLost, ScriptFrame,
         EventDropped, EventLost, cluster
<1> QED
  BY <1>1, <1>2, <1>3, <1>4, <1>6, <1>7, <1>8, <1>9, StepKinds DEF Elsewhere

\* A pod that still has to be created is not there, and carries the name of
\* the row it was created for.
StartInv ==
    /\ AloneInv
    /\ \A p \in Procs :
          Starting(p) /\ task[p].pc \in {"config", "pod", "save"}
             => task[p].cur \notin task[p].todo
    /\ \A n \in Names : pod[n].row # NoRow => NameOf(pod[n].row) = n
    /\ ~Spent("start") =>
          \A n \in Names : NotYet(n) => pod[n].phase = "none"

\* The row at work is none of those left to do.
LEMMA NextApart ==
    ASSUME StartInv, [Next]_vars, NEW q \in Procs,
           Starting(q)', task'[q].pc \in {"config", "pod", "save"}
    PROVE  task'[q].cur \notin task'[q].todo
<1>t. /\ task \in [Procs -> Tasks \union {Idle}] /\ TypeInv
      /\ task[q] \in Tasks \union {Idle}
  BY DEF StartInv, AloneInv, TypeInv, TypeOK, WebOK
<1>1. CASE task'[q] = task[q]
  BY <1>1 DEF StartInv, Starting
<1>2. CASE HandlerStep(q)
  <2>1. task[q].op = "start"
    BY <1>2, <1>t, HandlerStepMoves DEF HandlerMoves, Idle, Starting
  <2>2. ASSUME NEW pc, To(q, pc)
        PROVE  task'[q] = [task[q] EXCEPT !.pc = pc] /\ task'[q].pc = pc
               /\ task'[q].cur = task[q].cur /\ task'[q].todo = task[q].todo
    BY <1>t, <2>2 DEF To, Goto, Tasks, Idle
  <2>3. End(q) => task'[q].op = "none"
    BY <1>t DEF End, Goto, Idle
  <2>4. ASSUME NEW rows, NextWorker(q, rows)
        PROVE  task'[q].cur \notin task'[q].todo
    <3>1. PICK r \in rows :
             Goto(q, [task[q] EXCEPT !.pc = "config", !.cur = r,
                                     !.todo = rows \ {r}])
      BY <2>3, <2>4 DEF NextWorker, Starting
    <3> DEFINE t == [task[q] EXCEPT !.pc = "config", !.cur = r,
                                    !.todo = rows \ {r}]
    <3>2. t.cur = r /\ t.todo = rows \ {r}
      BY <1>t DEF Tasks, Idle
    <3>3. task'[q] = t
      BY <1>t, <3>1 DEF Goto
    <3> QED
      BY <3>2, <3>3
  <2>5. CASE StartConfig(q) \/ StartPod(q)
    BY <2>2, <2>5 DEF StartConfig, StartPod, At, StartInv, Starting
  <2>6. CASE StartList(q) \/ StartSave(q)
    BY <2>3, <2>4, <2>6 DEF StartList, StartSave, Starting
  <2>e. ~End(q) /\ \A pc \in Pcs \ {"config", "pod", "save"} : ~To(q, pc)
    BY <2>2, <2>3 DEF Starting
  <2>7. CASE \/ StartMark(q) \/ StartCount(q) \/ MakeCheck(q) \/ MakeInsert(q)
             \/ StartFail(q) \/ EventCount(q) \/ WriteJob(q) \/ SaveRow(q)
    BY <2>e, <2>7
       DEF StartMark, StartCount, MakeCheck, MakeInsert, StartFail,
           EventCount, WriteJob, SaveRow, Pcs, StartPcs, StopPcs
  <2>8. CASE EventJob(q)
    BY <2>1, <2>8, <1>t DEF EventJob, TypeInv, ShapeOK, Shaped
  <2>9. CASE EnqueueStart(q)
    BY <2>1, <2>9 DEF EnqueueStart, At
  <2>10. CASE StopList(q) \/ StopPod(q) \/ StopCm(q)
    <3>1. ASSUME NEW t, t.pc \in StopPcs \union {"write"}, Goto(q, t)
          PROVE  FALSE
      BY <1>t, <3>1 DEF Goto, StopPcs
    <3>2. ~AfterStop(q)
      <4> DEFINE t == [task[q] EXCEPT !.pc = "write", !.cur = NoRow]
      <4>1. t.pc = "write"
        BY <1>t DEF Tasks, Idle
      <4> QED
        BY <2>1, <2>3, <4>1, <3>1 DEF AfterStop, Starting
    <3>3. CASE StopList(q)
      <4> DEFINE rows == {r \in JobWorkers : ~Spared(task[q].op, r)}
                 t == [task[q] EXCEPT !.pc = "stopPod", !.todo = rows]
      <4>1. Goto(q, t)
        BY <3>2, <3>3 DEF StopList
      <4> HIDE DEF rows
      <4>2. t.pc = "stopPod"
        BY <1>t DEF Tasks, Idle
      <4> QED
        BY <4>1, <4>2, <3>1 DEF StopPcs
    <3>4. CASE StopPod(q)
      <4>1. PICK r \in task[q].todo :
               Goto(q, [task[q] EXCEPT !.pc = "stopCm", !.cur = r,
                                       !.todo = @ \ {r}])
        BY <3>4 DEF StopPod
      <4> DEFINE t == [task[q] EXCEPT !.pc = "stopCm", !.cur = r,
                                      !.todo = @ \ {r}]
      <4>2. t.pc = "stopCm"
        BY <1>t DEF Tasks, Idle
      <4> QED
        BY <4>1, <4>2, <3>1 DEF StopPcs
    <3>5. CASE StopCm(q)
      BY <2>e, <3>2, <3>5 DEF StopCm, Pcs, StopPcs
    <3> QED
      BY <2>10, <3>3, <3>4, <3>5
  <2> QED
    BY <1>2, <2>5, <2>6, <2>7, <2>8, <2>9, <2>10 DEF HandlerStep
<1>3. CASE task'[q] # task[q] /\ ~HandlerStep(q)
  <2>1. OwnStep(q)
    BY <1>3, <1>t, TaskSteps
  <2>2. \A op, pc, cur, out, req :
           /\ Handler(op, pc, cur, out, req).op = op
           /\ Handler(op, pc, cur, out, req).pc = pc
           /\ Handler(op, pc, cur, out, req).todo = {}
    BY DEF Handler
  <2>3. task'[q] = Idle \/ task'[q].todo = {}
    <3>1. CASE CancelJob(q) \/ CleanJob(q) \/ EditJob(q)
      BY <3>1, <2>2, <1>t, UserTaken
    <3>2. CASE \E m \in Requests : HandleRequest(q, m)
      BY <3>2, <2>2, <1>t, RequestTaken
    <3>3. CASE \E e \in Events : ProcessEvent(q, e)
      BY <3>3, <2>2, <1>t, EventTaken
    <3>4. CASE CreateJob(q) \/ StartJob(q) \/ StartAvesjob(q)
      BY <3>4, <2>2, <1>t
         DEF CreateJob, StartJob, StartAvesjob, Begin, StartHandler
    <3>5. CASE Crash(q)
      BY <3>5, <1>t DEF Crash, End, Goto
    <3> QED
      BY <1>3, <2>1, <3>1, <3>2, <3>3, <3>4, <3>5 DEF OwnStep
  <2> QED
    BY <2>3 DEF Idle
<1> QED
  BY <1>1, <1>2, <1>3

\* The pod that a step creates was awaited by that step's process, the only
\* one that starts the job.
LEMMA CreatedOnce ==
    ASSUME StartInv, [Next]_vars, ~Spent("start")', NEW n \in Names,
           PodCreated(n)
    PROVE  NotYet(n) /\ ~NotYet(n)'
<1>k. ~Spent("start") /\ TypeInv /\ BudgetBound /\ StartAlone /\ RowsMade
  BY BudgetShrinks DEF StartInv, AloneInv, Kinds, UserKinds
<1>t. /\ task \in [Procs -> Tasks \union {Idle}] /\ startMsgs \in Nat
      /\ made \in Nat
  BY <1>k DEF TypeInv, TypeOK, WebOK, StoreOK
<1>1. PICK p \in Procs : /\ StartPod(p) /\ To(p, "save")
                         /\ NameOf(task[p].cur) = n
  BY DEF PodCreated
<1>2. Starting(p) /\ task[p].pc = "pod" /\ task[p] \in Tasks
  BY <1>1, <1>t DEF StartPod, At, Starting, Idle
<1>3. task[p].cur \in Rows /\ task[p].todo \subseteq Rows
  BY <1>k, <1>2 DEF TypeInv, ShapeOK, Shaped, RowPcs, Tasks
<1>4. NotYet(n)
  BY <1>1, <1>2 DEF NotYet, Awaited, Starting
<1>5. \A r \in Rows : r[2] \in Nat \ {0}
  BY StoreAssumption DEF Rows
<1>6. \A r \in task[p].todo : NameOf(r) # n
  <2> SUFFICES ASSUME NEW r \in task[p].todo, NameOf(r) = n PROVE FALSE
    OBVIOUS
  <2>1. r \in Rows /\ r[2] <= made /\ task[p].cur[2] <= made /\ made <= 1
    BY <1>k, <1>3, StoreAssumption DEF RowsMade, StartAlone
  <2>2. r[2] = 1 /\ task[p].cur[2] = 1
    BY <1>3, <1>5, <1>t, <2>1
  <2>3. r = task[p].cur
    BY <1>1, <1>3, <2>1, <2>2 DEF Rows, NameOf
  <2> QED
    BY <1>2, <2>3 DEF StartInv
<1>7. /\ task'[p].op = "start" /\ task'[p].pc = "save"
      /\ task'[p].cur = task[p].cur /\ task'[p].todo = task[p].todo
      /\ \A q \in Procs : q # p => task'[q] = task[q]
      /\ startMsgs' = startMsgs /\ Alone(p)
  BY <1>1, <1>2, <1>t DEF To, Goto, Tasks, Starting, Alone
<1>8. startMsgs = 0 /\ Spent("create") /\ \A q \in Procs : q # p => ~Alone(q)
  BY <1>k, <1>7 DEF StartAlone
<1>9. Spent("create")'
  BY <1>k, <1>8, BudgetShrinks DEF Kinds, UserKinds
<1>10. ~Awaited(task'[p], n)
  BY <1>3, <1>6, <1>7, StoreAssumption DEF Awaited
<1>11. \A q \in Procs : q # p => ~Awaited(task'[q], n)
  BY <1>7, <1>8 DEF Awaited, Alone
<1>12. ~NotYet(n)'
  BY <1>7, <1>8, <1>9, <1>10, <1>11 DEF NotYet
<1> QED
  BY <1>4, <1>12

LEMMA StartInvCorrect == Spec => []StartInv
<1>1. AloneInv /\ Init => StartInv
  BY DEF Init, StartInv, ClusterInit, WebInit, NoPod, Idle, Starting
<1>2. AloneInv' /\ StartInv /\ [Next]_vars => StartInv'
  <2> SUFFICES ASSUME AloneInv', StartInv, [Next]_vars PROVE StartInv'
    OBVIOUS
  <2>t. TypeInv /\ BudgetBound
    BY DEF StartInv, AloneInv
  <2>1. ASSUME NEW q \in Procs,
               Starting(q)', task'[q].pc \in {"config", "pod", "save"}
        PROVE  task'[q].cur \notin task'[q].todo
    BY <2>1, NextApart
  <2>2. ASSUME NEW n \in Names, pod'[n].row # NoRow
        PROVE  NameOf(pod'[n].row) = n
    BY <2>2, <2>t, PodMoves
       DEF StartInv, PodGone, PodCreated, PodGoesOn, NoPod
  <2>3. ASSUME ~Spent("start")', NEW n \in Names, NotYet(n)'
        PROVE  pod'[n].phase = "none"
    <3>1. ~Spent("start") /\ NotYet(n)
      BY <2>3, <2>t, BudgetShrinks, NotYetShrinks DEF Kinds, UserKinds
    <3>2. pod[n].phase = "none"
      BY <3>1 DEF StartInv
    <3>3. ~PodCreated(n)
      BY <2>3, CreatedOnce
    <3> QED
      BY <3>2, <3>3, <2>t, PodMoves DEF PodGone, PodGoesOn, NoPod
  <2> QED
    BY <2>1, <2>2, <2>3 DEF StartInv, Starting
<1> QED
  BY <1>1, <1>2, AloneInvCorrect, PTL DEF Spec

-----------------------------------------------------------------------------
(* Where a status of the job comes from.                                   *)

\* The steps of the script in the pod of n.
ScriptOwn(n) ==
    \/ PodStarts(n) \/ PodDies(n) \/ ScriptEnds(n)
    \/ ReportWorkerRunning(n) \/ Rendezvous(n) \/ Prepare(n) \/ StartMpi(n)
    \/ ReportResult(n) \/ ReportBroken(n) \/ TrainWon(n) \/ TrainLost(n)
    \/ Breaks(n)

\* A script moves by a step of its own.
LEMMA ScriptSteps ==
    ASSUME TypeInv, [Next]_vars, NEW n \in Names, script'[n] # script[n]
    PROVE  ScriptOwn(n)
<1>1. script \in [Names -> ScriptPcs] /\ script' # script
  BY DEF TypeInv, TypeOK, ScriptOK
<1>2. ASSUME NEW k \in Names, ScriptOwn(k)
      PROVE  k = n
  <2>1. \E pc : script' = [script EXCEPT ![k] = pc]
    BY <1>2 DEF ScriptOwn, PodStarts, PodDies, ScriptEnds, Moves, Breaks,
                ReportWorkerRunning, Rendezvous, Prepare, StartMpi,
                ReportResult, ReportBroken, TrainWon, TrainLost
  <2> QED
    BY <1>1, <2>1
<1>3. CASE \E k \in Names : ScriptStep(k) \/ TrainStep(k) \/ KubeletStep(k)
  BY <1>1, <1>2, <1>3 DEF ScriptStep, TrainStep, KubeletStep, ScriptOwn, PodGoes
<1>4. CASE Fault
  BY <1>1, <1>2, <1>4 DEF Fault, ScriptOwn, ImageFails, ReportTimesOut,
                          ReportLost, EventDropped, WatchAgain
<1> QED
  BY <1>1, <1>3, <1>4
     DEF Next, UserStep, HandlerStep, TakeMessage, TakeRequest, TakeEvent, vars

\* Requests are sent by scripts.
LEMMA InboxSteps ==
    ASSUME TypeInv, [Next]_vars, NEW m, m \in inbox', m \notin inbox
    PROVE  \E n \in Names : ScriptOwn(n)
<1>1. CASE \E k \in Names : ScriptStep(k) \/ TrainStep(k) \/ KubeletStep(k)
  BY <1>1 DEF ScriptStep, TrainStep, KubeletStep, ScriptOwn, PodGoes, web
<1>2. CASE Fault
  BY <1>2 DEF Fault, ScriptOwn, ImageFails, ReportTimesOut, Crash, End, Goto,
              ReportLost, EventDropped, WatchAgain, web
<1>3. ASSUME NEW p \in Procs, HandlerStep(p)
      PROVE  FALSE
  BY <1>3, HandlerStepMoves DEF HandlerMoves
<1>4. CASE UserStep
  BY <1>4 DEF UserStep, DestroyJob, CreateJob, StartJob, CancelJob, CleanJob,
              EditJob, web
<1>5. CASE \/ TakeMessage
           \/ \E o \in Requests : TakeRequest(o)
           \/ \E e \in Events : TakeEvent(e)
  BY <1>5 DEF TakeMessage, TakeRequest, TakeEvent, StartAvesjob,
              HandleRequest, ProcessEvent
<1> QED
  BY <1>1, <1>2, <1>3, <1>4, <1>5 DEF Next, vars, web

\* The job's row is written by these alone.
LEMMA JobSteps ==
    ASSUME TypeInv, [Next]_vars, job' # job
    PROVE  \/ DestroyJob
           \/ \E p \in Procs : CreateJob(p) \/ StartMark(p) \/ StartFail(p)
                               \/ WriteJob(p)
<1>1. CASE UserStep
  BY <1>1 DEF UserStep, StartJob, CancelJob, CleanJob, EditJob, store
<1>2. ASSUME NEW p \in Procs, HandlerStep(p)
      PROVE  StartMark(p) \/ StartFail(p) \/ WriteJob(p)
  BY <1>2 DEF HandlerStep, EnqueueStart, StartCount, MakeCheck, MakeInsert,
              StartList, StartConfig, StartPod, StartSave, StopList, StopPod,
              StopCm, SaveRow, EventJob, EventCount, store
<1>3. CASE \/ TakeMessage
           \/ \E o \in Requests : TakeRequest(o)
           \/ \E e \in Events : TakeEvent(e)
  BY <1>3 DEF TakeMessage, TakeRequest, TakeEvent, StartAvesjob,
              HandleRequest, ProcessEvent, store
<1>4. ASSUME NEW n \in Names, ScriptStep(n) \/ TrainStep(n) \/ KubeletStep(n)
      PROVE  UNCHANGED job
  BY <1>4 DEF ScriptStep, TrainStep, KubeletStep, ReportWorkerRunning,
              Rendezvous, Prepare, StartMpi, ReportResult, ReportBroken,
              TrainWon, TrainLost, ScriptEnds, PodStarts, PodGoes, PodDies,
              ScriptFrame, store
<1>5. CASE Fault
  BY <1>5 DEF Fault, Crash, Breaks, ImageFails, PodDies, ReportTimesOut,
              ReportLost, EventDropped, WatchAgain, ScriptFrame, store
<1> QED
  BY <1>1, <1>2, <1>3, <1>4, <1>5 DEF Next, vars, store

\* The handler of a worker's report does nothing but save what it was told,
\* and what is saved of a worker is an outcome or RUNNING.
ReportShape(t) ==
    /\ t.op = "wstat" => /\ t.pc = "saveRow" /\ t.req.kind = "wstat"
                         /\ t.cur = t.req.row /\ t.out = t.req.st
    /\ t.req.kind = "wstat" => t.op = "wstat"
    /\ t.pc = "saveRow" => t.out \in {"RUNNING", "FINISHED", "FAILURE"}
ReportsShaped == \A p \in Procs : ReportShape(task[p])

\* The steps of a handler that writes nothing to a worker's row.
LEMMA GoesUnreported ==
    ASSUME NEW t \in Tasks, ReportShape(t), NEW u, u.op = t.op, u.out = t.out,
           u.req = t.req, u.pc # "saveRow", t.op # "wstat"
    PROVE  ReportShape(u)
  BY DEF ReportShape

LEMMA HandlerReports ==
    ASSUME TypeInv, ReportsShaped, NEW p \in Procs, HandlerStep(p)
    PROVE  ReportShape(task'[p])
<1>t. task[p] \in Tasks \union {Idle} /\ task \in [Procs -> Tasks \union {Idle}]
  BY DEF TypeInv, TypeOK, WebOK
<1>i. ReportShape(Idle)
  BY DEF ReportShape, Idle, NoReq
<1>1. SUFFICES ASSUME task'[p] # Idle PROVE ReportShape(task'[p])
  BY <1>i
<1>2. /\ task'[p].op = task[p].op /\ task'[p].out = task[p].out
      /\ task'[p].req = task[p].req
  BY <1>1, HandlerStepMoves DEF HandlerMoves
<1>3. ~End(p) /\ ~(task' = [task EXCEPT ![p] = Idle])
  BY <1>1, <1>t DEF End, Goto
<1>4. ASSUME NEW pc, To(p, pc), pc # "saveRow"
      PROVE  task'[p].pc # "saveRow"
  BY <1>4, <1>t DEF To, Goto, Tasks, Idle
<1>5. task'[p].pc # "saveRow"
  <2>1. CASE \/ StartMark(p) \/ StartCount(p) \/ MakeCheck(p) \/ MakeInsert(p)
             \/ StartConfig(p) \/ StartPod(p) \/ StartFail(p)
             \/ WriteJob(p) \/ SaveRow(p) \/ EventCount(p) \/ EnqueueStart(p)
    BY <2>1, <1>3, <1>4
       DEF StartMark, StartCount, MakeCheck, MakeInsert, StartConfig, StartPod,
           StartFail, WriteJob, SaveRow, EventCount, EnqueueStart
  <2>2. ASSUME NEW rows, NextWorker(p, rows)
        PROVE  task'[p].pc # "saveRow"
    <3>1. PICK r \in rows :
             Goto(p, [task[p] EXCEPT !.pc = "config", !.cur = r,
                                     !.todo = rows \ {r}])
      BY <1>3, <2>2 DEF NextWorker
    <3> DEFINE t == [task[p] EXCEPT !.pc = "config", !.cur = r,
                                    !.todo = rows \ {r}]
    <3>2. t.pc = "config" /\ task'[p] = t
      BY <1>t, <3>1 DEF Goto, Tasks, Idle
    <3> QED
      BY <3>2
  <2>3. CASE StartList(p) \/ StartSave(p)
    BY <1>3, <2>2, <2>3 DEF StartList, StartSave
  <2>4. ASSUME AfterStop(p)
        PROVE  task'[p].pc # "saveRow"
    <3> DEFINE t == [task[p] EXCEPT !.pc = "write", !.cur = NoRow]
    <3>1. t.pc = "write" /\ Goto(p, t)
      BY <1>3, <1>t, <2>4 DEF Tasks, Idle, AfterStop
    <3>2. task'[p] = t
      BY <3>1, <1>t DEF Goto
    <3> QED
      BY <3>1, <3>2
  <2>5. CASE StopList(p)
    <3> DEFINE rows == {r \in JobWorkers : ~Spared(task[p].op, r)}
               t == [task[p] EXCEPT !.pc = "stopPod", !.todo = rows]
    <3>1. AfterStop(p) \/ Goto(p, t)
      BY <2>5 DEF StopList
    <3> HIDE DEF rows
    <3>2. t.pc = "stopPod"
      BY <1>t DEF Tasks, Idle
    <3>3. Goto(p, t) => task'[p] = t
      BY <1>t DEF Goto
    <3> QED
      BY <2>4, <3>1, <3>2, <3>3
  <2>6. CASE StopPod(p)
    <3>1. PICK r \in task[p].todo :
             Goto(p, [task[p] EXCEPT !.pc = "stopCm", !.cur = r,
                                     !.todo = @ \ {r}])
      BY <2>6 DEF StopPod
    <3> DEFINE t == [task[p] EXCEPT !.pc = "stopCm", !.cur = r, !.todo = @ \ {r}]
    <3>2. t.pc = "stopCm" /\ task'[p] = t
      BY <1>t, <3>1 DEF Goto, Tasks, Idle
    <3> QED
      BY <3>2
  <2>7. CASE StopCm(p)
    BY <1>4, <2>4, <2>7 DEF StopCm
  <2>8. CASE EventJob(p)
    <3>1. task[p].op \in {"event", "image"}
      BY <2>8 DEF EventJob, TypeInv, ShapeOK, Shaped
    <3>2. To(p, "write") \/ To(p, "evCount")
      BY <1>3, <2>8, <3>1 DEF EventJob, JobExists
    <3> QED
      BY <1>4, <3>2
  <2> QED
    BY <2>1, <2>3, <2>5, <2>6, <2>7, <2>8 DEF HandlerStep
<1>6. task[p].op # "wstat"
  <2>1. SUFFICES ASSUME task[p].op = "wstat" PROVE FALSE
    OBVIOUS
  <2>2. task[p].pc = "saveRow"
    BY <2>1 DEF ReportsShaped, ReportShape
  <2>3. SaveRow(p)
    BY <2>1, <2>2 DEF HandlerStep, EnqueueStart, StartMark, StartCount,
       MakeCheck, MakeInsert, StartList, StartConfig, StartPod, StartSave,
       StartFail, StopList, StopPod, StopCm, WriteJob, EventJob, EventCount, At
  <2> QED
    BY <1>3, <2>1, <2>3 DEF SaveRow
<1>7. task[p] \in Tasks /\ ReportShape(task[p])
  <2>1. task[p].pc # "idle"
    BY HandlerStepMoves DEF HandlerStep, EnqueueStart, StartMark, StartCount,
       MakeCheck, MakeInsert, StartList, StartConfig, StartPod, StartSave,
       StartFail, StopList, StopPod, StopCm, WriteJob, SaveRow, EventJob,
       EventCount, At
  <2> QED
    BY <1>t, <2>1 DEF ReportsShaped, Idle
<1> QED
  BY <1>2, <1>5, <1>6, <1>7, GoesUnreported

LEMMA NextReportsShaped ==
    ASSUME TypeInv, ReportsShaped, [Next]_vars
    PROVE  ReportsShaped'
<1> SUFFICES ASSUME NEW q \in Procs PROVE ReportShape(task'[q])
  BY DEF ReportsShaped
<1>t. task \in [Procs -> Tasks \union {Idle}]
  BY DEF TypeInv, TypeOK, WebOK
<1>i. ReportShape(Idle)
  BY DEF ReportShape, Idle, NoReq
<1>h. ASSUME NEW op, NEW pc, NEW cur, NEW out
      PROVE  op # "wstat" /\ pc # "saveRow"
               => ReportShape(Handler(op, pc, cur, out, NoReq))
  BY DEF ReportShape, Handler, NoReq
<1>1. CASE task'[q] = task[q]
  BY <1>1 DEF ReportsShaped
<1>2. CASE HandlerStep(q)
  BY <1>2, HandlerReports
<1>3. CASE CancelJob(q) \/ CleanJob(q) \/ EditJob(q)
  BY <1>3, <1>h, UserTaken
<1>4. ASSUME NEW m \in Requests, HandleRequest(q, m)
      PROVE  ReportShape(task'[q])
  <2>1. m.st \in {"RUNNING", "FINISHED", "FAILURE"}
    BY DEF Requests
  <2>2. m.kind = "wstat" => ReportShape(Handler("wstat", "saveRow", m.row, m.st, m))
    BY <2>1 DEF ReportShape, Handler
  <2>3. m.kind # "wstat" =>
           /\ ReportShape(Handler("jstat", "write", NoRow, m.st, m))
           /\ ReportShape(Handler("finish", "write", NoRow, m.st, m))
    BY DEF ReportShape, Handler
  <2> QED
    BY <1>4, <1>i, <2>2, <2>3, RequestTaken
<1>5. ASSUME NEW e \in Events, ProcessEvent(q, e)
      PROVE  ReportShape(task'[q])
  <2>1. ASSUME NEW op \in {"event", "image"}, NEW out \in {"FINISHED", "FAILURE"}
        PROVE  ReportShape(Handler(op, "saveRow", e.row, out, NoReq))
    BY DEF ReportShape, Handler, NoReq
  <2> QED
    BY <1>5, <1>i, <2>1, EventTaken
<1>6. CASE CreateJob(q) \/ StartJob(q) \/ StartAvesjob(q)
  BY <1>6, <1>h, <1>i, <1>t
     DEF CreateJob, StartJob, StartAvesjob, Begin, StartHandler
<1>7. CASE Crash(q)
  BY <1>7, <1>i, <1>t DEF Crash, End, Goto
<1> QED
  BY <1>1, <1>2, <1>3, <1>4, <1>5, <1>6, <1>7, TaskSteps DEF OwnStep

\* Somebody is about to write s as the job's status, or has.
Source(s) ==
    \/ job = s
    \/ \E m \in inbox : m.kind # "wstat" /\ m.st = s
    \/ \E p \in Procs : task[p].op # "wstat" /\ task[p].out = s

\* What a request of the scripts says of the job, and who sends it.
LEMMA StatusSent ==
    ASSUME TypeInv, [Next]_vars, NEW m \in inbox', m.kind # "wstat",
           NEW s \in {"RUNNING", "FINISHED"}, m.st = s
    PROVE  \/ m \in inbox
           \/ s = "RUNNING" /\ \E n \in Names : Rendezvous(n) /\ Reporter(n)
           \/ s = "FINISHED" /\ \E n \in Names : /\ ReportResult(n) /\ Reporter(n)
                                                /\ script[n] = "won"
<1> SUFFICES ASSUME m \notin inbox
             PROVE  \/ s = "RUNNING" /\ \E n \in Names : Rendezvous(n) /\ Reporter(n)
                    \/ s = "FINISHED" /\ \E n \in Names :
                          ReportResult(n) /\ Reporter(n) /\ script[n] = "won"
  OBVIOUS
<1>1. PICK n \in Names : ScriptOwn(n)
  BY InboxSteps
<1>2. ASSUME NEW kind, NEW st, Report(n, kind, st)
      PROVE  m.kind = kind /\ m.st = st
  BY <1>2 DEF Report
<1>3. CASE \/ PodStarts(n) \/ PodDies(n) \/ ScriptEnds(n) \/ Prepare(n)
           \/ StartMpi(n)
  BY <1>3 DEF PodStarts, PodDies, ScriptEnds, Prepare, StartMpi, Quietly, web
<1>4. CASE \/ ReportWorkerRunning(n) \/ ReportBroken(n) \/ TrainWon(n)
           \/ TrainLost(n) \/ Breaks(n)
  BY <1>2, <1>4 DEF ReportWorkerRunning, ReportBroken, TrainWon, TrainLost,
                    Breaks
<1>5. CASE Rendezvous(n)
  <2>1. Reporter(n) /\ Report(n, "jstat", "RUNNING")
    BY <1>5 DEF Rendezvous, Quietly
  <2> QED
    BY <1>2, <1>5, <2>1
<1>6. CASE ReportResult(n)
  <2>1. /\ Reporter(n)
        /\ \/ script[n] = "won" /\ Report(n, "jres", "FINISHED")
           \/ Report(n, "jres", "FAILURE")
    BY <1>6 DEF ReportResult, Quietly, Moves
  <2> QED
    BY <1>2, <1>6, <2>1
<1> QED
  BY <1>1, <1>3, <1>4, <1>5, <1>6 DEF ScriptOwn

\* RUNNING comes from a reporter whose peers are there, FINISHED from one
\* that has won, or from the event of a pod whose row is still active.
LEMMA SourceFrom ==
    ASSUME TypeInv, ReportsShaped, [Next]_vars,
           NEW s \in {"RUNNING", "FINISHED"}, Source(s)'
    PROVE  \/ Source(s)
           \/ s = "RUNNING" /\ \E n \in Names : Rendezvous(n) /\ Reporter(n)
           \/ s = "FINISHED" /\ \E n \in Names : /\ ReportResult(n) /\ Reporter(n)
                                                /\ script[n] = "won"
           \/ s = "FINISHED" /\ \E e \in events : /\ e.kind = "Succeeded"
                                                 /\ wst[e.row] \in Active
<1> DEFINE G == \/ Source(s)
                \/ s = "RUNNING" /\ \E n \in Names : Rendezvous(n) /\ Reporter(n)
                \/ s = "FINISHED" /\ \E n \in Names : /\ ReportResult(n) /\ Reporter(n)
                                                     /\ script[n] = "won"
                \/ s = "FINISHED" /\ \E e \in events : /\ e.kind = "Succeeded"
                                                      /\ wst[e.row] \in Active
<1>t. task \in [Procs -> Tasks \union {Idle}]
  BY DEF TypeInv, TypeOK, WebOK
<1>1. CASE job' = s
  <2>1. CASE job' = job
    BY <1>1, <2>1 DEF Source
  <2>2. ASSUME NEW p \in Procs, WriteJob(p)
        PROVE  G
    <3>1. task[p].op # "wstat" /\ task[p].out = s
      BY <1>1, <2>2 DEF WriteJob, SaveJob, ReportsShaped, ReportShape
    <3> QED
      BY <3>1 DEF Source
  <2>3. ASSUME NEW p \in Procs,
               DestroyJob \/ CreateJob(p) \/ StartMark(p) \/ StartFail(p)
        PROVE  FALSE
    BY <1>1, <2>3 DEF DestroyJob, DeleteJob, CreateJob, StartMark, StartFail,
                      SaveJob
  <2>4. ~DestroyJob
    BY <1>1 DEF DestroyJob, DeleteJob
  <2> QED
    BY <2>1, <2>2, <2>3, <2>4, JobSteps
<1>2. ASSUME NEW m \in inbox', m.kind # "wstat", m.st = s
      PROVE  G
  BY <1>2, StatusSent DEF Source
<1>3. ASSUME NEW q \in Procs, task'[q].op # "wstat", task'[q].out = s
      PROVE  G
  <2>1. CASE task'[q] = task[q]
    BY <1>3, <2>1 DEF Source
  <2>2. CASE HandlerStep(q)
    BY <1>3, <2>2, HandlerStepMoves DEF HandlerMoves, Source, Idle
  <2>h. \A op, pc, cur, out, req :
           /\ Handler(op, pc, cur, out, req).op = op
           /\ Handler(op, pc, cur, out, req).out = out
    BY DEF Handler
  <2>3. CASE CancelJob(q) \/ CleanJob(q) \/ EditJob(q)
    BY <1>3, <2>3, <2>h, UserTaken DEF Source
  <2>4. ASSUME NEW m \in Requests, HandleRequest(q, m)
        PROVE  G
    BY <1>3, <2>4, <2>h, RequestTaken DEF Source, Idle
  <2>5. ASSUME NEW e \in Events, ProcessEvent(q, e)
        PROVE  G
    BY <1>3, <2>5, <2>h, EventTaken DEF Idle
  <2>6. CASE CreateJob(q) \/ StartJob(q) \/ StartAvesjob(q)
    BY <1>3, <2>6, <2>h, <1>t
       DEF CreateJob, StartJob, StartAvesjob, Begin, StartHandler, Idle
  <2>7. CASE Crash(q)
    BY <1>3, <2>7, <1>t DEF Crash, End, Goto, Idle
  <2> QED
    BY <2>1, <2>2, <2>3, <2>4, <2>5, <2>6, <2>7, TaskSteps DEF OwnStep
<1> QED
  BY <1>1, <1>2, <1>3 DEF Source

-----------------------------------------------------------------------------
(* A job is RUNNING when its start has no pod left to create.              *)

\* bulk_create makes a row for every pod.
AllRows ==
    ~Spent("destroy") /\ made > 0 => \A n \in Names : <<n, 1>> \in JobWorkers

\* Whoever tells that the job runs has seen all of its pods.
Together ==
    Distributed /\ ~Spent("start") /\ ~Spent("destroy") /\ Source("RUNNING")
       => Names # {} /\ \A n \in Names : ~NotYet(n)

TogetherInv == /\ StartInv
               /\ NothingDangles
               /\ ReportsShaped
               /\ AllRows
               /\ Together

\* distribute_envs answers when every worker has its pod.
LEMMA ReadyTogether ==
    ASSUME TogetherInv, ~Spent("start"), ~Spent("destroy"), DistReady
    PROVE  Names # {} /\ \A n \in Names : ~NotYet(n)
<1> DEFINE mine == {n \in Names : pod[n].row \in Rows}
           f == [n \in Names |-> <<n, 1>>]
<1>t. /\ TypeInv /\ made \in Nat /\ StartAlone /\ RowsMade
      /\ \A r \in Rows : r[2] \in Nat \ {0} /\ r = <<NameOf(r), r[2]>>
                         /\ NameOf(r) \in Names
  BY StoreAssumption
     DEF TogetherInv, StartInv, AloneInv, TypeInv, TypeOK, StoreOK, Rows, NameOf
<1>1. /\ mine # {} /\ Cardinality(mine) = Cardinality(JobWorkers)
      /\ \A n \in mine : pod[n].phase = "running"
  BY DEF DistReady
<1>2. PICK n \in mine : TRUE
  BY <1>1
<1>3. pod[n].row \in JobWorkers
  BY <1>2, StoreAssumption DEF TogetherInv, NothingDangles, JobWorkers
<1>4. made = 1
  <2>1. pod[n].row[2] <= made /\ made <= 1
    BY <1>t, <1>3 DEF RowsMade, JobWorkers, StartAlone
  <2>2. pod[n].row[2] \in Nat \ {0}
    BY <1>t, <1>3 DEF JobWorkers
  <2> QED
    BY <1>t, <2>1, <2>2
<1>5. \A r \in JobWorkers : r = <<NameOf(r), 1>> /\ NameOf(r) \in Names
  <2> SUFFICES ASSUME NEW r \in JobWorkers
               PROVE  r = <<NameOf(r), 1>> /\ NameOf(r) \in Names
    OBVIOUS
  <2>1. r \in Rows /\ r[2] <= 1
    BY <1>t, <1>4 DEF RowsMade, JobWorkers
  <2>2. r[2] = 1
    BY <1>t, <2>1
  <2> QED
    BY <1>t, <2>1, <2>2
<1>6. \A k \in Names : <<k, 1>> \in JobWorkers
  <2>1. made > 0
    BY <1>4
  <2> QED
    BY <2>1 DEF TogetherInv, AllRows
<1>7. f \in Bijection(Names, JobWorkers)
  <2>1. f \in [Names -> JobWorkers]
    BY <1>6
  <2>2. \A a, b \in Names : f[a] = f[b] => a = b
    OBVIOUS
  <2>3. \A r \in JobWorkers : \E k \in Names : f[k] = r
    BY <1>5
  <2> QED
    BY <2>1, <2>2, <2>3 DEF Bijection, Injection, Surjection, IsInjective
<1>8. Cardinality(JobWorkers) = Cardinality(Names)
  <2>1. ExistsBijection(Names, JobWorkers)
    BY <1>7 DEF ExistsBijection
  <2> QED
    BY <2>1, StoreAssumption, FS_Bijection
<1>9. mine = Names
  <2>1. mine \in SUBSET Names
    OBVIOUS
  <2> HIDE DEF mine
  <2> QED
    BY <1>1, <1>8, <2>1, StoreAssumption, FS_Subset
<1>10. \A k \in Names : pod[k].phase = "running"
  BY <1>1, <1>9
<1> QED
  BY <1>2, <1>10 DEF TogetherInv, StartInv

LEMMA TogetherCorrect == Spec => []TogetherInv
<1>1. StartInv /\ NothingDangles /\ Init => TogetherInv
  BY DEF Init, StoreInit, WebInit, TogetherInv, ReportsShaped, ReportShape,
         AllRows, Together, Source, Idle, NoReq
<1>2. StartInv' /\ NothingDangles' /\ TogetherInv /\ [Next]_vars => TogetherInv'
  <2> SUFFICES ASSUME StartInv', NothingDangles', TogetherInv, [Next]_vars
               PROVE  TogetherInv'
    OBVIOUS
  <2>t. TypeInv /\ BudgetBound /\ made \in Nat /\ wst \in [Rows -> Statuses \union {Absent}]
    BY DEF TogetherInv, StartInv, AloneInv, TypeInv, TypeOK, StoreOK
  <2>k. /\ ~Spent("destroy")' => ~Spent("destroy") /\ ~DestroyJob
        /\ ~Spent("start")' => ~Spent("start")
    BY <2>t, BudgetShrinks, SpendSpent DEF Kinds, UserKinds, DestroyJob
  <2>1. ReportsShaped'
    BY <2>t, NextReportsShaped DEF TogetherInv
  <2>2. ASSUME ~Spent("destroy")', made' > 0, NEW n \in Names
        PROVE  <<n, 1>> \in JobWorkers'
    <3>1. CASE made > 0
      <4>1. JobWorkers \subseteq JobWorkers'
        BY <2>2, <2>k, <2>t, RowsGrow
      <4> QED
        BY <2>2, <2>k, <3>1, <4>1 DEF TogetherInv, AllRows
    <3>2. CASE ~(made > 0)
      <4>1. RowsAreMade
        BY <2>2, <2>t, <2>k, <3>2, NextStore
           DEF StoreStep, JobIsSaved, RowIsSaved, store
      <4>2. made = 0
        BY <2>t, <3>2
      <4>3. <<n, 1>> \in Rows /\ <<n, 1>>[2] = 1
        <5>1. 1 \in 1 .. MaxMakes
          BY StoreAssumption
        <5> QED
          BY <5>1 DEF Rows
      <4>4. wst'[<<n, 1>>] = "NEW"
        BY <4>1, <4>2, <4>3 DEF RowsAreMade, MakeWorkers
      <4> QED
        BY <4>3, <4>4 DEF JobWorkers
    <3> QED
      BY <3>1, <3>2
  <2>3. ASSUME Distributed, ~Spent("start")', ~Spent("destroy")',
               Source("RUNNING")'
        PROVE  Names # {} /\ \A n \in Names : ~NotYet(n)'
    <3>1. Source("RUNNING") \/ DistReady
      <4>1. \/ Source("RUNNING")
            \/ \E n \in Names : Rendezvous(n) /\ Reporter(n)
        BY <2>t, <2>3, SourceFrom DEF TogetherInv
      <4> QED
        BY <2>3, <4>1 DEF Rendezvous
    <3>2. Names # {} /\ \A n \in Names : ~NotYet(n)
      BY <2>3, <2>k, <3>1, ReadyTogether DEF TogetherInv, Together
    <3> QED
      BY <2>3, <2>t, <3>2, NotYetShrinks
  <2>4. AllRows'
    BY <2>2 DEF AllRows
  <2>5. Together'
    BY <2>3 DEF Together, Distributed
  <2> QED
    BY <2>1, <2>4, <2>5 DEF TogetherInv
<1> QED
  BY <1>1, <1>2, StartInvCorrect, NothingDanglesCorrect, PTL DEF Spec

\* A distributed job is told RUNNING only when the loop of AvesJob.start has
\* no pod left to create: the main node reports it after distribute_envs has
\* seen as many running pods as there are worker rows, all rows are made at
\* once, and no pod is created twice in the first run of a job.
THEOREM RunningAfterStartCorrect == Spec => []RunningAfterStart
<1>1. TogetherInv => RunningAfterStart
  <2> SUFFICES ASSUME TogetherInv, Distributed, job = "RUNNING",
                      ~Spent("start"), ~Spent("destroy"),
                      NEW p \in Procs, Starting(p)
               PROVE  task[p].pc = "save" /\ task[p].todo = {}
    BY DEF RunningAfterStart
  <2>1. Names # {} /\ \A n \in Names : ~NotYet(n)
    BY DEF TogetherInv, Together, Source
  <2>2. PICK k \in Names : TRUE
    BY <2>1
  <2>3. \A n \in Names : ~Awaited(task[p], n)
    BY <2>1 DEF NotYet
  <2>4. task[p].pc \in {"config", "pod", "save", "fail"} /\ task[p].cur # NoRow
    BY <2>2, <2>3 DEF Awaited, Starting
  <2>5. task[p] \in Tasks
    BY DEF TogetherInv, StartInv, AloneInv, TypeInv, TypeOK, WebOK, Starting, Idle
  <2>6. /\ task[p].cur \in Rows /\ task[p].todo \subseteq Rows
        /\ \A r \in Rows : NameOf(r) \in Names
    BY <2>4, <2>5 DEF Tasks, Rows, NameOf
  <2>7. task[p].pc = "save"
    BY <2>3, <2>6 DEF Awaited, Starting
  <2>8. task[p].todo = {}
    BY <2>3, <2>6 DEF Awaited, Starting
  <2> QED
    BY <2>7, <2>8
<1> QED
  BY <1>1, TogetherCorrect, PTL

-----------------------------------------------------------------------------
(* What a step does to rows, requests and events.                          *)

\* The workers' rows are written by these alone.
LEMMA RowSteps ==
    ASSUME TypeInv, [Next]_vars, wst' # wst
    PROVE  \/ DestroyJob
           \/ \E p \in Procs : MakeInsert(p) \/ StartSave(p) \/ SaveRow(p)
<1>1. CASE UserStep
  BY <1>1 DEF UserStep, CreateJob, StartJob, CancelJob, CleanJob, EditJob, store
<1>2. ASSUME NEW p \in Procs, HandlerStep(p)
      PROVE  MakeInsert(p) \/ StartSave(p) \/ SaveRow(p)
  BY <1>2 DEF HandlerStep, EnqueueStart, StartMark, StartCount, MakeCheck,
              StartList, StartConfig, StartPod, StartFail, StopList, StopPod,
              StopCm, WriteJob, EventJob, EventCount, store
<1>3. CASE \/ TakeMessage
           \/ \E o \in Requests : TakeRequest(o)
           \/ \E e \in Events : TakeEvent(e)
  BY <1>3 DEF TakeMessage, TakeRequest, TakeEvent, StartAvesjob,
              HandleRequest, ProcessEvent, store
<1>4. ASSUME NEW n \in Names, ScriptStep(n) \/ TrainStep(n) \/ KubeletStep(n)
      PROVE  UNCHANGED wst
  BY <1>4 DEF ScriptStep, TrainStep, KubeletStep, ReportWorkerRunning,
              Rendezvous, Prepare, StartMpi, ReportResult, ReportBroken,
              TrainWon, TrainLost, ScriptEnds, PodStarts, PodGoes, PodDies,
              ScriptFrame, store
<1>5. CASE Fault
  BY <1>5 DEF Fault, Crash, Breaks, ImageFails, PodDies, ReportTimesOut,
              ReportLost, EventDropped, WatchAgain, ScriptFrame, store
<1> QED
  BY <1>1, <1>2, <1>3, <1>4, <1>5 DEF Next, vars, store

\* A row that is not there yet is the only one to become NEW.
LEMMA NewRows ==
    ASSUME TypeInv, RowsMade, ReportsShaped, [Next]_vars,
           NEW r \in Rows, wst[r] \in Terminal
    PROVE  wst'[r] # "NEW"
<1>t. /\ wst \in [Rows -> Statuses \union {Absent}] /\ made \in Nat
      /\ r[2] \in Nat /\ r[2] <= made
  BY StoreAssumption DEF TypeInv, TypeOK, StoreOK, RowsMade, Rows, Terminal
<1>1. CASE UNCHANGED wst
  BY <1>1 DEF Terminal
<1>2. CASE DestroyJob
  BY <1>2 DEF DestroyJob, DeleteJob
<1>3. ASSUME NEW p \in Procs, MakeInsert(p), ~UNCHANGED wst
      PROVE  wst'[r] # "NEW"
  <2>1. wst'[r] = IF r[2] = made + 1 THEN "NEW" ELSE wst[r]
    BY <1>3 DEF MakeInsert, MakeWorkers, store
  <2>2. r[2] # made + 1
    BY <1>t
  <2> QED
    BY <2>1, <2>2 DEF Terminal
<1>4. ASSUME NEW p \in Procs, StartSave(p)
      PROVE  wst'[r] # "NEW"
  BY <1>4, <1>t DEF StartSave, SaveWorker, Terminal
<1>5. ASSUME NEW p \in Procs, SaveRow(p)
      PROVE  wst'[r] # "NEW"
  <2>1. task[p].out # "NEW"
    BY <1>5 DEF SaveRow, ReportsShaped, ReportShape
  <2> QED
    BY <1>5, <1>t, <2>1 DEF SaveRow, SaveWorker, Terminal
<1> QED
  BY <1>1, <1>2, <1>3, <1>4, <1>5, RowSteps

\* A request leaves the inbox when it is taken or lost.
LEMMA InboxLoses ==
    ASSUME TypeInv, [Next]_vars, NEW m \in inbox, m \notin inbox'
    PROVE  m \in Requests /\ (ReportLost(m) \/ \E p \in Procs : HandleRequest(p, m))
<1>t. m \in Requests
  BY DEF TypeInv, TypeOK, WebOK
<1>1. CASE UserStep
  BY <1>1 DEF UserStep, DestroyJob, CreateJob, StartJob, CancelJob, CleanJob,
              EditJob, web
<1>2. ASSUME NEW p \in Procs, HandlerStep(p)
      PROVE  FALSE
  BY <1>2, HandlerStepMoves DEF HandlerMoves
<1>3. ASSUME NEW o \in Requests, NEW p \in Procs, HandleRequest(p, o)
      PROVE  HandleRequest(p, m)
  <2>1. o = m
    BY <1>3 DEF HandleRequest
  <2> QED
    BY <1>3, <2>1
<1>4. CASE TakeMessage \/ \E e \in Events : TakeEvent(e)
  BY <1>4 DEF TakeMessage, TakeEvent, StartAvesjob, ProcessEvent
<1>5. ASSUME NEW n \in Names, ScriptStep(n) \/ TrainStep(n) \/ KubeletStep(n)
      PROVE  FALSE
  BY <1>5 DEF ScriptStep, TrainStep, KubeletStep, ReportWorkerRunning,
              Rendezvous, Prepare, StartMpi, ReportResult, ReportBroken,
              TrainWon, TrainLost, ScriptEnds, PodStarts, PodGoes, PodDies,
              ScriptFrame, Report, Quietly, web
<1>6. ASSUME NEW o \in Requests, ReportLost(o)
      PROVE  o = m
  BY <1>6 DEF ReportLost
<1>7. CASE Fault
  BY <1>6, <1>7 DEF Fault, Crash, End, Goto, Breaks, Report, ImageFails,
                    PodDies, ReportTimesOut, EventDropped, WatchAgain,
                    ScriptFrame, web
<1> QED
  BY <1>t, <1>1, <1>2, <1>3, <1>4, <1>5, <1>7 DEF Next, TakeRequest, vars, web

\* A response is no longer awaited when it is given, or when the script that
\* waits is gone.
LEMMA WaitingLoses ==
    ASSUME TypeInv, [Next]_vars, NEW m \in waiting, m \notin waiting'
    PROVE  \/ \E p \in Procs : HandlerStep(p) /\ task[p].req = m
                               /\ task'[p] = Idle
           \/ \E p \in Procs : Crash(p)
           \/ \E p \in Procs : m \in Requests /\ HandleRequest(p, m)
                               /\ task'[p] = Idle
           \/ \E n \in Names : PodDies(n) /\ m.row = pod[n].row
           \/ ReportTimesOut(m) \/ ReportLost(m)
<1>1. CASE UserStep
  BY <1>1 DEF UserStep, DestroyJob, CreateJob, StartJob, CancelJob, CleanJob,
              EditJob, web
<1>2. ASSUME NEW p \in Procs, HandlerStep(p)
      PROVE  task[p].req = m /\ task'[p] = Idle
  BY <1>2, HandlerStepMoves DEF HandlerMoves
<1>3. ASSUME NEW o \in Requests, NEW p \in Procs, HandleRequest(p, o)
      PROVE  HandleRequest(p, m) /\ task'[p] = Idle /\ m \in Requests
  <2>1. task'[p] = Idle /\ waiting' = waiting \ {o}
    BY <1>3, RequestTaken
  <2>2. o = m
    BY <2>1
  <2> QED
    BY <1>3, <2>1, <2>2
<1>4. CASE TakeMessage \/ \E e \in Events : TakeEvent(e)
  BY <1>4 DEF TakeMessage, TakeEvent, StartAvesjob, ProcessEvent
<1>5. ASSUME NEW n \in Names, PodDies(n)
      PROVE  m.row = pod[n].row
  BY <1>5 DEF PodDies
<1>6. ASSUME NEW n \in Names, ScriptStep(n) \/ TrainStep(n) \/ KubeletStep(n)
      PROVE  PodDies(n)
  BY <1>6 DEF ScriptStep, TrainStep, KubeletStep, ReportWorkerRunning,
              Rendezvous, Prepare, StartMpi, ReportResult, ReportBroken,
              TrainWon, TrainLost, ScriptEnds, PodStarts, PodGoes,
              ScriptFrame, Report, Quietly, web
<1>7. ASSUME NEW o \in Requests, ReportLost(o) \/ ReportTimesOut(o)
      PROVE  o = m
  BY <1>7 DEF ReportLost, ReportTimesOut
<1>8. CASE Fault
  <2>1. CASE \E p \in Procs : Crash(p)
    BY <2>1
  <2>2. CASE ~ \E p \in Procs : Crash(p)
    BY <1>5, <1>7, <1>8, <2>2 DEF Fault, Breaks, Report, ImageFails,
                                  EventDropped, WatchAgain, ScriptFrame, web
  <2> QED
    BY <2>1, <2>2
<1> QED
  BY <1>1, <1>2, <1>3, <1>4, <1>5, <1>6, <1>8 DEF Next, TakeRequest, vars, web

\* An event tells the end of a pod, or that it cannot be started.
LEMMA EventSteps ==
    ASSUME TypeInv, [Next]_vars, NEW e \in events', e \notin events
    PROVE  \E n \in Names :
              /\ e.row = pod[n].row
              /\ \/ e.kind = "Succeeded" /\ ScriptEnds(n)
                 \/ e.kind = "Failed" /\ PodDies(n)
                 \/ e.kind = "ImageError" /\ ImageFails(n)
                 \/ e.kind = "Succeeded" /\ pod[n].phase = "succeeded" /\ WatchAgain
                 \/ e.kind = "Failed" /\ pod[n].phase = "failed" /\ WatchAgain
<1>1. ASSUME NEW n \in Names,
             \/ PodStarts(n) \/ PodGoes(n) \/ PodDies(n)
             \/ ScriptEnds(n) \/ ImageFails(n)
      PROVE  /\ e.row = pod[n].row
             /\ \/ e.kind = "Succeeded" /\ ScriptEnds(n)
                \/ e.kind = "Failed" /\ PodDies(n)
                \/ e.kind = "ImageError" /\ ImageFails(n)
  BY <1>1 DEF PodStarts, PodGoes, PodDies, ScriptEnds, ImageFails, PodRuns,
              PodRemoved, PodKilled, PodExits, ImageError
<1>2. CASE WatchAgain
  BY <1>2 DEF WatchAgain, Resync
<1>3. ASSUME \/ \E p \in Procs : StartConfig(p) \/ StartPod(p) \/ StopPod(p)
                                 \/ StopCm(p)
             \/ \E m \in Requests, p \in Procs : HandleRequest(p, m)
             \/ \E d \in Events, p \in Procs : ProcessEvent(p, d)
             \/ \E m \in Requests : ReportLost(m)
             \/ \E d \in Events : EventDropped(d)
             \/ UNCHANGED events
      PROVE  FALSE
  BY <1>3 DEF StartConfig, StartPod, StopPod, StopCm, HandleRequest,
              ProcessEvent, ReportLost, ScriptFrame, EventDropped, EventLost,
              cluster
<1> QED
  BY <1>1, <1>2, <1>3, StepKinds DEF Elsewhere

-----------------------------------------------------------------------------
(* What is over, of a script that runs once.                               *)

ScriptsRun == \A n \in Names : script[n] # "off" => pod[n].phase = "running"

\* A script runs in a pod that runs.
LEMMA NextScriptsRun ==
    ASSUME TypeInv, ScriptsRun, [Next]_vars
    PROVE  ScriptsRun'
<1> SUFFICES ASSUME NEW n \in Names, script'[n] # "off"
             PROVE  pod'[n].phase = "running"
  BY DEF ScriptsRun
<1>t. script \in [Names -> ScriptPcs]
  BY DEF TypeInv, TypeOK, ScriptOK
<1>1. CASE script'[n] = script[n]
  <2>1. pod[n].phase = "running"
    BY <1>1 DEF ScriptsRun
  <2>2. ~ScriptEnds(n) /\ ~PodDies(n)
    BY <1>t DEF ScriptEnds, PodDies
  <2> QED
    BY <2>1, <2>2, PodMoves DEF PodGone, PodCreated, PodGoesOn
<1>2. CASE script'[n] # script[n]
  <2>1. ScriptOwn(n)
    BY <1>2, ScriptSteps
  <2>2. CASE PodStarts(n)
    BY <2>2 DEF PodStarts, PodRuns, TypeInv, TypeOK, ClusterOK, Pods
  <2>3. CASE ScriptEnds(n) \/ PodDies(n)
    BY <1>t, <2>3 DEF ScriptEnds, PodDies
  <2>4. CASE ~(PodStarts(n) \/ ScriptEnds(n) \/ PodDies(n))
    BY <2>1, <2>4 DEF ScriptOwn, ReportWorkerRunning, Rendezvous, Prepare,
       StartMpi, ReportResult, ReportBroken, TrainWon, TrainLost, Breaks,
       Moves, ScriptFrame, cluster
  <2> QED
    BY <2>2, <2>3, <2>4
<1> QED
  BY <1>1, <1>2

\* The script of n has come to one of the steps S, and runs once.
Over(n, S) == ~NotYet(n) /\ pod[n].phase # "pending" /\ script[n] \in S

LEMMA OverStays ==
    ASSUME StartInv, [Next]_vars, ~Spent("start")', NEW n \in Names,
           NEW S \in {{"off"}, {"exit", "off"}, {"lost", "broken", "exit", "off"}},
           Over(n, S)
    PROVE  Over(n, S)'
<1>i. /\ TypeInv /\ BudgetBound
      /\ script \in [Names -> ScriptPcs]
  BY DEF StartInv, AloneInv, TypeInv, TypeOK, ScriptOK
<1>1. ~NotYet(n)'
  BY <1>i, NotYetShrinks DEF Over
<1>2. pod'[n].phase # "pending"
  <2>1. ~PodCreated(n)
    BY <1>i, CreatedOnce DEF Over
  <2> QED
    BY <1>i, <2>1, PodMoves DEF Over, PodGone, PodGoesOn, NoPod
<1>3. script'[n] \in S
  <2>1. CASE script'[n] = script[n]
    BY <2>1 DEF Over
  <2>2. CASE script'[n] # script[n]
    <3>1. ScriptOwn(n) /\ ~PodStarts(n)
      BY <2>2, <1>i, ScriptSteps DEF Over, PodStarts, PodRuns
    <3>2. script[n] \in S
      BY DEF Over
    <3>3. CASE PodDies(n) \/ ScriptEnds(n)
      BY <1>i, <3>3 DEF PodDies, ScriptEnds
    <3>4. CASE ReportResult(n) \/ ReportBroken(n)
      <4>1. script[n] \in {"won", "lost", "broken"} /\ script'[n] = "exit"
        BY <1>i, <3>4 DEF ReportResult, ReportBroken, Moves
      <4> QED
        BY <3>2, <4>1
    <3>5. CASE ~(PodDies(n) \/ ScriptEnds(n) \/ ReportResult(n) \/ ReportBroken(n))
      BY <3>1, <3>2, <3>5
         DEF ScriptOwn, ReportWorkerRunning, Rendezvous, Prepare, StartMpi,
             TrainWon, TrainLost, Breaks, Moves, TrainPc
    <3> QED
      BY <3>3, <3>4, <3>5
  <2> QED
    BY <2>1, <2>2
<1> QED
  BY <1>1, <1>2, <1>3 DEF Over

-----------------------------------------------------------------------------
(* What the requests say, and the handlers that answer them.               *)

\* What a handler writes is what its request says, or its operation.
AnswerShape(t) ==
    /\ t.op = "jstat" => t.req.kind = "jstat"
    /\ t.op = "finish" <=> t.req.kind = "jres"
    /\ t.op = "finish" => t.out = t.req.st
    /\ t.out = "STARTING" => t.op = "edit"
    /\ t.out = "RUNNING" => t.op \in {"edit", "jstat", "wstat", "finish"}
AnswersShaped == \A p \in Procs : AnswerShape(task[p])

NoEdit == ~Spent("edit") => \A p \in Procs : task[p].op # "edit"

LEMMA NextAnswersShaped ==
    ASSUME TypeInv, AnswersShaped, [Next]_vars
    PROVE  AnswersShaped'
<1> SUFFICES ASSUME NEW q \in Procs PROVE AnswerShape(task'[q])
  BY DEF AnswersShaped
<1>i. AnswerShape(Idle)
  BY DEF AnswerShape, Idle, NoReq
<1>t. task \in [Procs -> Tasks \union {Idle}]
  BY DEF TypeInv, TypeOK, WebOK
<1>1. CASE task'[q] = task[q]
  BY <1>1 DEF AnswersShaped
<1>2. CASE HandlerStep(q)
  <2>1. \/ task'[q] = Idle
        \/ /\ task'[q].op = task[q].op /\ task'[q].out = task[q].out
           /\ task'[q].req = task[q].req
    BY <1>2, HandlerStepMoves DEF HandlerMoves
  <2> QED
    BY <1>i, <2>1 DEF AnswersShaped, AnswerShape
<1>h. ASSUME NEW op \in {"create", "start", "cancel", "clean", "edit", "event", "image"},
             NEW pc, NEW cur, NEW out, out \in Active => op = "edit"
      PROVE  AnswerShape(Handler(op, pc, cur, out, NoReq))
  BY <1>h DEF AnswerShape, Handler, NoReq, Active
<1>3. CASE CancelJob(q) \/ CleanJob(q) \/ EditJob(q)
  BY <1>3, <1>h, UserTaken DEF Active
<1>4. ASSUME NEW m \in Requests, HandleRequest(q, m)
      PROVE  AnswerShape(task'[q])
  <2>1. m.st # "STARTING" /\ m.kind \in {"wstat", "jstat", "jres"}
    BY DEF Requests
  <2>2. m.kind = "wstat" => AnswerShape(Handler("wstat", "saveRow", m.row, m.st, m))
    BY <2>1 DEF AnswerShape, Handler
  <2>3. m.kind = "jstat" => AnswerShape(Handler("jstat", "write", NoRow, m.st, m))
    BY <2>1 DEF AnswerShape, Handler
  <2>4. m.kind = "jres" => AnswerShape(Handler("finish", "write", NoRow, m.st, m))
    BY <2>1 DEF AnswerShape, Handler
  <2> QED
    BY <1>4, <1>i, <2>2, <2>3, <2>4, RequestTaken
<1>5. ASSUME NEW e \in Events, ProcessEvent(q, e)
      PROVE  AnswerShape(task'[q])
  BY <1>5, <1>h, <1>i, EventTaken DEF Active
<1>6. CASE CreateJob(q) \/ StartJob(q) \/ StartAvesjob(q)
  BY <1>6, <1>h, <1>i, <1>t
     DEF CreateJob, StartJob, StartAvesjob, Begin, StartHandler, Active
<1>7. CASE Crash(q)
  BY <1>7, <1>i, <1>t DEF Crash, End, Goto
<1> QED
  BY <1>1, <1>2, <1>3, <1>4, <1>5, <1>6, <1>7, TaskSteps DEF OwnStep

LEMMA NextNoEdit ==
    ASSUME TypeInv, BudgetBound, NoEdit, [Next]_vars
    PROVE  NoEdit'
<1>k. "edit" \in Kinds
  BY DEF Kinds, UserKinds
<1> SUFFICES ASSUME ~Spent("edit")', NEW q \in Procs, task'[q].op = "edit"
             PROVE  FALSE
  BY DEF NoEdit
<1>1. task[q].op # "edit" /\ task'[q] # task[q]
  BY <1>k, BudgetShrinks DEF NoEdit
<1>2. OwnStep(q)
  BY <1>1, TaskSteps
<1>t. task \in [Procs -> Tasks \union {Idle}]
  BY DEF TypeInv, TypeOK, WebOK
<1>h. /\ \A op, pc, cur, out, req : Handler(op, pc, cur, out, req).op = op
      /\ Idle.op = "none"
  BY DEF Handler, Idle
<1>3. ~HandlerStep(q)
  BY <1>1, <1>h, HandlerStepMoves DEF HandlerMoves
<1>4. ~(CancelJob(q) \/ CleanJob(q) \/ EditJob(q))
  BY <1>k, <1>h, SpendSpent, UserTaken
<1>5. ~ \E m \in Requests : HandleRequest(q, m)
  BY <1>h, RequestTaken
<1>6. ~ \E e \in Events : ProcessEvent(q, e)
  BY <1>h, EventTaken
<1>7. ~(CreateJob(q) \/ StartJob(q) \/ StartAvesjob(q))
  BY <1>h, <1>t DEF CreateJob, StartJob, StartAvesjob, Begin, StartHandler
<1>8. ~Crash(q)
  BY <1>h, <1>t DEF Crash, End, Goto
<1> QED
  BY <1>2, <1>3, <1>4, <1>5, <1>6, <1>7, <1>8 DEF OwnStep

\* A handler under way goes on by its own steps.
LEMMA BusySteps ==
    ASSUME TypeInv, [Next]_vars, NEW p \in Procs, task[p] # Idle,
           ~Crash(p), task'[p] # task[p]
    PROVE  HandlerStep(p)
<1>1. OwnStep(p)
  BY TaskSteps
<1> QED
  BY <1>1 DEF OwnStep, CreateJob, StartJob, CancelJob, CleanJob, EditJob,
              StartAvesjob, HandleRequest, ProcessEvent, Begin

\* A request that a handler has got was taken from the inbox.
LEMMA TakesRequest ==
    ASSUME TypeInv, [Next]_vars, NEW p \in Procs, NEW m \in Requests,
           task'[p].req = m, task[p].req # m
    PROVE  HandleRequest(p, m)
<1>1. OwnStep(p)
  BY TaskSteps
<1>t. task \in [Procs -> Tasks \union {Idle}]
  BY DEF TypeInv, TypeOK, WebOK
<1>h. /\ \A op, pc, cur, out, req : Handler(op, pc, cur, out, req).req = req
      /\ Idle.req = NoReq /\ m # NoReq
  BY DEF Handler, Idle, Requests, NoReq
<1>2. ~HandlerStep(p)
  BY <1>h, HandlerStepMoves DEF HandlerMoves
<1>3. ~(CancelJob(p) \/ CleanJob(p) \/ EditJob(p))
  BY <1>h, UserTaken
<1>4. ASSUME NEW o \in Requests, HandleRequest(p, o)
      PROVE  HandleRequest(p, m)
  <2>1. o = m
    BY <1>4, <1>h, RequestTaken
  <2> QED
    BY <1>4, <2>1
<1>5. ~ \E e \in Events : ProcessEvent(p, e)
  BY <1>h, EventTaken
<1>6. ~(CreateJob(p) \/ StartJob(p) \/ StartAvesjob(p))
  BY <1>h, <1>t DEF CreateJob, StartJob, StartAvesjob, Begin, StartHandler
<1>7. ~Crash(p)
  BY <1>h, <1>t DEF Crash, End, Goto
<1> QED
  BY <1>1, <1>2, <1>3, <1>4, <1>5, <1>6, <1>7 DEF OwnStep

\* A request waits in the inbox, or a handler works on it.
Pending(m) == m \in inbox \/ \E p \in Procs : task[p].req = m

\* The report that a script sends as it comes to the step pc.
SentAt(m, pc) ==
    /\ m.kind = "jres" => pc = "exit"
    /\ m.kind = "jstat" => pc = "prep"
    /\ m.kind = "wstat" /\ m.st = "RUNNING" => pc = "sync"
    /\ m.kind = "wstat" /\ m.st # "RUNNING" => pc \in {"won", "lost", "broken"}
\* Only a reporter tells of the job, and its result is an outcome.
ToldOf(m, n) ==
    /\ m.kind = "jstat" => Reporter(n)
    /\ m.kind = "jres" => m.st # "RUNNING"

\* The script of n sends m, when it waits for nothing else.
Sends(n, m) ==
    /\ m.row = pod[n].row /\ m \in inbox' /\ m \in waiting'
    /\ pod[n].phase = "running" /\ script[n] # "off" /\ ~Awaits(n)
    /\ SentAt(m, script'[n]) /\ ToldOf(m, n)
    /\ UNCHANGED <<pod, task>>

LEMMA RequestSent ==
    ASSUME TypeInv, [Next]_vars, NEW m \in Requests, m \in inbox', m \notin inbox
    PROVE  \E n \in Names : Sends(n, m)
<1>1. PICK n \in Names : ScriptOwn(n)
  BY InboxSteps
<1>t. script \in [Names -> ScriptPcs]
  BY DEF TypeInv, TypeOK, ScriptOK
<1>2. ASSUME NEW kind, NEW st, Report(n, kind, st)
      PROVE  /\ m.row = pod[n].row /\ m.kind = kind /\ m.st = st
             /\ m \in waiting'
  BY <1>2 DEF Report
<1>3. ASSUME NEW from, NEW to, Moves(n, from, to)
      PROVE  /\ pod[n].phase = "running" /\ ~Awaits(n)
             /\ script[n] = from /\ script'[n] = to
  BY <1>3, <1>t DEF Moves
<1>4. ~Quietly
  BY DEF Quietly
<1>5. CASE PodStarts(n) \/ PodDies(n) \/ ScriptEnds(n)
  BY <1>5 DEF PodStarts, PodDies, ScriptEnds, web
<1>6. CASE Prepare(n) \/ StartMpi(n)
  BY <1>4, <1>6 DEF Prepare, StartMpi
<1>7. CASE ReportWorkerRunning(n)
  <2>1. /\ Moves(n, "boot", "sync") /\ Report(n, "wstat", "RUNNING")
        /\ UNCHANGED <<pod, task>>
    BY <1>7 DEF ReportWorkerRunning, ScriptFrame, cluster
  <2> QED
    BY <1>2, <1>3, <2>1 DEF Sends, SentAt, ToldOf
<1>8. CASE Rendezvous(n)
  <2>1. /\ Moves(n, "sync", "prep") /\ Report(n, "jstat", "RUNNING")
        /\ Reporter(n) /\ UNCHANGED <<pod, task>>
    BY <1>4, <1>8 DEF Rendezvous, ScriptFrame, cluster
  <2> QED
    BY <1>2, <1>3, <2>1 DEF Sends, SentAt, ToldOf
<1>9. CASE ReportResult(n) \/ ReportBroken(n)
  <2>1. PICK from \in {"won", "lost", "broken"}, st \in {"FINISHED", "FAILURE"} :
           /\ Moves(n, from, "exit") /\ Report(n, "jres", st)
           /\ UNCHANGED <<pod, task>>
    BY <1>4, <1>9 DEF ReportResult, ReportBroken, ScriptFrame, cluster
  <2> QED
    BY <1>2, <1>3, <2>1 DEF Sends, SentAt, ToldOf
<1>10. CASE TrainWon(n) \/ TrainLost(n)
  <2>1. PICK to \in {"won", "lost"}, st \in {"FINISHED", "FAILURE"} :
           /\ Moves(n, TrainPc, to) /\ Report(n, "wstat", st)
           /\ UNCHANGED <<pod, task>>
    BY <1>10 DEF TrainWon, TrainLost, ScriptFrame, cluster
  <2>2. TrainPc # "off"
    BY DEF TrainPc
  <2> QED
    BY <1>2, <1>3, <2>1, <2>2 DEF Sends, SentAt, ToldOf
<1>11. CASE Breaks(n)
  <2>1. PICK from \in {"sync", "prep", TrainPc} :
           /\ Moves(n, from, "broken") /\ Report(n, "wstat", "FAILURE")
           /\ UNCHANGED <<pod, task>>
    BY <1>11 DEF Breaks, ScriptFrame, cluster
  <2>2. TrainPc # "off"
    BY DEF TrainPc
  <2> QED
    BY <1>2, <1>3, <2>1, <2>2 DEF Sends, SentAt, ToldOf
<1> QED
  BY <1>1, <1>5, <1>6, <1>7, <1>8, <1>9, <1>10, <1>11 DEF ScriptOwn

\* A request that begins to be pending has just been sent.
LEMMA PendingSent ==
    ASSUME TypeInv, [Next]_vars, NEW m \in Requests, Pending(m)', ~Pending(m)
    PROVE  \E n \in Names : Sends(n, m)
<1>1. m \notin inbox /\ \A p \in Procs : task[p].req # m
  BY DEF Pending
<1>2. ASSUME NEW p \in Procs, task'[p].req = m
      PROVE  FALSE
  BY <1>1, <1>2, TakesRequest, RequestTaken
<1>3. m \in inbox'
  BY <1>2 DEF Pending
<1> QED
  BY <1>1, <1>3, RequestSent

-----------------------------------------------------------------------------
(* FINISHED is not told after the reporting pod failed.                    *)

\* Reports arrive in time and are handled, rows stay, the job is run once,
\* and no STARTING was saved over an outcome that the job still needs.
Kept == /\ \A k \in {"lose", "timeout", "crash", "destroy", "start"} : ~Spent(k)
        /\ "restarted" \notin causes
        /\ ~(Spent("edit") /\ "overwritten" \in causes)

\* A request has one handler at most.
AnsweredOnce ==
    \A m \in Requests : \A p \in Procs :
       task[p].req = m => /\ m \notin inbox
                          /\ \A q \in Procs : task[q].req = m => q = p

\* A pending request is the last one of its script, which waits for the
\* response, or the script is gone.
Expected(m, n) ==
    /\ \/ Over(n, {"off"})
       \/ m.row = pod[n].row /\ m \in waiting /\ SentAt(m, script[n])
    /\ ToldOf(m, n)
RequestsExpected ==
    \A m \in Requests : Pending(m) => Expected(m, NameOf(m.row))

\* A script that ended by itself has no request left.
Done(n) ==
    /\ Over(n, {"off"})
    /\ \A m \in Requests : Pending(m) => NameOf(m.row) # n
EndsDone ==
    /\ \A n \in Names : pod[n].phase = "succeeded" => Done(n)
    /\ \A e \in events : e.kind = "Succeeded" => Done(NameOf(e.row))

RequestsInv == AnsweredOnce /\ RequestsExpected /\ EndsDone

\* The result of the job is on its way, and will be written if the job is
\* RUNNING.
Asking(n) ==
    \E m \in Requests :
       /\ m.kind = "jres" /\ NameOf(m.row) = n
       /\ \/ m \in inbox
          \/ \E p \in Procs : task[p].req = m /\ task[p].pc = "write"
Ended(n) ==
    \/ script[n] = "exit" \/ pod[n].phase = "succeeded"
    \/ \E e \in events : e.kind = "Succeeded" /\ NameOf(e.row) = n

\* A job whose reporter is at its end is not RUNNING for long.
ResultsTold ==
    ~Spent("edit") =>
       \A n \in Names : Reporter(n) /\ Ended(n) /\ job = "RUNNING" => Asking(n)

\* The worker's outcome is saved, or its report of it will be.
Told(n) == wst[pod[n].row] \in Terminal
OnItsWay(m) == m \in waiting /\ Pending(m)
Telling(n) ==
    \E m \in Requests : /\ m.row = pod[n].row /\ m.kind = "wstat"
                        /\ m.st \in Terminal /\ OnItsWay(m)

\* The outcome of the reporter was written over once the job was RUNNING.
Excused(n) == Reporter(n) /\ "overwritten" \in causes /\ job # "STARTING"

\* A script reports its worker's outcome before the job's, and is over only
\* when the first has been saved.
ReportsFirst ==
    \A n \in Names :
       /\ script[n] \in {"won", "lost", "broken"} =>
             Told(n) \/ Telling(n) \/ Excused(n)
       /\ script[n] = "exit" \/ pod[n].phase = "succeeded" =>
             Told(n) \/ Excused(n)

\* So the success of a pod settles nothing any more: its row is settled, or
\* the job is, and stays so.
Closed ==
    /\ "overwritten" \in causes /\ job \notin Active
    /\ \E n \in Names : Reporter(n) /\ Done(n)
EventsLast ==
    /\ \A e \in events : e.kind = "Succeeded" =>
          wst[e.row] \in Terminal \/ Excused(NameOf(e.row))
    /\ \A p \in Procs : task[p].op = "event" /\ task[p].out = "FINISHED" =>
          task[p].pc \in {"saveRow", "evJob"} /\ Closed

\* The job is FINISHED, or somebody will write it without looking at it.
Finishing ==
    \/ job = "FINISHED"
    \/ \E m \in inbox : m.kind # "wstat" /\ m.st = "FINISHED"
    \/ \E p \in Procs : task[p].op \notin {"wstat", "event"} /\ task[p].out = "FINISHED"

\* A job that is told FINISHED, or is about to be, has a reporter that did
\* its part; one that failed has a reporter that did not.
Outcomes ==
    /\ Finishing =>
          /\ "failed" \notin causes
          /\ \E n \in Names : Reporter(n) /\ Over(n, {"exit", "off"})
    /\ "failed" \in causes =>
          \E n \in Names : Reporter(n) /\ Over(n, {"lost", "broken", "exit", "off"})

FormInv == TogetherInv /\ ScriptsRun /\ AnswersShaped /\ NoEdit

HistoryInv ==
    /\ FormInv
    /\ OneReporter /\ Kept => RequestsInv /\ ResultsTold /\ ReportsFirst
                              /\ EventsLast /\ Outcomes

\* What a step may not do while all is kept.
LEMMA KeptStep ==
    ASSUME FormInv, [HNext]_hvars, Kept'
    PROVE  /\ Kept /\ [Next]_vars /\ ~DestroyJob
           /\ ~Spent("start")' /\ ~Spent("start") /\ ~Spent("destroy")
           /\ \A m : ~ReportLost(m) /\ ~ReportTimesOut(m)
           /\ \A p : ~Crash(p)
           /\ causes \subseteq causes'
           /\ "overwritten" \in causes' => ~Spent("edit")
           /\ ~Spent("edit")' => ~Spent("edit")
<1>i. TypeInv /\ BudgetBound
  BY DEF FormInv, TogetherInv, StartInv, AloneInv
<1>1. [Next]_vars
  BY DEF HNext, hvars
<1>2. causes \subseteq causes'
  BY DEF HNext, hvars
<1>k. {"lose", "timeout", "crash", "destroy", "start", "edit"} \subseteq Kinds
  BY DEF Kinds, UserKinds, FaultKinds
<1>b. \A k \in {"lose", "timeout", "crash", "destroy", "start", "edit"} :
         Spent(k) => Spent(k)'
  BY <1>1, <1>i, <1>k, BudgetShrinks
<1>3. Kept
  BY <1>2, <1>b DEF Kept
<1>4. \A k \in {"lose", "timeout", "crash", "destroy", "start"} : ~Spend(k)
  BY <1>i, <1>k, SpendSpent DEF Kept
<1>5. ~DestroyJob /\ (\A m : ~ReportLost(m) /\ ~ReportTimesOut(m)) /\ \A p : ~Crash(p)
  BY <1>4 DEF DestroyJob, ReportLost, ReportTimesOut, Crash
<1>6. "overwritten" \in causes' => ~Spent("edit")
  BY <1>b DEF Kept
<1> QED
  BY <1>1, <1>2, <1>3, <1>5, <1>6, <1>b DEF Kept

\* A script sends nothing while a request of it is pending.
LEMMA SendsFirst ==
    ASSUME FormInv, RequestsExpected, NEW n \in Names, NEW m \in Requests,
           Sends(n, m)
    PROVE  NameOf(m.row) = n /\ \A o \in Requests : Pending(o) => NameOf(o.row) # n
<1>1. m.row = pod[n].row /\ m.row \in Rows /\ m.row # NoRow
  BY StoreAssumption DEF Sends, Requests
<1>2. NameOf(m.row) = n
  BY <1>1 DEF FormInv, TogetherInv, StartInv
<1>3. ASSUME NEW o \in Requests, Pending(o), NameOf(o.row) = n
      PROVE  FALSE
  <2>1. Expected(o, n)
    BY <1>3 DEF RequestsExpected
  <2>2. ~Over(n, {"off"}) /\ ~Awaits(n)
    BY DEF Sends, Over
  <2> QED
    BY <2>1, <2>2 DEF Expected, Awaits
<1> QED
  BY <1>2, <1>3

LEMMA NextAnsweredOnce ==
    ASSUME FormInv, [HNext]_hvars, Kept', RequestsInv
    PROVE  AnsweredOnce'
<1>i. TypeInv /\ [Next]_vars
  BY KeptStep DEF FormInv, TogetherInv, StartInv, AloneInv
<1> SUFFICES ASSUME NEW m \in Requests, NEW p \in Procs, task'[p].req = m
             PROVE  /\ m \notin inbox'
                    /\ \A q \in Procs : task'[q].req = m => q = p
  BY DEF AnsweredOnce
<1>1. m \notin inbox'
  <2>1. SUFFICES ASSUME m \in inbox' PROVE FALSE
    OBVIOUS
  <2>2. CASE m \in inbox
    <3>1. task[p].req # m
      BY <2>2 DEF RequestsInv, AnsweredOnce
    <3>2. HandleRequest(p, m)
      BY <1>i, <3>1, TakesRequest
    <3> QED
      BY <1>i, <2>1, <3>2, RequestTaken
  <2>3. CASE m \notin inbox
    <3>1. PICK n \in Names : Sends(n, m)
      BY <1>i, <2>1, <2>3, RequestSent
    <3>2. Pending(m)
      BY <3>1 DEF Sends, Pending
    <3> QED
      BY <3>1, <3>2, SendsFirst DEF RequestsInv
  <2> QED
    BY <2>2, <2>3
<1>2. ASSUME NEW q \in Procs, task'[q].req = m, q # p
      PROVE  FALSE
  <2>1. ASSUME NEW a \in Procs, NEW b \in Procs, a # b,
               task'[a].req = m, task'[b].req = m, task[a].req # m
        PROVE  FALSE
    <3>1. HandleRequest(a, m)
      BY <1>i, <2>1, TakesRequest
    <3>2. m \in inbox /\ task'[b] = task[b]
      BY <1>i, <2>1, <3>1, RequestTaken
    <3> QED
      BY <2>1, <3>2 DEF RequestsInv, AnsweredOnce
  <2>2. task[p].req = m /\ task[q].req = m
    BY <1>2, <2>1
  <2> QED
    BY <1>2, <2>2 DEF RequestsInv, AnsweredOnce
<1> QED
  BY <1>1, <1>2

\* A pending request that stays so is still awaited, if its script goes on.
LEMMA PendingAwaited ==
    ASSUME FormInv, [HNext]_hvars, Kept', RequestsInv, NEW m \in Requests,
           Pending(m)', m \in waiting,
           \A n \in Names : m.row = pod[n].row => ~PodDies(n)
    PROVE  m \in waiting'
<1>i. TypeInv /\ [Next]_vars /\ ~ReportLost(m) /\ ~ReportTimesOut(m)
      /\ \A p : ~Crash(p)
  BY KeptStep DEF FormInv, TogetherInv, StartInv, AloneInv
<1>n. Idle.req # m
  BY DEF Idle, Requests, NoReq
<1>1. ASSUME NEW p \in Procs, HandlerStep(p), task[p].req = m, task'[p] = Idle
      PROVE  FALSE
  <2>1. m \notin inbox /\ \A q \in Procs : task[q].req = m => q = p
    BY <1>1 DEF RequestsInv, AnsweredOnce
  <2>2. inbox' = inbox /\ \A q \in Procs \ {p} : task'[q] = task[q]
    BY <1>1, <1>i, HandlerStepMoves DEF HandlerMoves
  <2> QED
    BY <1>1, <1>n, <2>1, <2>2 DEF Pending
<1>2. ASSUME NEW p \in Procs, HandleRequest(p, m), task'[p] = Idle
      PROVE  FALSE
  <2>1. /\ m \in inbox /\ inbox' = inbox \ {m}
        /\ \A q \in Procs \ {p} : task'[q] = task[q]
    BY <1>2, <1>i, RequestTaken
  <2>2. \A q \in Procs : task[q].req # m
    BY <2>1 DEF RequestsInv, AnsweredOnce
  <2> QED
    BY <1>2, <1>n, <2>1, <2>2 DEF Pending
<1> QED
  BY <1>i, <1>1, <1>2, WaitingLoses

\* A script that runs in its pod goes on there, or dies with it.
LEMMA ScriptRests ==
    ASSUME FormInv, [Next]_vars, NEW n \in Names, script[n] # "off",
           Awaits(n), ~PodDies(n)
    PROVE  script'[n] = script[n] /\ pod'[n].row = pod[n].row
<1>i. TypeInv /\ pod[n].phase = "running"
  BY DEF FormInv, TogetherInv, StartInv, AloneInv, ScriptsRun
<1>1. script'[n] = script[n]
  <2>1. SUFFICES ASSUME ScriptOwn(n) PROVE FALSE
    BY <1>i, ScriptSteps
  <2> QED
    BY <2>1, <1>i
       DEF ScriptOwn, PodStarts, PodRuns, ScriptEnds, ReportWorkerRunning,
           Rendezvous, Prepare, StartMpi, ReportResult, ReportBroken, TrainWon,
           TrainLost, Breaks, Moves
<1>2. pod'[n].row = pod[n].row
  BY <1>i, PodMoves DEF PodGone, PodCreated, PodGoesOn
<1> QED
  BY <1>1, <1>2

LEMMA NextRequestsExpected ==
    ASSUME FormInv, [HNext]_hvars, Kept', RequestsInv
    PROVE  RequestsExpected'
<1>i. /\ TypeInv /\ BudgetBound /\ [Next]_vars /\ StartInv
      /\ ~Spent("start")' /\ ~Spent("start")
  BY KeptStep DEF FormInv, TogetherInv, StartInv, AloneInv
<1> SUFFICES ASSUME NEW m \in Requests, Pending(m)'
             PROVE  Expected(m, NameOf(m.row))'
  BY DEF RequestsExpected
<1> DEFINE n == NameOf(m.row)
<1>n. n \in Names /\ m.row \in Rows /\ m.row # NoRow
  BY StoreAssumption DEF NameOf, Requests, Rows
<1>1. CASE ~Pending(m)
  <2>1. PICK k \in Names : Sends(k, m)
    BY <1>1, <1>i, PendingSent
  <2>2. k = n
    BY <2>1, SendsFirst DEF RequestsInv
  <2> QED
    BY <2>1, <2>2 DEF Sends, Expected, ToldOf, SentAt, Reporter, Distributed
<1>2. CASE Pending(m)
  <2>1. Expected(m, n)
    BY <1>2 DEF RequestsInv, RequestsExpected
  <2>t. ToldOf(m, n)'
    BY <2>1 DEF Expected, ToldOf, Reporter, Distributed
  <2>2. CASE Over(n, {"off"})
    <3>1. Over(n, {"off"})'
      BY <1>i, <1>n, <2>2, OverStays
    <3> QED
      BY <3>1, <2>t DEF Expected
  <2>3. CASE ~Over(n, {"off"})
    <3>1. m.row = pod[n].row /\ m \in waiting /\ SentAt(m, script[n])
      BY <2>1, <2>3 DEF Expected
    <3>2. script[n] # "off"
      <4>1. m.kind \in {"jres", "jstat", "wstat"}
        BY DEF Requests
      <4> QED
        BY <3>1, <4>1 DEF SentAt
    <3>3. pod[n].phase = "running" /\ ~NotYet(n)
      BY <1>i, <1>n, <3>2 DEF FormInv, ScriptsRun, StartInv
    <3>4. CASE PodDies(n)
      <4>1. script'[n] = "off" /\ pod'[n].phase = "failed"
        BY <1>i, <1>n, <3>4 DEF PodDies, PodKilled, TypeInv, TypeOK, ScriptOK,
           ClusterOK, Pods
      <4>2. ~NotYet(n)'
        BY <1>i, <3>3, NotYetShrinks
      <4>3. Over(n, {"off"})'
        BY <4>1, <4>2 DEF Over
      <4> QED
        BY <4>3, <2>t DEF Expected
    <3>5. CASE ~PodDies(n)
      <4>1. script'[n] = script[n] /\ pod'[n].row = pod[n].row
        BY <1>i, <1>n, <3>1, <3>2, <3>5, ScriptRests DEF Awaits
      <4>2. \A k \in Names : m.row = pod[k].row => ~PodDies(k)
        BY <1>n, <3>5 DEF FormInv, TogetherInv, StartInv
      <4>3. m \in waiting'
        BY <3>1, <4>2, PendingAwaited
      <4> QED
        BY <3>1, <4>1, <4>3, <2>t DEF Expected, SentAt
    <3> QED
      BY <3>4, <3>5
  <2> QED
    BY <2>2, <2>3
<1> QED
  BY <1>1, <1>2

\* What is done with stays so.
LEMMA DoneStays ==
    ASSUME FormInv, [HNext]_hvars, Kept', NEW n \in Names, Done(n)
    PROVE  Done(n)'
<1>i. TypeInv /\ [Next]_vars /\ StartInv /\ ~Spent("start")'
  BY KeptStep DEF FormInv, TogetherInv, StartInv, AloneInv
<1>1. Over(n, {"off"})'
  BY <1>i, OverStays DEF Done
<1>2. ASSUME NEW m \in Requests, Pending(m)', NameOf(m.row) = n
      PROVE  FALSE
  <2>1. ~Pending(m)
    BY <1>2 DEF Done
  <2>2. PICK k \in Names : Sends(k, m)
    BY <1>2, <1>i, <2>1, PendingSent
  <2>3. m.row = pod[k].row /\ m.row # NoRow
    BY <2>2, StoreAssumption DEF Sends, Requests
  <2>4. k = n
    BY <1>2, <1>i, <2>3 DEF StartInv
  <2> QED
    BY <2>2, <2>4 DEF Sends, Done, Over
<1> QED
  BY <1>1, <1>2 DEF Done

LEMMA EndIsDone ==
    ASSUME FormInv, [HNext]_hvars, Kept', RequestsInv,
           NEW n \in Names, ScriptEnds(n)
    PROVE  Done(n)'
<1>i. /\ TypeInv /\ BudgetBound /\ [Next]_vars /\ StartInv
      /\ ~Spent("start")' /\ ~Spent("start")
  BY KeptStep DEF FormInv, TogetherInv, StartInv, AloneInv
<1>1. /\ script[n] = "exit" /\ ~Awaits(n) /\ pod[n].phase = "running"
      /\ script'[n] = "off" /\ pod'[n].phase = "succeeded"
      /\ UNCHANGED web
  BY <1>i DEF ScriptEnds, PodExits, TypeInv, TypeOK, ScriptOK, ClusterOK, Pods
<1>2. ~NotYet(n)
  BY <1>i, <1>1 DEF StartInv
<1>3. ~NotYet(n)'
  BY <1>i, <1>2, NotYetShrinks
<1>4. Over(n, {"off"})'
  BY <1>1, <1>3 DEF Over
<1>5. ASSUME NEW m \in Requests, Pending(m), NameOf(m.row) = n
      PROVE  FALSE
  <2>1. Expected(m, n)
    BY <1>5 DEF RequestsInv, RequestsExpected
  <2> QED
    BY <1>1, <2>1 DEF Expected, Over, Awaits
<1>6. \A m \in Requests : Pending(m)' => Pending(m)
  BY <1>1 DEF Pending, web
<1> QED
  BY <1>4, <1>5, <1>6 DEF Done

LEMMA NextEndsDone ==
    ASSUME FormInv, [HNext]_hvars, Kept', RequestsInv
    PROVE  EndsDone'
<1>i. TypeInv /\ [Next]_vars /\ StartInv /\ EndsDone
  BY KeptStep DEF FormInv, TogetherInv, StartInv, AloneInv, RequestsInv
<1>1. ASSUME NEW n \in Names, pod'[n].phase = "succeeded"
      PROVE  Done(n)'
  <2>1. pod[n].phase = "succeeded" \/ ScriptEnds(n)
    BY <1>1, <1>i, PodMoves DEF PodGone, PodCreated, PodGoesOn, NoPod
  <2> QED
    BY <1>i, <2>1, DoneStays, EndIsDone DEF EndsDone
<1>2. ASSUME NEW e \in events', e.kind = "Succeeded"
      PROVE  Done(NameOf(e.row))'
  <2>1. CASE e \in events
    <3>1. Done(NameOf(e.row)) /\ NameOf(e.row) \in Names
      BY <1>2, <1>i, <2>1
         DEF EndsDone, TypeInv, TypeOK, ClusterOK, Events, Rows, NameOf
    <3> QED
      BY <3>1, DoneStays
  <2>2. CASE e \notin events
    <3>1. PICK n \in Names : /\ e.row = pod[n].row
                             /\ ScriptEnds(n) \/ pod[n].phase = "succeeded"
      BY <1>2, <1>i, <2>2, EventSteps
    <3>2. Done(n)'
      BY <1>i, <3>1, DoneStays, EndIsDone DEF EndsDone
    <3>3. pod[n].row \in Rows
      BY <1>i, <3>1 DEF ScriptEnds, PodExits, TypeInv, ShapeOK
    <3>4. NameOf(e.row) = n
      BY <1>i, <3>1, <3>3, StoreAssumption DEF StartInv
    <3> QED
      BY <3>2, <3>4
  <2> QED
    BY <2>1, <2>2
<1> QED
  BY <1>1, <1>2 DEF EndsDone

\* While the reporter's start is over and nothing is edited, no job is set
\* back to STARTING.
LEMMA NoRestart ==
    ASSUME FormInv, [HNext]_hvars, Kept', ~Spent("edit"), NEW n \in Names,
           ~NotYet(n), job' = "STARTING"
    PROVE  job = "STARTING"
<1>i. TypeInv /\ [Next]_vars /\ ~DestroyJob
  BY KeptStep DEF FormInv, TogetherInv, StartInv, AloneInv
<1>1. SUFFICES ASSUME job' # job PROVE FALSE
  OBVIOUS
<1>2. ASSUME NEW p \in Procs, StartMark(p)
      PROVE  FALSE
  BY <1>2 DEF StartMark, At, NotYet, Awaited
<1>3. ASSUME NEW p \in Procs, WriteJob(p)
      PROVE  FALSE
  <2>1. task[p].out = "STARTING"
    BY <1>3 DEF WriteJob, SaveJob
  <2> QED
    BY <2>1 DEF FormInv, AnswersShaped, AnswerShape, NoEdit
<1>4. ASSUME NEW p \in Procs, CreateJob(p) \/ StartFail(p)
      PROVE  FALSE
  BY <1>4 DEF CreateJob, StartFail, SaveJob
<1> QED
  BY <1>i, <1>1, <1>2, <1>3, <1>4, JobSteps

\* Nor to RUNNING, when the reporter has no report of that on its way.
LEMMA NoRerun ==
    ASSUME FormInv, [HNext]_hvars, Kept', RequestsInv, OneReporter,
           ~Spent("edit"), NEW n \in Names, Reporter(n),
           \A m \in Requests : Pending(m) /\ m.kind = "jstat" => NameOf(m.row) # n,
           job' = "RUNNING"
    PROVE  job = "RUNNING"
<1>i. TypeInv /\ [Next]_vars /\ ~DestroyJob
  BY KeptStep DEF FormInv, TogetherInv, StartInv, AloneInv
<1>1. SUFFICES ASSUME job' # job PROVE FALSE
  OBVIOUS
<1>2. ASSUME NEW p \in Procs, WriteJob(p)
      PROVE  FALSE
  <2>1. task[p].out = "RUNNING" /\ task[p].pc = "write"
    BY <1>2 DEF WriteJob, SaveJob
  <2>2. /\ task[p].op \in {"jstat", "finish"}
        /\ task[p].op = "jstat" => task[p].req.kind = "jstat"
        /\ task[p].op = "finish" =>
              task[p].req.kind = "jres" /\ task[p].req.st = "RUNNING"
    BY <2>1 DEF FormInv, TogetherInv, ReportsShaped, ReportShape,
                AnswersShaped, AnswerShape, NoEdit
  <2>3. task[p].req \in Requests
    <3>1. task[p].req \in Requests \union {NoReq}
      BY <1>i DEF TypeInv, TypeOK, WebOK, Tasks, Idle
    <3> QED
      BY <2>2, <3>1 DEF NoReq
  <2> DEFINE m == task[p].req
  <2>4. Pending(m) /\ NameOf(m.row) \in Names
    BY <2>3 DEF Pending, Requests, Rows, NameOf
  <2>5. ToldOf(m, NameOf(m.row))
    BY <2>3, <2>4 DEF RequestsInv, RequestsExpected, Expected
  <2>6. m.kind = "jstat" /\ Reporter(NameOf(m.row))
    BY <2>2, <2>5 DEF ToldOf
  <2>7. NameOf(m.row) = n
    BY <2>4, <2>6 DEF OneReporter
  <2> QED
    BY <2>3, <2>4, <2>6, <2>7
<1>3. ASSUME NEW p \in Procs, CreateJob(p) \/ StartFail(p) \/ StartMark(p)
      PROVE  FALSE
  BY <1>3 DEF CreateJob, StartFail, StartMark, SaveJob
<1> QED
  BY <1>i, <1>1, <1>2, <1>3, JobSteps

\* A reporter at its end has been seen running, and has told of it.
LEMMA EndedTold ==
    ASSUME FormInv, RequestsInv, ~Spent("start"), NEW n \in Names, Ended(n)
    PROVE  /\ ~NotYet(n)
           /\ \A m \in Requests : Pending(m) /\ m.kind = "jstat" => NameOf(m.row) # n
<1>1. CASE script[n] = "exit"
  <2>1. ~NotYet(n)
    BY <1>1 DEF FormInv, ScriptsRun, TogetherInv, StartInv
  <2>2. ASSUME NEW m \in Requests, Pending(m), m.kind = "jstat", NameOf(m.row) = n
        PROVE  FALSE
    <3>1. Expected(m, n)
      BY <2>2 DEF RequestsInv, RequestsExpected
    <3> QED
      BY <1>1, <2>2, <3>1 DEF Expected, Over, SentAt
  <2> QED
    BY <2>1, <2>2
<1>2. CASE script[n] # "exit"
  <2>1. Done(n)
    BY <1>2 DEF Ended, RequestsInv, EndsDone
  <2> QED
    BY <2>1 DEF Done, Over
<1> QED
  BY <1>1, <1>2

\* The result of a job that is RUNNING is still to be written.
LEMMA AskingStays ==
    ASSUME FormInv, [HNext]_hvars, Kept', RequestsInv, NEW n \in Names,
           Asking(n), job = "RUNNING", job' = "RUNNING"
    PROVE  Asking(n)'
<1>i. /\ TypeInv /\ [Next]_vars /\ AnswersShaped
      /\ (\A m : ~ReportLost(m)) /\ \A p : ~Crash(p)
  BY KeptStep DEF FormInv, TogetherInv, StartInv, AloneInv
<1>1. PICK m \in Requests :
         /\ m.kind = "jres" /\ NameOf(m.row) = n
         /\ \/ m \in inbox
            \/ \E p \in Procs : task[p].req = m /\ task[p].pc = "write"
  BY DEF Asking
<1>2. CASE m \in inbox
  <2>1. CASE m \in inbox'
    BY <1>1, <2>1 DEF Asking
  <2>2. CASE m \notin inbox'
    <3>1. PICK p \in Procs : HandleRequest(p, m)
      BY <1>2, <1>i, <2>2, InboxLoses
    <3>2. task'[p] = Handler("finish", "write", NoRow, m.st, m)
      BY <1>1, <1>i, <3>1, RequestTaken
    <3>3. task'[p].req = m /\ task'[p].pc = "write"
      BY <3>2 DEF Handler
    <3> QED
      BY <1>1, <3>3 DEF Asking
  <2> QED
    BY <2>1, <2>2
<1>3. ASSUME NEW p \in Procs, task[p].req = m, task[p].pc = "write"
      PROVE  Asking(n)'
  <2>1. CASE task'[p] = task[p]
    BY <1>1, <1>3, <2>1 DEF Asking
  <2>2. CASE task'[p] # task[p]
    <3>1. task[p] # Idle
      BY <1>3 DEF Idle
    <3>2. HandlerStep(p)
      BY <1>i, <2>2, <3>1, BusySteps
    <3>3. WriteJob(p)
      BY <1>3, <3>2 DEF HandlerStep, EnqueueStart, StartMark, StartCount,
         MakeCheck, MakeInsert, StartList, StartConfig, StartPod, StartSave,
         StartFail, StopList, StopPod, StopCm, SaveRow, EventJob, EventCount, At
    <3>4. job' = task[p].out /\ task[p].out = m.st
      BY <1>1, <1>3, <1>i, <3>3 DEF WriteJob, SaveJob, AnswersShaped, AnswerShape
    <3>5. Pending(m)
      BY <1>3 DEF Pending
    <3>6. m.st # "RUNNING"
      BY <1>1, <3>5 DEF RequestsInv, RequestsExpected, Expected, ToldOf
    <3> QED
      BY <3>4, <3>6
  <2> QED
    BY <2>1, <2>2
<1> QED
  BY <1>1, <1>2, <1>3

LEMMA NextResultsTold ==
    ASSUME FormInv, [HNext]_hvars, Kept', RequestsInv, OneReporter, ResultsTold
    PROVE  ResultsTold'
<1>i. /\ TypeInv /\ [Next]_vars /\ StartInv /\ ~Spent("start")
      /\ ~Spent("edit")' => ~Spent("edit")
      /\ script \in [Names -> ScriptPcs]
  BY KeptStep DEF FormInv, TogetherInv, StartInv, AloneInv, TypeInv, TypeOK,
                  ScriptOK
<1> SUFFICES ASSUME ~Spent("edit")', NEW n \in Names, Reporter(n), Ended(n)',
                    job' = "RUNNING"
             PROVE  Asking(n)'
  BY DEF ResultsTold, Reporter, Distributed
<1>1. CASE Ended(n)
  <2>1. \A m \in Requests : Pending(m) /\ m.kind = "jstat" => NameOf(m.row) # n
    BY <1>1, <1>i, EndedTold
  <2>2. job = "RUNNING"
    BY <1>i, <2>1, NoRerun
  <2>3. Asking(n)
    BY <1>1, <1>i, <2>2 DEF ResultsTold
  <2> QED
    BY <2>2, <2>3, AskingStays
<1>2. CASE ~Ended(n)
  <2>1. CASE script'[n] = "exit"
    <3>1. ScriptOwn(n)
      BY <1>2, <1>i, <2>1, ScriptSteps DEF Ended
    <3>2. ReportResult(n) \/ ReportBroken(n)
      BY <1>i, <2>1, <3>1, <1>2
         DEF ScriptOwn, PodStarts, PodDies, ScriptEnds, ReportWorkerRunning,
             Rendezvous, Prepare, StartMpi, TrainWon, TrainLost, Breaks, Moves,
             Ended
    <3>3. PICK st \in {"FINISHED", "FAILURE"} : Report(n, "jres", st)
      BY <3>2 DEF ReportResult, ReportBroken
    <3> DEFINE m == [row |-> pod[n].row, kind |-> "jres", st |-> st]
    <3>4. m \in inbox' /\ m.kind = "jres" /\ m.row = pod[n].row
      BY <3>3 DEF Report
    <3>5. pod[n].phase = "running"
      BY <3>2 DEF ReportResult, ReportBroken, Moves
    <3>6. pod[n].row \in Rows /\ pod[n].row # NoRow
      BY <1>i, <3>5, StoreAssumption DEF TypeInv, ShapeOK
    <3>7. m \in Requests /\ NameOf(m.row) = n
      BY <1>i, <3>6 DEF Requests, StartInv
    <3> HIDE DEF m
    <3> QED
      BY <3>4, <3>7 DEF Asking
  <2>2. CASE pod'[n].phase = "succeeded"
    BY <1>2, <1>i, <2>2, PodMoves
       DEF PodGone, PodCreated, PodGoesOn, NoPod, ScriptEnds, Ended
  <2>3. ASSUME NEW e \in events', e.kind = "Succeeded", NameOf(e.row) = n
        PROVE  FALSE
    <3>1. e \notin events
      BY <1>2, <2>3 DEF Ended
    <3>2. PICK k \in Names : /\ e.row = pod[k].row
                             /\ ScriptEnds(k) \/ pod[k].phase = "succeeded"
      BY <1>i, <2>3, <3>1, EventSteps
    <3>3. pod[k].row \in Rows
      BY <1>i, <3>2 DEF ScriptEnds, PodExits, TypeInv, ShapeOK
    <3>4. k = n
      BY <1>i, <2>3, <3>2, <3>3, StoreAssumption DEF StartInv
    <3> QED
      BY <1>2, <3>2, <3>4 DEF ScriptEnds, Ended
  <2> QED
    BY <2>1, <2>2, <2>3 DEF Ended
<1> QED
  BY <1>1, <1>2

\* What a step may do to the saved outcome of a worker.
LEMMA RowKept ==
    ASSUME FormInv, [HNext]_hvars, Kept', NEW r \in Rows, wst[r] \in Terminal
    PROVE  \/ wst'[r] \in Terminal
           \/ \E m \in Requests : /\ Pending(m) /\ m.row = r
                                  /\ m.kind = "wstat" /\ m.st = "RUNNING"
           \/ /\ Reporter(NameOf(r)) /\ job' # "STARTING"
              /\ "overwritten" \in causes'
<1>i. /\ TypeInv /\ RowsMade /\ ReportsShaped /\ AnswersShaped
      /\ wst \in [Rows -> Statuses \union {Absent}]
      /\ task \in [Procs -> Tasks \union {Idle}]
  BY DEF FormInv, TogetherInv, StartInv, AloneInv, TypeInv, TypeOK, StoreOK, WebOK
<1>k. [Next]_vars /\ ~DestroyJob
  BY KeptStep
<1>1. SUFFICES ASSUME wst'[r] \notin Terminal
               PROVE  \/ \E m \in Requests : /\ Pending(m) /\ m.row = r
                                             /\ m.kind = "wstat" /\ m.st = "RUNNING"
                      \/ /\ Reporter(NameOf(r)) /\ job' # "STARTING"
                         /\ "overwritten" \in causes'
  OBVIOUS
<1>2. wst'[r] \in Active
  <2>1. r \in JobWorkers'
    BY <1>i, <1>k, RowsGrow DEF JobWorkers, Terminal
  <2>2. wst'[r] # "NEW"
    BY <1>i, <1>k, NewRows
  <2>3. wst'[r] \in Statuses \union {Absent}
    BY <1>i, <1>k, NextType DEF TypeInv, TypeOK, StoreOK
  <2> QED
    BY <1>1, <2>1, <2>2, <2>3 DEF JobWorkers, Statuses, Terminal, Active
<1>3. wst' # wst /\ HNext
  <2>1. wst'[r] # wst[r]
    BY <1>2 DEF Terminal, Active
  <2> QED
    BY <2>1 DEF hvars, vars, store
<1>4. "overwritten" \in causes'
  BY <1>2, <1>3 DEF HNext, Causes, Happens
<1>5. ASSUME NEW p \in Procs, MakeInsert(p)
      PROVE  FALSE
  BY <1>1, <1>2, <1>3, <1>5 DEF MakeInsert, MakeWorkers, store, Active
<1>6. ASSUME NEW p \in Procs, StartSave(p)
      PROVE  Reporter(NameOf(r)) /\ job' # "STARTING"
  <2>1. wst' = [wst EXCEPT ![task[p].cur] = "STARTING"] /\ job' = job
    BY <1>3, <1>6 DEF StartSave, SaveWorker
  <2>2. r = task[p].cur /\ wst'[r] = "STARTING" /\ At(p, "start", "save")
    BY <1>1, <1>6, <1>i, <2>1 DEF StartSave
  <2>3. ~Happens("restarted")
    BY <1>3 DEF HNext, Kept, Causes
  <2>4. ~(~Reporter(NameOf(r)) \/ job = "STARTING")
    BY <2>2, <2>3 DEF Happens
  <2> QED
    BY <2>1, <2>4
<1>7. ASSUME NEW p \in Procs, SaveRow(p)
      PROVE  \E m \in Requests : /\ Pending(m) /\ m.row = r
                                 /\ m.kind = "wstat" /\ m.st = "RUNNING"
  <2>1. /\ task[p].pc = "saveRow"
        /\ wst' = [wst EXCEPT ![task[p].cur] = task[p].out]
    BY <1>3, <1>7 DEF SaveRow, SaveWorker
  <2>2. r = task[p].cur /\ wst'[r] = task[p].out
    BY <1>1, <1>i, <2>1
  <2>3. task[p].out = "RUNNING" /\ task[p].op \in {"edit", "jstat", "wstat", "finish"}
    BY <1>2, <1>i, <2>1, <2>2
       DEF ReportsShaped, ReportShape, AnswersShaped, AnswerShape, Active
  <2>4. task[p].op = "wstat"
    BY <1>i, <2>1, <2>3 DEF TypeInv, ShapeOK, Shaped
  <2>5. /\ task[p].req.kind = "wstat" /\ task[p].req.row = r
        /\ task[p].req.st = "RUNNING"
    BY <1>i, <2>2, <2>3, <2>4 DEF ReportsShaped, ReportShape
  <2>6. task[p].req \in Requests \union {NoReq}
    BY <1>i DEF Tasks, Idle
  <2>7. task[p].req \in Requests
    BY <2>5, <2>6 DEF NoReq
  <2> QED
    BY <2>5, <2>7 DEF Pending
<1> QED
  BY <1>i, <1>k, <1>3, <1>4, <1>5, <1>6, <1>7, RowSteps

\* So it stays, once the script has sent it; or the job needs it no more.
LEMMA OutcomeStays ==
    ASSUME FormInv, [HNext]_hvars, Kept', RequestsInv, NEW n \in Names,
           NEW r \in Rows, NameOf(r) = n, wst[r] \in Terminal,
           script[n] \in {"won", "lost", "broken", "exit"} \/ Done(n)
    PROVE  wst'[r] \in Terminal \/ Excused(n)'
<1>1. ASSUME NEW m \in Requests, Pending(m), m.row = r, m.kind = "wstat",
             m.st = "RUNNING"
      PROVE  FALSE
  <2>1. Expected(m, n) /\ ~Done(n)
    BY <1>1 DEF RequestsInv, RequestsExpected, Done
  <2> QED
    BY <1>1, <2>1 DEF Expected, Over, SentAt
<1>2. \/ wst'[r] \in Terminal
      \/ Reporter(n) /\ job' # "STARTING" /\ "overwritten" \in causes'
  BY <1>1, RowKept
<1> QED
  BY <1>2 DEF Excused, Reporter, Distributed

LEMMA ExcusedStays ==
    ASSUME FormInv, [HNext]_hvars, Kept', NEW n \in Names, ~NotYet(n), Excused(n)
    PROVE  Excused(n)'
<1>1. "overwritten" \in causes' /\ ~Spent("edit")
  BY KeptStep DEF Excused
<1>2. job' # "STARTING"
  BY <1>1, NoRestart DEF Excused
<1> QED
  BY <1>1, <1>2 DEF Excused, Reporter, Distributed

\* The handler of a worker's outcome saves it before it answers.
LEMMA OutcomeSaved ==
    ASSUME FormInv, Kept, NEW p \in Procs, HandlerStep(p),
           NEW m \in Requests, task[p].req = m, m.kind = "wstat"
    PROVE  wst'[m.row] = m.st
<1>1. /\ task[p].op = "wstat" /\ task[p].pc = "saveRow"
      /\ task[p].cur = m.row /\ task[p].out = m.st
  BY DEF FormInv, TogetherInv, ReportsShaped, ReportShape
<1>2. SaveRow(p)
  BY <1>1 DEF HandlerStep, EnqueueStart, StartMark, StartCount,
     MakeCheck, MakeInsert, StartList, StartConfig, StartPod, StartSave,
     StartFail, StopList, StopPod, StopCm, WriteJob, EventJob, EventCount, At
<1>3. m.row \in Rows /\ m.row # NoRow
  BY StoreAssumption DEF Requests
<1>4. wst[m.row] # Absent
  BY <1>1, <1>3 DEF FormInv, TogetherInv, NothingDangles, Kept
<1>5. wst \in [Rows -> Statuses \union {Absent}]
  BY DEF FormInv, TogetherInv, StartInv, AloneInv, TypeInv, TypeOK, StoreOK
<1> QED
  BY <1>1, <1>2, <1>3, <1>4, <1>5 DEF SaveRow, SaveWorker, CanSaveWorker

\* The report of an outcome stays on its way until the outcome is saved.
LEMMA ReportArrives ==
    ASSUME FormInv, [HNext]_hvars, Kept', NEW n \in Names,
           pod[n].phase = "running", ~PodDies(n),
           NEW m \in Requests, m.row = pod[n].row, m.kind = "wstat",
           m.st \in Terminal, OnItsWay(m)
    PROVE  wst'[m.row] \in Terminal \/ OnItsWay(m)'
<1>i. TypeInv /\ NothingDangles /\ ReportsShaped
  BY DEF FormInv, TogetherInv, StartInv, AloneInv
<1>k. /\ Kept /\ [Next]_vars
      /\ ~ReportLost(m) /\ ~ReportTimesOut(m) /\ \A p : ~Crash(p)
  BY KeptStep
<1>s. SUFFICES ASSUME wst'[m.row] \notin Terminal PROVE OnItsWay(m)'
  OBVIOUS
<1>1. ASSUME NEW p \in Procs, HandlerStep(p)
      PROVE  task[p].req # m
  BY <1>1, <1>k, <1>s, OutcomeSaved
<1>2. ASSUME NEW p \in Procs, HandleRequest(p, m)
      PROVE  task'[p].req = m
  <2>1. wst[m.row] # Absent
    BY <1>2, <1>i, <1>k DEF HandleRequest, NothingDangles, Kept
  <2>2. task'[p] = Handler("wstat", "saveRow", m.row, m.st, m)
    BY <1>2, <1>i, <2>1, RequestTaken
  <2> QED
    BY <2>2 DEF Handler
<1>3. m \in waiting'
  <2>1. ASSUME NEW k \in Names, PodDies(k), m.row = pod[k].row
        PROVE  FALSE
    <3>1. pod[n].row \in Rows /\ pod[n].row # NoRow
      BY <1>i, StoreAssumption DEF TypeInv, ShapeOK
    <3>2. k = n
      BY <2>1, <3>1 DEF FormInv, TogetherInv, StartInv
    <3> QED
      BY <2>1, <3>2
  <2>2. ASSUME NEW p \in Procs, HandleRequest(p, m)
        PROVE  task'[p] # Idle
    <3>1. m # NoReq
      BY DEF Requests, NoReq
    <3> QED
      BY <1>2, <2>2, <3>1 DEF Idle
  <2> QED
    BY <1>1, <1>i, <1>k, <2>1, <2>2, WaitingLoses DEF OnItsWay
<1>4. CASE m \in inbox
  BY <1>2, <1>3, <1>4, <1>i, <1>k, InboxLoses DEF OnItsWay, Pending
<1>5. ASSUME NEW p \in Procs, task[p].req = m
      PROVE  task'[p].req = m
  <2>1. SUFFICES ASSUME task'[p] # task[p] PROVE FALSE
    BY <1>5
  <2>2. task[p] # Idle
    BY <1>5 DEF Idle, Requests, NoReq
  <2>3. OwnStep(p)
    BY <1>i, <1>k, <2>1, TaskSteps
  <2>4. HandlerStep(p)
    BY <1>k, <2>2, <2>3 DEF OwnStep, CreateJob, StartJob, CancelJob, CleanJob,
       EditJob, StartAvesjob, HandleRequest, ProcessEvent, Begin
  <2> QED
    BY <1>1, <1>5, <2>4
<1> QED
  BY <1>3, <1>4, <1>5 DEF OnItsWay, Pending

LEMMA NextReportsFirst ==
    ASSUME FormInv, [HNext]_hvars, Kept', RequestsInv, ReportsFirst
    PROVE  ReportsFirst'
<1>i. /\ TypeInv /\ ScriptsRun
      /\ \A k \in Names : pod[k].phase # "none" => pod[k].row \in Rows
      /\ script \in [Names -> ScriptPcs] /\ pod \in [Names -> Pods]
  BY DEF FormInv, TogetherInv, StartInv, AloneInv, TypeInv, TypeOK, ShapeOK,
         ScriptOK, ClusterOK
<1>k. [Next]_vars /\ ~Spent("start")
  BY KeptStep
<1>1. SUFFICES ASSUME NEW n \in Names
               PROVE  /\ script'[n] \in {"won", "lost", "broken"} =>
                            (Told(n) \/ Telling(n) \/ Excused(n))'
                      /\ script'[n] = "exit" \/ pod'[n].phase = "succeeded" =>
                            (Told(n) \/ Excused(n))'
  BY DEF ReportsFirst
<1>2. ASSUME Told(n) \/ Excused(n), pod[n].phase # "none", pod'[n].row = pod[n].row,
             \/ script[n] \in {"won", "lost", "broken", "exit"}
             \/ pod[n].phase = "succeeded"
      PROVE  (Told(n) \/ Excused(n))'
  <2>1. pod[n].row \in Rows /\ NameOf(pod[n].row) = n
    BY <1>2, <1>i, StoreAssumption DEF FormInv, TogetherInv, StartInv
  <2>2. script[n] \in {"won", "lost", "broken", "exit"} \/ Done(n)
    BY <1>2 DEF RequestsInv, EndsDone
  <2>3. CASE Told(n)
    BY <1>2, <2>1, <2>2, <2>3, OutcomeStays DEF Told
  <2>4. CASE Excused(n)
    <3>1. ~NotYet(n)
      BY <1>2, <1>k DEF FormInv, TogetherInv, StartInv
    <3> QED
      BY <2>4, <3>1, ExcusedStays
  <2> QED
    BY <1>2, <2>3, <2>4
<1>3. ASSUME script'[n] # "off"
      PROVE  \/ pod'[n].row = pod[n].row /\ pod[n].phase # "none"
             \/ script'[n] = "boot"
  <2>1. CASE PodStarts(n)
    BY <2>1, <1>i DEF PodStarts
  <2>2. CASE ~PodStarts(n)
    <3>1. pod'[n].phase = "running"
      BY <1>3, <1>i, <1>k, NextScriptsRun DEF ScriptsRun
    <3>2. pod[n].phase = "running"
      <4>1. script[n] # "off"
        <5>1. SUFFICES ASSUME script[n] = "off" PROVE FALSE
          OBVIOUS
        <5>2. ScriptOwn(n)
          BY <1>3, <5>1, <1>i, <1>k, ScriptSteps
        <5>3. PodDies(n) \/ ScriptEnds(n)
          BY <5>1, <5>2, <2>2 DEF ScriptOwn, ReportWorkerRunning, Rendezvous,
             Prepare, StartMpi, ReportResult, ReportBroken, TrainWon,
             TrainLost, Breaks, Moves, TrainPc
        <5> QED
          BY <1>3, <1>i, <5>3 DEF PodDies, ScriptEnds
      <4> QED
        BY <4>1, <1>i DEF ScriptsRun
    <3> QED
      BY <3>1, <3>2, <1>i, <1>k, PodMoves DEF PodGone, PodCreated, PodGoesOn, NoPod
  <2> QED
    BY <2>1, <2>2
<1>4. ASSUME script'[n] \in {"won", "lost", "broken"}
      PROVE  (Told(n) \/ Telling(n) \/ Excused(n))'
  <2>1. pod'[n].row = pod[n].row /\ pod[n].phase # "none"
    BY <1>3, <1>4
  <2>2. CASE script'[n] = script[n]
    <3>1. pod[n].phase = "running" /\ ~PodDies(n)
      BY <1>4, <2>2, <1>i DEF ScriptsRun, PodDies
    <3>2. CASE Told(n) \/ Excused(n)
      BY <1>2, <1>4, <2>1, <2>2, <3>2
    <3>3. ASSUME NEW m \in Requests, m.row = pod[n].row, m.kind = "wstat",
                 m.st \in Terminal, OnItsWay(m)
          PROVE  (Told(n) \/ Telling(n) \/ Excused(n))'
      <4>1. wst'[m.row] \in Terminal \/ OnItsWay(m)'
        BY <3>1, <3>3, ReportArrives
      <4> QED
        BY <2>1, <3>3, <4>1 DEF Told, Telling
    <3> QED
      BY <1>4, <2>2, <3>2, <3>3 DEF ReportsFirst, Telling
  <2>3. CASE script'[n] # script[n]
    <3>1. ScriptOwn(n)
      BY <2>3, <1>i, <1>k, ScriptSteps
    <3>2. PICK st \in {"FINISHED", "FAILURE"} : Report(n, "wstat", st)
      BY <3>1, <1>4, <1>i
         DEF ScriptOwn, PodStarts, PodDies, ScriptEnds, ReportWorkerRunning,
             Rendezvous, Prepare, StartMpi, ReportResult, ReportBroken,
             TrainWon, TrainLost, Breaks, Moves
    <3> DEFINE m == [row |-> pod[n].row, kind |-> "wstat", st |-> st]
    <3>3. m \in inbox' /\ m \in waiting'
      BY <3>2 DEF Report
    <3>4. /\ m \in Requests /\ m.row = pod'[n].row /\ m.kind = "wstat"
          /\ m.st \in Terminal
      BY <2>1, <1>i DEF Requests, Terminal
    <3> HIDE DEF m
    <3> QED
      BY <3>3, <3>4 DEF Telling, OnItsWay, Pending
  <2> QED
    BY <2>2, <2>3
<1>5. ASSUME script'[n] = "exit"
      PROVE  (Told(n) \/ Excused(n))'
  <2>1. pod'[n].row = pod[n].row /\ pod[n].phase # "none"
    BY <1>3, <1>5
  <2>2. /\ Told(n) \/ Excused(n)
        /\ script[n] \in {"won", "lost", "broken", "exit"}
    <3>1. CASE script[n] = "exit"
      BY <3>1 DEF ReportsFirst
    <3>2. CASE script[n] # "exit"
      <4>1. ScriptOwn(n)
        BY <3>2, <1>5, <1>i, <1>k, ScriptSteps
      <4>2. ReportResult(n) \/ ReportBroken(n)
        BY <4>1, <1>5, <1>i
           DEF ScriptOwn, PodStarts, PodDies, ScriptEnds, ReportWorkerRunning,
               Rendezvous, Prepare, StartMpi, TrainWon, TrainLost, Breaks, Moves
      <4>3. script[n] \in {"won", "lost", "broken"} /\ ~Awaits(n)
        BY <4>2 DEF ReportResult, ReportBroken, Moves
      <4> QED
        BY <4>3 DEF ReportsFirst, Telling, OnItsWay, Awaits
    <3> QED
      BY <3>1, <3>2
  <2> QED
    BY <1>2, <2>1, <2>2
<1>6. ASSUME pod'[n].phase = "succeeded"
      PROVE  (Told(n) \/ Excused(n))'
  <2>1. /\ pod'[n].row = pod[n].row /\ pod[n].phase # "none"
        /\ pod[n].phase = "succeeded" \/ ScriptEnds(n)
    BY <1>6, <1>i, <1>k, PodMoves DEF PodGone, PodCreated, PodGoesOn, NoPod
  <2>2. /\ Told(n) \/ Excused(n)
        /\ script[n] = "exit" \/ pod[n].phase = "succeeded"
    BY <2>1 DEF ReportsFirst, ScriptEnds
  <2> QED
    BY <1>2, <2>1, <2>2
<1> QED
  BY <1>4, <1>5, <1>6

\* A job that is settled when its reporter is done stays so.
LEMMA ClosedStays ==
    ASSUME FormInv, [HNext]_hvars, Kept', RequestsInv, OneReporter, Closed
    PROVE  Closed'
<1>1. "overwritten" \in causes' /\ ~Spent("edit")
  BY KeptStep DEF Closed
<1>2. PICK n \in Names : Reporter(n) /\ Done(n)
  BY DEF Closed
<1>3. Done(n)'
  BY <1>2, DoneStays
<1>4. job' # "STARTING"
  BY <1>1, <1>2, NoRestart DEF Closed, Done, Over, Active
<1>5. job' # "RUNNING"
  BY <1>1, <1>2, NoRerun DEF Closed, Done, Active
<1> QED
  BY <1>1, <1>2, <1>3, <1>4, <1>5 DEF Closed, Active, Reporter, Distributed

\* When the success of the reporter's pod is taken, the job is settled.
LEMMA SuccessClosed ==
    ASSUME FormInv, Kept, RequestsInv, ResultsTold, EventsLast,
           NEW e \in events, e.kind = "Succeeded", wst[e.row] \in Active
    PROVE  Closed
<1> DEFINE n == NameOf(e.row)
<1>1. Done(n) /\ n \in Names
  BY DEF RequestsInv, EndsDone, FormInv, TogetherInv, StartInv, AloneInv,
         TypeInv, TypeOK, ClusterOK, Events, Rows, NameOf
<1>2. Reporter(n) /\ "overwritten" \in causes /\ job # "STARTING"
  BY DEF EventsLast, Excused, Active, Terminal
<1>3. ~Asking(n)
  BY <1>1 DEF Asking, Done, Pending
<1>4. Ended(n) /\ ~Spent("edit")
  BY <1>2 DEF Ended, Kept
<1>5. job # "RUNNING"
  BY <1>1, <1>2, <1>3, <1>4 DEF ResultsTold
<1> QED
  BY <1>1, <1>2, <1>5 DEF Closed, Active

LEMMA NextEventsLast ==
    ASSUME FormInv, [HNext]_hvars, Kept', RequestsInv, OneReporter,
           ResultsTold, ReportsFirst, EventsLast
    PROVE  EventsLast'
<1>i. /\ TypeInv /\ StartInv /\ task \in [Procs -> Tasks \union {Idle}]
      /\ events \subseteq Events
  BY DEF FormInv, TogetherInv, StartInv, AloneInv, TypeInv, TypeOK, WebOK,
         ClusterOK
<1>k. Kept /\ [Next]_vars /\ ~Spent("start") /\ \A p : ~Crash(p)
  BY KeptStep
<1>1. ASSUME NEW e \in events', e.kind = "Succeeded"
      PROVE  wst'[e.row] \in Terminal \/ Excused(NameOf(e.row))'
  <2> DEFINE r == e.row
             n == NameOf(e.row)
  <2>1. /\ r \in Rows /\ n \in Names
        /\ wst[r] \in Terminal \/ (Excused(n) /\ ~NotYet(n))
        /\ script[n] = "exit" \/ Done(n)
    <3>1. CASE e \in events
      <4>1. r \in Rows /\ n \in Names
        BY <1>i, <3>1 DEF Events, Rows, NameOf
      <4>2. Done(n)
        BY <1>1, <3>1 DEF RequestsInv, EndsDone
      <4> QED
        BY <1>1, <3>1, <4>1, <4>2 DEF EventsLast, Done, Over
    <3>2. CASE e \notin events
      <4>1. PICK k \in Names : /\ e.row = pod[k].row
                               /\ ScriptEnds(k) \/ pod[k].phase = "succeeded"
        BY <1>1, <3>2, <1>i, <1>k, EventSteps
      <4>2. script[k] = "exit" \/ pod[k].phase = "succeeded"
        BY <4>1 DEF ScriptEnds
      <4>3. pod[k].phase # "none"
        BY <4>2 DEF FormInv, ScriptsRun
      <4>4. pod[k].row \in Rows /\ ~NotYet(k)
        BY <1>i, <1>k, <4>3 DEF TypeInv, ShapeOK, StartInv
      <4>5. n = k
        BY <1>i, <4>1, <4>4, StoreAssumption DEF StartInv
      <4>6. Told(k) \/ Excused(k)
        BY <4>2 DEF ReportsFirst
      <4>7. script[k] = "exit" \/ Done(k)
        BY <4>2 DEF RequestsInv, EndsDone
      <4> QED
        BY <4>1, <4>4, <4>5, <4>6, <4>7 DEF Told
    <3> QED
      BY <3>1, <3>2
  <2> HIDE DEF r, n
  <2>2. NameOf(r) = n
    BY DEF r, n
  <2>3. wst'[r] \in Terminal \/ Excused(n)'
    BY <2>1, <2>2, OutcomeStays, ExcusedStays
  <2> QED
    BY <2>3 DEF r, n
<1>2. ASSUME NEW q \in Procs, task'[q].op = "event", task'[q].out = "FINISHED"
      PROVE  task'[q].pc \in {"saveRow", "evJob"} /\ Closed
  <2>h. \A op, pc, cur, out, req :
           /\ Handler(op, pc, cur, out, req).op = op
           /\ Handler(op, pc, cur, out, req).pc = pc
           /\ Handler(op, pc, cur, out, req).out = out
    BY DEF Handler
  <2>n. Idle.op = "none"
    BY DEF Idle
  <2>1. CASE task'[q] = task[q]
    BY <1>2, <2>1 DEF EventsLast
  <2>2. CASE task'[q] # task[q]
    <3>1. OwnStep(q)
      BY <1>i, <1>k, <2>2, TaskSteps
    <3>2. CASE HandlerStep(q)
      <4>1. task'[q] # Idle /\ task[q].op = "event" /\ task[q].out = "FINISHED"
        BY <1>2, <1>i, <2>n, <3>2, HandlerStepMoves DEF HandlerMoves
      <4>2. task[q].pc \in {"saveRow", "evJob"} /\ Closed
        BY <4>1 DEF EventsLast
      <4>3. SaveRow(q) \/ EventJob(q)
        BY <3>2, <4>2 DEF HandlerStep, EnqueueStart, StartMark, StartCount,
           MakeCheck, MakeInsert, StartList, StartConfig, StartPod, StartSave,
           StartFail, StopList, StopPod, StopCm, WriteJob, EventCount, At
      <4>4. ~End(q)
        BY <1>i, <4>1 DEF End, Goto
      <4>5. CASE SaveRow(q)
        <5>1. To(q, "evJob")
          BY <4>1, <4>4, <4>5 DEF SaveRow
        <5>2. task'[q].pc = "evJob"
          BY <1>i, <5>1 DEF To, Goto, Tasks, Idle
        <5> QED
          BY <4>2, <5>2
      <4>6. CASE EventJob(q)
        BY <4>1, <4>2, <4>4, <4>6 DEF EventJob, Closed
      <4> QED
        BY <4>3, <4>5, <4>6
    <3>3. CASE CancelJob(q) \/ CleanJob(q) \/ EditJob(q)
      BY <1>2, <3>3, <2>h, <1>i, UserTaken
    <3>4. ASSUME NEW m \in Requests, HandleRequest(q, m)
          PROVE  FALSE
      BY <1>2, <3>4, <2>h, <2>n, <1>i, RequestTaken
    <3>5. ASSUME NEW e \in Events, ProcessEvent(q, e)
          PROVE  task'[q].pc \in {"saveRow", "evJob"} /\ Closed
      <4>1. /\ e \in events /\ e.kind = "Succeeded" /\ wst[e.row] \in Active
            /\ task'[q].pc = "saveRow"
        BY <1>2, <3>5, <2>h, <2>n, <1>i, EventTaken
      <4> QED
        BY <1>k, <4>1, SuccessClosed
    <3>6. CASE CreateJob(q) \/ StartJob(q) \/ StartAvesjob(q)
      BY <1>2, <3>6, <2>h, <2>n, <1>i
         DEF CreateJob, StartJob, StartAvesjob, Begin, StartHandler
    <3> QED
      BY <1>k, <3>1, <3>2, <3>3, <3>4, <3>5, <3>6 DEF OwnStep
  <2> QED
    BY <2>1, <2>2
<1>3. \A q \in Procs : task'[q].op = "event" /\ task'[q].out = "FINISHED" =>
         task'[q].pc \in {"saveRow", "evJob"} /\ Closed'
  BY <1>2, ClosedStays
<1> QED
  BY <1>1, <1>3 DEF EventsLast

\* FINISHED comes from a reporter that has won, or from the handler of a
\* pod's event that is about to write it.
LEMMA FinishingFrom ==
    ASSUME TypeInv, ReportsShaped, [Next]_vars, Finishing'
    PROVE  \/ Finishing
           \/ \E n \in Names : ReportResult(n) /\ Reporter(n) /\ script[n] = "won"
           \/ \E p \in Procs : /\ task[p].op = "event" /\ task[p].out = "FINISHED"
                               /\ task[p].pc = "write"
<1> DEFINE G == \/ Finishing
                \/ \E n \in Names : ReportResult(n) /\ Reporter(n) /\ script[n] = "won"
                \/ \E p \in Procs : /\ task[p].op = "event" /\ task[p].out = "FINISHED"
                                    /\ task[p].pc = "write"
<1>t. task \in [Procs -> Tasks \union {Idle}]
  BY DEF TypeInv, TypeOK, WebOK
<1>1. CASE job' = "FINISHED"
  <2>1. CASE job' = job
    BY <1>1, <2>1 DEF Finishing
  <2>2. ASSUME NEW p \in Procs, WriteJob(p)
        PROVE  G
    <3>1. /\ task[p].op # "wstat" /\ task[p].out = "FINISHED"
          /\ task[p].pc = "write"
      BY <1>1, <2>2 DEF WriteJob, SaveJob, ReportsShaped, ReportShape
    <3> QED
      BY <3>1 DEF Finishing
  <2>3. ASSUME NEW p \in Procs, CreateJob(p) \/ StartMark(p) \/ StartFail(p)
        PROVE  FALSE
    BY <1>1, <2>3 DEF CreateJob, StartMark, StartFail, SaveJob
  <2>4. ~DestroyJob
    BY <1>1 DEF DestroyJob, DeleteJob
  <2> QED
    BY <2>1, <2>2, <2>3, <2>4, JobSteps
<1>2. ASSUME NEW m \in inbox', m.kind # "wstat", m.st = "FINISHED"
      PROVE  G
  BY <1>2, StatusSent DEF Finishing
<1>3. ASSUME NEW q \in Procs, task'[q].op \notin {"wstat", "event"},
             task'[q].out = "FINISHED"
      PROVE  G
  <2>1. CASE task'[q] = task[q]
    BY <1>3, <2>1 DEF Finishing
  <2>2. CASE HandlerStep(q)
    BY <1>3, <2>2, HandlerStepMoves DEF HandlerMoves, Finishing, Idle
  <2>h. \A op, pc, cur, out, req :
           /\ Handler(op, pc, cur, out, req).op = op
           /\ Handler(op, pc, cur, out, req).out = out
    BY DEF Handler
  <2>3. CASE CancelJob(q) \/ CleanJob(q) \/ EditJob(q)
    BY <1>3, <2>3, <2>h, UserTaken DEF Finishing
  <2>4. ASSUME NEW m \in Requests, HandleRequest(q, m)
        PROVE  G
    BY <1>3, <2>4, <2>h, RequestTaken DEF Finishing, Idle
  <2>5. ASSUME NEW e \in Events, ProcessEvent(q, e)
        PROVE  FALSE
    BY <1>3, <2>5, <2>h, EventTaken DEF Idle
  <2>6. CASE CreateJob(q) \/ StartJob(q) \/ StartAvesjob(q)
    BY <1>3, <2>6, <2>h, <1>t
       DEF CreateJob, StartJob, StartAvesjob, Begin, StartHandler, Idle
  <2>7. CASE Crash(q)
    BY <1>3, <2>7, <1>t DEF Crash, End, Goto, Idle
  <2> QED
    BY <2>1, <2>2, <2>3, <2>4, <2>5, <2>6, <2>7, TaskSteps DEF OwnStep
<1> QED
  BY <1>1, <1>2, <1>3 DEF Finishing

LEMMA NextOutcomes ==
    ASSUME FormInv, [HNext]_hvars, TogetherInv', Kept', OneReporter,
           EventsLast, Outcomes
    PROVE  Outcomes'
<1>i. /\ TypeInv /\ BudgetBound /\ ScriptsRun /\ ReportsShaped
      /\ script \in [Names -> ScriptPcs] /\ pod \in [Names -> Pods]
  BY DEF FormInv, TogetherInv, StartInv, AloneInv, TypeInv, TypeOK, ScriptOK,
         ClusterOK
<1>k. /\ [Next]_vars /\ ~Spent("start")' /\ StartInv
      /\ \A n \in Names : NotYet(n) => pod[n].phase = "none"
      /\ \A n \in Names : NotYet(n)' => pod'[n].phase = "none"
      /\ \A n \in Names : script'[n] # "off" => pod'[n].phase = "running"
  <2>1. [Next]_vars /\ ~Spent("start")' /\ ~Spent("start")
    BY KeptStep
  <2>2. StartInv /\ StartInv'
    BY DEF FormInv, TogetherInv
  <2>3. ScriptsRun'
    BY <1>i, <2>1, NextScriptsRun
  <2> QED
    BY <2>1, <2>2, <2>3 DEF StartInv, ScriptsRun
<1>1. ASSUME NEW n \in Names, ReportResult(n), script[n] = "won"
      PROVE  Over(n, {"exit", "off"})' /\ ~Over(n, {"lost", "broken", "exit", "off"})
  <2>1. pod[n].phase = "running" /\ script'[n] = "exit"
    BY <1>1, <1>i DEF ReportResult, Moves
  <2>2. pod'[n].phase = "running"
    BY <2>1, <1>k
  <2>3. ~NotYet(n)'
    BY <2>2, <1>k
  <2> QED
    BY <1>1, <2>1, <2>2, <2>3 DEF Over
<1>2. ASSUME Finishing'
      PROVE  \E n \in Names :
                /\ Reporter(n) /\ Over(n, {"exit", "off"})'
                /\ \/ Over(n, {"exit", "off"}) /\ Finishing
                   \/ ~Over(n, {"lost", "broken", "exit", "off"})
  <2>1. \/ Finishing
        \/ \E n \in Names : ReportResult(n) /\ Reporter(n) /\ script[n] = "won"
    <3>1. \A p \in Procs : ~(/\ task[p].op = "event" /\ task[p].out = "FINISHED"
                             /\ task[p].pc = "write")
      BY DEF EventsLast
    <3> QED
      BY <1>2, <1>i, <1>k, <3>1, FinishingFrom
  <2>2. CASE Finishing
    <3>1. PICK n \in Names : Reporter(n) /\ Over(n, {"exit", "off"})
      BY <2>2 DEF Outcomes
    <3>2. Over(n, {"exit", "off"})'
      BY <3>1, <1>k, OverStays
    <3> QED
      BY <2>2, <3>1, <3>2
  <2>3. CASE \E n \in Names : ReportResult(n) /\ Reporter(n) /\ script[n] = "won"
    BY <2>3, <1>1
  <2> QED
    BY <2>1, <2>2, <2>3
<1>3. ASSUME "failed" \in causes'
      PROVE  \E n \in Names :
                /\ Reporter(n) /\ Over(n, {"lost", "broken", "exit", "off"})'
                /\ \/ "failed" \in causes /\ Over(n, {"lost", "broken", "exit", "off"})
                   \/ script'[n] \in {"lost", "broken"}
  <2>1. CASE "failed" \in causes
    <3>1. PICK n \in Names : Reporter(n) /\ Over(n, {"lost", "broken", "exit", "off"})
      BY <2>1 DEF Outcomes
    <3>2. Over(n, {"lost", "broken", "exit", "off"})'
      BY <3>1, <1>k, OverStays
    <3> QED
      BY <2>1, <3>1, <3>2
  <2>2. CASE "failed" \notin causes
    <3>1. Happens("failed")
      BY <1>3, <2>2 DEF HNext, hvars
    <3>2. PICK n \in Names : Reporter(n) /\ script'[n] \in {"lost", "broken"}
      BY <3>1 DEF Happens
    <3>3. pod'[n].phase = "running"
      BY <3>2, <1>k
    <3>4. ~NotYet(n)'
      BY <3>3, <1>k
    <3> QED
      BY <3>2, <3>3, <3>4 DEF Over
  <2> QED
    BY <2>1, <2>2
<1>4. ASSUME Finishing', "failed" \in causes'
      PROVE  FALSE
  <2>1. PICK n \in Names : /\ Reporter(n) /\ Over(n, {"exit", "off"})'
                           /\ \/ Over(n, {"exit", "off"}) /\ Finishing
                              \/ ~Over(n, {"lost", "broken", "exit", "off"})
    BY <1>2, <1>4
  <2>2. PICK k \in Names :
           /\ Reporter(k)
           /\ \/ "failed" \in causes /\ Over(k, {"lost", "broken", "exit", "off"})
              \/ script'[k] \in {"lost", "broken"}
    BY <1>3, <1>4
  <2>3. n = k
    BY <2>1, <2>2 DEF OneReporter
  <2>4. script'[n] \in {"exit", "off"}
    BY <2>1 DEF Over
  <2>5. "failed" \in causes /\ Over(n, {"lost", "broken", "exit", "off"})
    BY <2>2, <2>3, <2>4
  <2>6. Finishing
    BY <2>1, <2>5
  <2> QED
    BY <2>5, <2>6 DEF Outcomes
<1>5. (Finishing =>
          /\ "failed" \notin causes
          /\ \E n \in Names : Reporter(n) /\ Over(n, {"exit", "off"}))'
  <2>1. SUFFICES ASSUME Finishing'
                 PROVE  /\ "failed" \notin causes'
                        /\ \E n \in Names : Reporter(n) /\ Over(n, {"exit", "off"})'
    BY DEF Reporter, Distributed
  <2> QED
    BY <2>1, <1>2, <1>4
<1>6. ("failed" \in causes =>
          \E n \in Names : Reporter(n) /\ Over(n, {"lost", "broken", "exit", "off"}))'
  <2>1. SUFFICES ASSUME "failed" \in causes'
                 PROVE  \E n \in Names :
                           Reporter(n) /\ Over(n, {"lost", "broken", "exit", "off"})'
    BY DEF Reporter, Distributed
  <2> QED
    BY <2>1, <1>3
<1> QED
  BY <1>5, <1>6 DEF Outcomes

LEMMA HistoryInvCorrect == HSpec => []HistoryInv
<1>1. HInit => Init
  BY DEF HInit
<1>2. [HNext]_hvars => [Next]_vars
  BY DEF HNext, hvars
<1>3. TogetherInv /\ HInit => HistoryInv
  <2> SUFFICES ASSUME TogetherInv, HInit PROVE HistoryInv
    OBVIOUS
  <2>1. /\ script = [n \in Names |-> "off"] /\ pod = [n \in Names |-> NoPod]
        /\ events = {} /\ inbox = {} /\ task = [p \in Procs |-> Idle]
        /\ job = Absent /\ causes = {}
    BY DEF HInit, Init, ScriptInit, ClusterInit, WebInit, StoreInit
  <2>2. \A m \in Requests : ~Pending(m)
    BY <2>1 DEF Pending, Idle, Requests, NoReq
  <2>3. /\ \A n \in Names : script[n] = "off" /\ pod[n].phase = "none"
        /\ \A p \in Procs : /\ task[p].op = "none" /\ task[p].out = Absent
                            /\ task[p].req = NoReq
    BY <2>1 DEF NoPod, Idle
  <2>4. ScriptsRun /\ AnswersShaped /\ NoEdit
    BY <2>3 DEF ScriptsRun, AnswersShaped, AnswerShape, NoReq, NoEdit
  <2>5. RequestsInv
    BY <2>1, <2>2, <2>3 DEF RequestsInv, AnsweredOnce, RequestsExpected,
       EndsDone, Requests, NoReq
  <2>6. ResultsTold /\ ReportsFirst /\ EventsLast /\ Outcomes
    BY <2>1, <2>3 DEF ResultsTold, ReportsFirst, EventsLast, Outcomes, Finishing
  <2> QED
    BY <2>4, <2>5, <2>6 DEF HistoryInv, FormInv
<1>4. TogetherInv' /\ HistoryInv /\ [HNext]_hvars => HistoryInv'
  <2> SUFFICES ASSUME TogetherInv', HistoryInv, [HNext]_hvars
               PROVE  HistoryInv'
    OBVIOUS
  <2>1. FormInv /\ TypeInv /\ BudgetBound /\ [Next]_vars
    BY <1>2 DEF HistoryInv, FormInv, TogetherInv, StartInv, AloneInv
  <2>2. FormInv'
    BY <2>1, NextScriptsRun, NextAnswersShaped, NextNoEdit DEF FormInv
  <2>3. ASSUME OneReporter, Kept'
        PROVE  /\ RequestsInv' /\ ResultsTold' /\ ReportsFirst'
               /\ EventsLast' /\ Outcomes'
    <3>1. Kept
      BY <2>1, <2>3, KeptStep
    <3>2. RequestsInv /\ ResultsTold /\ ReportsFirst /\ EventsLast /\ Outcomes
      BY <2>3, <3>1 DEF HistoryInv
    <3>3. RequestsInv'
      BY <2>1, <2>3, <3>2, NextAnsweredOnce, NextRequestsExpected, NextEndsDone
         DEF RequestsInv
    <3>4. ResultsTold' /\ ReportsFirst'
      BY <2>1, <2>3, <3>2, NextResultsTold, NextReportsFirst
    <3>5. EventsLast' /\ Outcomes'
      BY <2>1, <2>3, <3>2, NextEventsLast, NextOutcomes
    <3> QED
      BY <3>3, <3>4, <3>5
  <2>4. OneReporter' => OneReporter
    BY DEF OneReporter, Reporter, Distributed
  <2> QED
    BY <2>2, <2>3, <2>4 DEF HistoryInv
<1> QED
  BY <1>1, <1>2, <1>3, <1>4, TogetherCorrect, PTL DEF HSpec, Spec

\* FINISHED is never told of a job whose one reporting pod failed, in its
\* first run, while reports arrive and are handled, rows stay and the start
\* saves no STARTING over an outcome that the job still needs: the pod
\* reports its worker's outcome first (aves_run.sh) and waits for each
\* response, so no late RUNNING is written over it, and the event of a pod
\* that exits with 0 after a failure finds its row settled. Where the start
\* has written over the reporter's row after all, the job was RUNNING by
\* then, its result is written before the pod ends, and
\* process_k8s_pod_event leaves the job alone.
THEOREM FinishedNotFailedCorrect == HSpec => []FinishedNotFailed
<1>1. HistoryInv => FinishedNotFailed
  <2> SUFFICES ASSUME HistoryInv, OneReporter, Kept, job = "FINISHED",
                      "failed" \in causes
               PROVE  FALSE
    BY DEF FinishedNotFailed, Kept
  <2> QED
    BY DEF HistoryInv, Outcomes, Finishing
<1> QED
  BY <1>1, HistoryInvCorrect, PTL
=============================================================================
