--------------------------- MODULE AvesK8s_proofs ---------------------------
(***************************************************************************)
(* Theorems about AvesK8s, for any pods, processes, modes and budgets: its *)
(* type, and its rows. These have their job, what refers to one finds it,  *)
(* and there is one row per pod while the job is started by nobody but the *)
(* task that creating it has queued.                                       *)
(***************************************************************************)
EXTENDS AvesK8s, TLAPS

TypeInv == TypeOK /\ ShapeOK

USE DEF Absent

\* A handler that goes on at a well-formed step leaves the web tier so.
LEMMA GotoType ==
    ASSUME TypeInv, NEW p \in Procs, NEW t,
           t \in Tasks \union {Idle}, Shaped(t), Goto(p, t)
    PROVE  WebOK' /\ \A q \in Procs : Shaped(task'[q])
  BY DEF TypeInv, TypeOK, ShapeOK, WebOK, Goto

\* A busy process whose step is changed to another one of its operation.
LEMMA ToType ==
    ASSUME TypeInv, NEW p \in Procs, task[p].pc # "idle", NEW pc \in Pcs,
           To(p, pc), Shaped([task[p] EXCEPT !.pc = pc])
    PROVE  WebOK' /\ \A q \in Procs : Shaped(task'[q])
<1> DEFINE t == [task[p] EXCEPT !.pc = pc]
<1>1. task[p] \in Tasks
  BY DEF TypeInv, TypeOK, WebOK, Idle
<1>2. t \in Tasks
  BY <1>1 DEF Tasks
<1>3. Goto(p, t)
  BY DEF To
<1> QED
  BY <1>2, <1>3, GotoType

\* A handler that ends.
LEMMA EndType ==
    ASSUME TypeInv, NEW p \in Procs, End(p)
    PROVE  WebOK' /\ \A q \in Procs : Shaped(task'[q])
<1>1. Shaped(Idle)
  BY DEF Shaped, Idle, RowPcs, Writers
<1> QED
  BY <1>1, GotoType DEF End

\* A request, message or user call that an idle process takes.
LEMMA BeginType ==
    ASSUME TypeInv, NEW p \in Procs, NEW t,
           t \in Tasks \union {Idle}, Shaped(t), Begin(p, t)
    PROVE  /\ task' \in [Procs -> Tasks \union {Idle}]
           /\ \A q \in Procs : Shaped(task'[q])
  BY DEF TypeInv, TypeOK, ShapeOK, WebOK, Begin

\* The handler that takes a request or a pod event.
LEMMA HandlerShape ==
    ASSUME NEW op \in Ops, NEW pc \in Pcs, NEW cur \in Rows \union {NoRow},
           NEW out \in Statuses \union {Absent},
           NEW req \in Requests \union {NoReq},
           pc \in RowPcs => cur \in Rows,
           op \in Writers => out # Absent,
           pc \in {"write", "evCount"} => op \in Writers,
           pc = "saveRow" => op \in {"wstat", "event", "image"},
           pc = "evJob" => op \in {"event", "image"}
    PROVE  LET t == Handler(op, pc, cur, out, req)
           IN  t \in Tasks /\ Shaped(t)
  BY DEF Handler, Tasks, Shaped

\* The loop of AvesJob.start.
LEMMA NextWorkerType ==
    ASSUME TypeInv, NEW p \in Procs, Starting(p), NEW rows \in SUBSET Rows,
           NextWorker(p, rows)
    PROVE  WebOK' /\ \A q \in Procs : Shaped(task'[q])
<1>1. CASE rows = {}
  BY <1>1, EndType DEF NextWorker
<1>2. CASE rows # {}
  <2>1. PICK r \in rows :
           Goto(p, [task[p] EXCEPT !.pc = "config", !.cur = r,
                                   !.todo = rows \ {r}])
    BY <1>2 DEF NextWorker
  <2>2. task[p] \in Tasks
    BY DEF TypeInv, TypeOK, WebOK, Idle, Starting
  <2>3. [task[p] EXCEPT !.pc = "config", !.cur = r, !.todo = rows \ {r}] \in Tasks
    BY <2>2 DEF Tasks, Pcs, StartPcs
  <2>4. Shaped([task[p] EXCEPT !.pc = "config", !.cur = r, !.todo = rows \ {r}])
    BY <2>2 DEF Shaped, Tasks, Writers, Starting
  <2> QED
    BY <2>1, <2>3, <2>4, GotoType
<1> QED
  BY <1>1, <1>2

\* The end of the loop over the workers to stop.
LEMMA AfterStopType ==
    ASSUME TypeInv, NEW p \in Procs, task[p].pc \in StopPcs, AfterStop(p)
    PROVE  WebOK' /\ \A q \in Procs : Shaped(task'[q])
<1>1. CASE task[p].op # "cancel"
  BY <1>1, EndType DEF AfterStop
<1>2. CASE task[p].op = "cancel"
  <2> DEFINE t == [task[p] EXCEPT !.pc = "write", !.cur = NoRow]
  <2>1. task[p] \in Tasks /\ Shaped(task[p])
    BY DEF TypeInv, TypeOK, ShapeOK, WebOK, Idle, StopPcs
  <2>2. t \in Tasks /\ Shaped(t)
    BY <2>1, <1>2 DEF Tasks, Shaped, Pcs, RowPcs, Writers
  <2> QED
    BY <1>2, <2>2, GotoType DEF AfterStop
<1> QED
  BY <1>1, <1>2

LEMMA SpendType ==
    ASSUME BudgetOK, NEW k \in Kinds, Spend(k)
    PROVE  BudgetOK'
  BY DEF BudgetOK, Spend

\* A deletion leaves well-formed pods behind.
LEMMA DeletePodType ==
    ASSUME TypeInv, NEW n, DeletePod(n)
    PROVE  /\ pod' \in [Names -> Pods]
           /\ \A m \in Names : pod'[m].phase # "none" => pod'[m].row \in Rows
<1>1. NoPod \in Pods /\ NoPod.phase = "none"
  BY DEF NoPod, Pods, Phases
<1>2. \A q \in Pods : /\ [q EXCEPT !.dying = TRUE] \in Pods
                      /\ [q EXCEPT !.dying = TRUE].phase = q.phase
                      /\ [q EXCEPT !.dying = TRUE].row = q.row
  BY DEF Pods
<1> DEFINE d == IF Live(n) THEN [pod[n] EXCEPT !.dying = TRUE] ELSE NoPod
<1>3. pod' = [pod EXCEPT ![n] = d]
  BY DEF DeletePod
<1>4. n \in Names => /\ d \in Pods
                     /\ d.phase # "none" => d.row \in Rows
  BY <1>1, <1>2 DEF TypeInv, TypeOK, ClusterOK, ShapeOK
<1> HIDE DEF d
<1> QED
  BY <1>3, <1>4 DEF TypeInv, TypeOK, ClusterOK, ShapeOK

\* Every call of a handler keeps the types.
LEMMA HandlerStepType ==
    ASSUME TypeInv, NEW p \in Procs, HandlerStep(p)
    PROVE  TypeInv'
<1> USE DEF TypeInv, TypeOK, ShapeOK, StoreOK, ClusterOK
<1>t. task[p] \in Tasks \union {Idle} /\ Shaped(task[p])
  BY DEF WebOK
<1>s. ScriptOK'
  BY DEF HandlerStep, ScriptOK
<1>1. CASE EnqueueStart(p)
  <2>1. Shaped(Idle)
    BY DEF Shaped, Idle, RowPcs, Writers
  <2> QED
    BY <1>1, <1>s, <2>1 DEF EnqueueStart, WebOK, store, cluster, BudgetOK
<1>2. CASE StartMark(p)
  <2>1. WebOK' /\ \A q \in Procs : Shaped(task'[q])
    BY <1>2, <1>t, ToType
       DEF StartMark, At, Shaped, Pcs, StartPcs, RowPcs, Writers
  <2> QED
    BY <1>2, <1>s, <2>1
       DEF StartMark, SaveJob, cluster, BudgetOK, Statuses
<1>3. CASE StartCount(p)
  <2>1. WebOK' /\ \A q \in Procs : Shaped(task'[q])
    BY <1>3, <1>t, ToType
       DEF StartCount, At, Shaped, Pcs, StartPcs, RowPcs, Writers
  <2> QED
    BY <1>3, <1>s, <2>1 DEF StartCount, store, cluster, BudgetOK
<1>4. CASE MakeCheck(p)
  <2>1. WebOK' /\ \A q \in Procs : Shaped(task'[q])
    BY <1>4, <1>t, ToType
       DEF MakeCheck, At, Shaped, Pcs, StartPcs, RowPcs, Writers
  <2> QED
    BY <1>4, <1>s, <2>1 DEF MakeCheck, store, cluster, BudgetOK
<1>5. CASE MakeInsert(p)
  <2>1. WebOK' /\ \A q \in Procs : Shaped(task'[q])
    BY <1>5, <1>t, ToType
       DEF MakeInsert, At, Shaped, Pcs, StartPcs, RowPcs, Writers
  <2>2. job' \in Statuses \union {Absent} /\ made' \in 0 .. MaxMakes
    BY <1>5, StoreAssumption
       DEF MakeInsert, MakeWorkers, CanMakeWorkers, store
  <2>3. wst' \in [Rows -> Statuses \union {Absent}]
    BY <1>5 DEF MakeInsert, MakeWorkers, store, Statuses
  <2> QED
    BY <1>5, <1>s, <2>1, <2>2, <2>3 DEF MakeInsert, cluster, BudgetOK
<1>6. CASE StartList(p)
  <2>1. WebOK' /\ \A q \in Procs : Shaped(task'[q])
    BY <1>6, NextWorkerType DEF StartList, At, Starting, JobWorkers
  <2> QED
    BY <1>6, <1>s, <2>1 DEF StartList, store, cluster, BudgetOK
<1>7. CASE StartConfig(p)
  <2>1. WebOK' /\ \A q \in Procs : Shaped(task'[q])
    BY <1>7, <1>t, ToType
       DEF StartConfig, At, Shaped, Pcs, StartPcs, RowPcs, Writers
  <2>2. task[p].cur \in Rows
    BY <1>7, <1>t DEF StartConfig, At, Shaped, RowPcs
  <2>3. BudgetOK'
    BY <1>7, SpendType DEF StartConfig, BudgetOK, Kinds, FaultKinds
  <2> QED
    BY <1>7, <1>s, <2>1, <2>2, <2>3 DEF StartConfig, store
<1>8. CASE StartPod(p)
  <2>1. WebOK' /\ \A q \in Procs : Shaped(task'[q])
    BY <1>8, <1>t, ToType
       DEF StartPod, At, Shaped, Pcs, StartPcs, RowPcs, Writers
  <2>2. task[p].cur \in Rows
    BY <1>8, <1>t DEF StartPod, At, Shaped, RowPcs
  <2>3. BudgetOK'
    BY <1>8, SpendType DEF StartPod, BudgetOK, Kinds, FaultKinds
  <2>4. /\ pod' \in [Names -> Pods]
        /\ \A n \in Names : pod'[n].phase # "none" => pod'[n].row \in Rows
    <3>1. CASE UNCHANGED pod
      BY <3>1
    <3>2. CASE CreatePod(task[p].cur)
      <4> DEFINE c == [phase |-> "pending", dying |-> FALSE, row |-> task[p].cur]
      <4>1. c \in Pods /\ c.row \in Rows
        BY <2>2 DEF Pods, Phases
      <4>2. pod' = [pod EXCEPT ![NameOf(task[p].cur)] = c]
        BY <3>2 DEF CreatePod
      <4> HIDE DEF c
      <4> QED
        BY <4>1, <4>2
    <3> QED
      BY <1>8, <3>1, <3>2 DEF StartPod
  <2> QED
    BY <1>8, <1>s, <2>1, <2>3, <2>4 DEF StartPod, store
<1>9. CASE StartSave(p)
  <2>1. WebOK' /\ \A q \in Procs : Shaped(task'[q])
    BY <1>9, <1>t, NextWorkerType, EndType
       DEF StartSave, At, Starting, Tasks, Idle
  <2> QED
    BY <1>9, <1>s, <2>1
       DEF StartSave, SaveWorker, cluster, BudgetOK, Statuses
<1>10. CASE StartFail(p)
  <2>1. WebOK' /\ \A q \in Procs : Shaped(task'[q])
    BY <1>10, EndType DEF StartFail
  <2> QED
    BY <1>10, <1>s, <2>1
       DEF StartFail, SaveJob, cluster, BudgetOK, Statuses
<1>11. CASE StopList(p)
  <2>1. WebOK' /\ \A q \in Procs : Shaped(task'[q])
    <3> DEFINE rows == {r \in JobWorkers : ~Spared(task[p].op, r)}
               t == [task[p] EXCEPT !.pc = "stopPod", !.todo = rows]
    <3>1. CASE rows = {}
      BY <1>11, <3>1, AfterStopType DEF StopList, StopPcs
    <3>2. CASE rows # {}
      <4>1. t \in Tasks
        <5>1. task[p] \in Tasks
          BY <1>11, <1>t DEF StopList, Idle
        <5>2. rows \in SUBSET Rows
          BY DEF JobWorkers
        <5> HIDE DEF rows
        <5> QED
          BY <5>1, <5>2 DEF Tasks, Pcs, StopPcs
      <4>2. Shaped(t)
        BY <1>11, <1>t DEF StopList, Tasks, Idle, Shaped, RowPcs
      <4> QED
        BY <1>11, <3>2, <4>1, <4>2, GotoType DEF StopList
    <3> QED
      BY <3>1, <3>2
  <2> QED
    BY <1>11, <1>s, <2>1 DEF StopList, store, cluster, BudgetOK
<1>12. CASE StopPod(p)
  <2>0. PICK r \in task[p].todo :
           /\ \/ DeletePod(NameOf(r)) /\ UNCHANGED budget
              \/ Spend("refuse") /\ UNCHANGED pod
           /\ Goto(p, [task[p] EXCEPT !.pc = "stopCm", !.cur = r,
                                      !.todo = @ \ {r}])
    BY <1>12 DEF StopPod
  <2>1. WebOK' /\ \A q \in Procs : Shaped(task'[q])
    <3> DEFINE t == [task[p] EXCEPT !.pc = "stopCm", !.cur = r,
                                    !.todo = @ \ {r}]
    <3>1. task[p] \in Tasks /\ r \in Rows
      BY <1>12, <1>t DEF StopPod, Tasks, Idle
    <3>2. t \in Tasks /\ Shaped(t)
      BY <3>1, <1>t, <1>12 DEF StopPod, Tasks, Pcs, StopPcs, Shaped, RowPcs
    <3> QED
      BY <2>0, <3>2, GotoType
  <2>2. BudgetOK'
    BY <2>0, SpendType DEF BudgetOK, Kinds, FaultKinds
  <2>3. /\ pod' \in [Names -> Pods]
        /\ \A n \in Names : pod'[n].phase # "none" => pod'[n].row \in Rows
    <3>1. CASE UNCHANGED pod
      BY <3>1
    <3>2. CASE DeletePod(NameOf(r))
      BY <3>2, DeletePodType
    <3> QED
      BY <2>0, <3>1, <3>2
  <2> QED
    BY <1>12, <1>s, <2>1, <2>2, <2>3 DEF StopPod, store
<1>13. CASE StopCm(p)
  <2>1. WebOK' /\ \A q \in Procs : Shaped(task'[q])
    BY <1>13, <1>t, AfterStopType, ToType
       DEF StopCm, StopPcs, Pcs, Shaped, Tasks, Idle, RowPcs
  <2>2. BudgetOK'
    BY <1>13, SpendType DEF StopCm, BudgetOK, Kinds, FaultKinds
  <2> QED
    BY <1>13, <1>s, <2>1, <2>2 DEF StopCm, store
<1>14. CASE WriteJob(p)
  <2>1. WebOK' /\ \A q \in Procs : Shaped(task'[q])
    BY <1>14, <1>t, ToType, EndType
       DEF WriteJob, Shaped, Pcs, StopPcs, RowPcs, Tasks, Idle
  <2>2. task[p].out \in Statuses \union {Absent}
    BY <1>14, <1>t DEF WriteJob, Tasks, Idle
  <2> QED
    BY <1>14, <1>s, <2>1, <2>2 DEF WriteJob, SaveJob, cluster, BudgetOK
<1>15. CASE SaveRow(p)
  <2>1. WebOK' /\ \A q \in Procs : Shaped(task'[q])
    BY <1>15, <1>t, ToType, EndType
       DEF SaveRow, Shaped, Pcs, RowPcs, StartPcs, StopPcs, Tasks, Idle
  <2>2. task[p].out \in Statuses \union {Absent}
    BY <1>15, <1>t DEF SaveRow, Tasks, Idle
  <2> QED
    BY <1>15, <1>s, <2>1, <2>2 DEF SaveRow, SaveWorker, cluster, BudgetOK
<1>16. CASE EventJob(p)
  <2>1. WebOK' /\ \A q \in Procs : Shaped(task'[q])
    <3>1. task[p].pc = "evJob" /\ task[p] \in Tasks
      BY <1>16, <1>t DEF EventJob, Idle
    <3>2. task[p].op \in {"event", "image"}
      BY <3>1, <1>t DEF Shaped
    <3>3. \/ End(p)
          \/ To(p, "write")
          \/ To(p, "evCount")
      BY <1>16, <3>2 DEF EventJob, JobExists
    <3>4. \A pc \in {"write", "evCount"} : Shaped([task[p] EXCEPT !.pc = pc])
      BY <3>1, <3>2, <1>t DEF Shaped, Tasks, RowPcs, Writers
    <3> QED
      BY <3>1, <3>3, <3>4, ToType, EndType DEF Pcs
  <2> QED
    BY <1>16, <1>s, <2>1 DEF EventJob, store, cluster, BudgetOK
<1>17. CASE EventCount(p)
  <2>1. WebOK' /\ \A q \in Procs : Shaped(task'[q])
    BY <1>17, <1>t, ToType, EndType
       DEF EventCount, Shaped, Pcs, RowPcs, StartPcs, StopPcs, Writers
  <2> QED
    BY <1>17, <1>s, <2>1 DEF EventCount, store, cluster, BudgetOK
<1> QED
  BY <1>1, <1>2, <1>3, <1>4, <1>5, <1>6, <1>7, <1>8, <1>9, <1>10, <1>11,
     <1>12, <1>13, <1>14, <1>15, <1>16, <1>17 DEF HandlerStep
\* What the users ask for keeps the types.
LEMMA UserStepType ==
    ASSUME TypeInv, UserStep
    PROVE  TypeInv'
<1> USE DEF TypeInv, TypeOK, ShapeOK, StoreOK, ClusterOK
<1>s. ScriptOK'
  BY DEF UserStep, ScriptOK
<1>1. CASE DestroyJob
  <2>1. BudgetOK'
    BY <1>1, SpendType DEF DestroyJob, Kinds, UserKinds
  <2> QED
    BY <1>1, <1>s, <2>1
       DEF DestroyJob, DeleteJob, cluster, web, WebOK
<1>2. CASE \E p \in Procs : CreateJob(p) \/ StartJob(p) \/ CancelJob(p)
                            \/ CleanJob(p) \/ EditJob(p)
  <2>1. PICK p \in Procs : CreateJob(p) \/ StartJob(p) \/ CancelJob(p)
                           \/ CleanJob(p) \/ EditJob(p)
    BY <1>2
  <2>2. /\ NoReq \in Requests \union {NoReq}
        /\ job # Absent => job \in Statuses
    OBVIOUS
  <2>3. PICK t \in Tasks \union {Idle} : Shaped(t) /\ Begin(p, t)
    <3>1. CASE CreateJob(p)
      BY <3>1, HandlerShape
         DEF CreateJob, Ops, Pcs, RowPcs, Writers
    <3>2. CASE StartJob(p)
      BY <3>2, HandlerShape
         DEF StartJob, StartHandler, Ops, Pcs, StartPcs, RowPcs, Writers
    <3>3. CASE CancelJob(p)
      BY <3>3, HandlerShape
         DEF CancelJob, Ops, Pcs, StopPcs, RowPcs, Writers, Statuses
    <3>4. CASE CleanJob(p)
      BY <3>4, HandlerShape
         DEF CleanJob, Ops, Pcs, StopPcs, RowPcs, Writers
    <3>5. CASE EditJob(p)
      BY <3>5, <2>2, HandlerShape
         DEF EditJob, JobExists, Ops, Pcs, RowPcs, Writers
    <3> QED
      BY <2>1, <3>1, <3>2, <3>3, <3>4, <3>5
  <2>4. BudgetOK'
    BY <2>1, SpendType
       DEF CreateJob, StartJob, CancelJob, CleanJob, EditJob, Kinds, UserKinds
  <2>5. /\ job' \in Statuses \union {Absent}
        /\ UNCHANGED <<wst, made, cluster, startMsgs, inbox, waiting>>
    BY <2>1 DEF CreateJob, StartJob, CancelJob, CleanJob, EditJob, SaveJob,
                Statuses, store
  <2> QED
    BY <2>3, <2>4, <2>5, <1>s, BeginType DEF cluster, WebOK
<1> QED
  BY <1>1, <1>2 DEF UserStep

\* Taking a message, a request or a pod event keeps the types.
LEMMA TakeType ==
    ASSUME TypeInv,
           \/ TakeMessage
           \/ \E m \in Requests : TakeRequest(m)
           \/ \E e \in Events : TakeEvent(e)
    PROVE  TypeInv'
<1> USE DEF TypeInv, TypeOK, ShapeOK, StoreOK, ClusterOK
<1>s. ScriptOK' /\ Shaped(Idle)
  BY DEF TakeMessage, TakeRequest, TakeEvent, ScriptOK, Shaped, Idle, RowPcs,
         Writers
<1>1. CASE TakeMessage
  <2>1. PICK p \in Procs : StartAvesjob(p)
    BY <1>1 DEF TakeMessage
  <2>2. PICK t \in Tasks \union {Idle} : Shaped(t) /\ Begin(p, t)
    BY <2>1, <1>s, HandlerShape
       DEF StartAvesjob, StartHandler, Ops, Pcs, StartPcs, RowPcs, Writers
  <2> QED
    BY <2>1, <2>2, <1>s, BeginType
       DEF StartAvesjob, store, cluster, WebOK, BudgetOK
<1>2. CASE \E m \in Requests : TakeRequest(m)
  <2>1. PICK m \in Requests, p \in Procs : HandleRequest(p, m)
    BY <1>2 DEF TakeRequest
  <2>2. /\ m.row \in Rows
        /\ m.kind \in {"wstat", "jstat", "jres"}
        /\ m.st \in Statuses
    BY DEF Requests, Statuses
  <2>3. \A t \in {WorkerChangeStatus(m), JobChangeStatus(m), FinishJob(m)} :
           t \in Tasks \union {Idle} /\ Shaped(t)
    <3>1. LET t == Handler("wstat", "saveRow", m.row, m.st, m)
          IN  t \in Tasks /\ Shaped(t)
      BY <2>2, HandlerShape DEF Ops, Pcs, RowPcs, Writers, Statuses
    <3>2. LET t == Handler("jstat", "write", NoRow, m.st, m)
          IN  t \in Tasks /\ Shaped(t)
      BY <2>2, HandlerShape DEF Ops, Pcs, RowPcs, Writers, Statuses
    <3>3. LET t == Handler("finish", "write", NoRow, m.st, m)
          IN  t \in Tasks /\ Shaped(t)
      BY <2>2, HandlerShape DEF Ops, Pcs, RowPcs, Writers, Statuses
    <3> QED
      BY <3>1, <3>2, <3>3, <1>s
         DEF WorkerChangeStatus, JobChangeStatus, FinishJob
  <2>4. PICK t \in {WorkerChangeStatus(m), JobChangeStatus(m), FinishJob(m)} :
           Begin(p, t)
    BY <2>1, <2>2 DEF HandleRequest
  <2> QED
    BY <2>1, <2>3, <2>4, <1>s, BeginType
       DEF HandleRequest, store, cluster, WebOK, BudgetOK
<1>3. CASE \E e \in Events : TakeEvent(e)
  <2>1. PICK e \in Events, p \in Procs : ProcessEvent(p, e)
    BY <1>3 DEF TakeEvent
  <2>2. e.row \in Rows /\ e.kind \in EventKinds
    BY DEF Events
  <2>3. PICK t \in {Idle,
                    Handler("event", "saveRow", e.row, "FINISHED", NoReq),
                    Handler("event", "saveRow", e.row, "FAILURE", NoReq),
                    Handler("image", "saveRow", e.row, "FAILURE", NoReq)} :
           Begin(p, t)
    BY <2>1, <2>2 DEF ProcessEvent, Outcome, EventKinds
  <2>4. t \in Tasks \union {Idle} /\ Shaped(t)
    <3>1. \A op \in {"event", "image"}, st \in {"FINISHED", "FAILURE"} :
             LET h == Handler(op, "saveRow", e.row, st, NoReq)
             IN  h \in Tasks /\ Shaped(h)
      BY <2>2, HandlerShape DEF Ops, Pcs, RowPcs, Writers, Statuses
    <3> QED
      BY <2>3, <3>1, <1>s
  <2> QED
    BY <2>1, <2>3, <2>4, <1>s, BeginType
       DEF ProcessEvent, store, WebOK, BudgetOK
<1> QED
  BY <1>1, <1>2, <1>3

\* A script that moves on, with a report or without, keeps the types.
LEMMA ScriptMoveType ==
    ASSUME TypeInv, NEW n \in Names, NEW from, NEW to \in ScriptPcs,
           Moves(n, from, to),
           \/ Quietly
           \/ \E kind \in {"wstat", "jstat", "jres"},
                 st \in {"RUNNING", "FINISHED", "FAILURE"} : Report(n, kind, st),
           ScriptFrame, BudgetOK'
    PROVE  TypeInv'
<1> USE DEF TypeInv, TypeOK, ShapeOK, StoreOK, ClusterOK
<1>1. ScriptOK'
  BY DEF Moves, ScriptOK
<1>2. inbox' \in SUBSET Requests /\ waiting' \in SUBSET Requests
  <2>1. CASE Quietly
    BY <2>1 DEF Quietly, WebOK
  <2>2. CASE ~Quietly
    <3>1. PICK kind \in {"wstat", "jstat", "jres"},
               st \in {"RUNNING", "FINISHED", "FAILURE"} : Report(n, kind, st)
      BY <2>2
    <3>2. pod[n].row \in Rows
      BY DEF Moves
    <3>3. [row |-> pod[n].row, kind |-> kind, st |-> st] \in Requests
      BY <3>2 DEF Requests
    <3> QED
      BY <3>1, <3>3 DEF Report, WebOK
  <2> QED
    BY <2>1, <2>2
<1> QED
  BY <1>1, <1>2 DEF ScriptFrame, store, cluster, WebOK

\* Every step of a script that is one call of it.
LEMMA ScriptType ==
    ASSUME TypeInv, NEW n \in Names,
           \/ ReportWorkerRunning(n) \/ Rendezvous(n) \/ Prepare(n)
           \/ StartMpi(n) \/ ReportResult(n) \/ ReportBroken(n)
           \/ Breaks(n) \/ TrainStep(n)
    PROVE  TypeInv'
<1>1. ScriptFrame /\ BudgetOK'
  <2>1. CASE Breaks(n)
    BY <2>1, SpendType DEF Breaks, TrainPc, Kinds, FaultKinds, TypeInv,
                           TypeOK
  <2>2. CASE ~Breaks(n)
    BY <2>2 DEF ReportWorkerRunning, Rendezvous, Prepare, StartMpi,
                ReportResult, ReportBroken, TrainStep, TrainWon, TrainLost,
                TypeInv, TypeOK, BudgetOK
  <2> QED
    BY <2>1, <2>2
<1>2. \E to \in ScriptPcs : \E from : Moves(n, from, to)
  BY DEF ReportWorkerRunning, Rendezvous, Prepare, StartMpi, ReportResult,
         ReportBroken, Breaks, TrainStep, TrainWon, TrainLost,
         ScriptPcs
<1>3. \/ Quietly
      \/ \E kind \in {"wstat", "jstat", "jres"},
            st \in {"RUNNING", "FINISHED", "FAILURE"} : Report(n, kind, st)
  BY DEF ReportWorkerRunning, Rendezvous, Prepare, StartMpi, ReportResult,
         ReportBroken, Breaks, TrainStep, TrainWon, TrainLost
<1> QED
  BY <1>1, <1>2, <1>3, ScriptMoveType

\* A pod whose phase changes is still a pod, of the row it had.
LEMMA PhaseType ==
    ASSUME TypeInv, NEW n \in Names, NEW ph \in Phases, pod[n].phase # "none",
           pod' = [pod EXCEPT ![n].phase = ph]
    PROVE  /\ pod' \in [Names -> Pods]
           /\ \A m \in Names : pod'[m].phase # "none" => pod'[m].row \in Rows
<1> DEFINE d == [pod[n] EXCEPT !.phase = ph]
<1>1. pod' = [pod EXCEPT ![n] = d]
  OBVIOUS
<1>2. pod[n] \in Pods /\ pod[n].row \in Rows
  BY DEF TypeInv, TypeOK, ClusterOK, ShapeOK
<1>3. d \in Pods /\ d.row \in Rows
  BY <1>2 DEF Pods
<1> HIDE DEF d
<1> QED
  BY <1>1, <1>3 DEF TypeInv, TypeOK, ClusterOK, ShapeOK

\* The event of a pod that is there.
LEMMA EventType ==
    ASSUME TypeInv, NEW n \in Names, NEW kind \in EventKinds,
           pod[n].phase # "none"
    PROVE  events \union {[row |-> pod[n].row, kind |-> kind]} \in SUBSET Events
<1>1. pod[n].row \in Rows
  BY DEF TypeInv, ShapeOK
<1>2. [row |-> pod[n].row, kind |-> kind] \in Events
  BY <1>1 DEF Events
<1> QED
  BY <1>2 DEF TypeInv, TypeOK, ClusterOK

\* The steps of the cluster keep the types.
LEMMA ClusterType ==
    ASSUME TypeInv,
           \/ \E n \in Names : \/ ScriptEnds(n) \/ PodStarts(n) \/ PodGoes(n)
                               \/ PodDies(n) \/ ImageFails(n)
           \/ WatchAgain
           \/ \E e \in Events : EventDropped(e)
    PROVE  TypeInv'
<1> USE DEF TypeInv, TypeOK
<1>1. ASSUME NEW n \in Names, ScriptEnds(n)
      PROVE  TypeInv'
  <2>1. /\ pod' \in [Names -> Pods]
        /\ \A m \in Names : pod'[m].phase # "none" => pod'[m].row \in Rows
    BY <1>1, PhaseType DEF ScriptEnds, PodExits, Phases
  <2>2. events' \in SUBSET Events /\ cm' = cm
    BY <1>1, EventType DEF ScriptEnds, PodExits, EventKinds
  <2> QED
    BY <1>1, <2>1, <2>2 DEF ScriptEnds, ScriptOK, ScriptPcs, store, web,
       StoreOK, ClusterOK, WebOK, BudgetOK, ShapeOK
<1>2. ASSUME NEW n \in Names, PodStarts(n)
      PROVE  TypeInv'
  <2>1. /\ pod' \in [Names -> Pods]
        /\ \A m \in Names : pod'[m].phase # "none" => pod'[m].row \in Rows
    BY <1>2, PhaseType DEF PodStarts, PodRuns, Phases
  <2> QED
    BY <1>2, <2>1 DEF PodStarts, PodRuns, ScriptOK, ScriptPcs, store, web,
       StoreOK, ClusterOK, WebOK, BudgetOK, ShapeOK
<1>3. ASSUME NEW n \in Names, PodGoes(n)
      PROVE  TypeInv'
  <2>1. NoPod \in Pods /\ NoPod.phase = "none"
    BY DEF NoPod, Pods, Phases
  <2>2. pod' = [pod EXCEPT ![n] = NoPod]
    BY <1>3 DEF PodGoes, PodRemoved
  <2>3. /\ pod' \in [Names -> Pods]
        /\ \A m \in Names : pod'[m].phase # "none" => pod'[m].row \in Rows
    BY <2>1, <2>2 DEF ClusterOK, ShapeOK
  <2> QED
    BY <1>3, <2>3 DEF PodGoes, PodRemoved, ScriptOK, store, web,
       StoreOK, ClusterOK, WebOK, BudgetOK, ShapeOK
<1>4. ASSUME NEW n \in Names, PodDies(n)
      PROVE  TypeInv'
  <2>1. PICK seen \in BOOLEAN : PodKilled(n, seen)
    BY <1>4 DEF PodDies
  <2>2. /\ pod' \in [Names -> Pods]
        /\ \A m \in Names : pod'[m].phase # "none" => pod'[m].row \in Rows
    BY <2>1, PhaseType DEF PodKilled, Phases
  <2>3. events' \in SUBSET Events /\ cm' = cm
    BY <2>1, EventType DEF PodKilled, EventKinds, ClusterOK
  <2>4. BudgetOK'
    BY <1>4, SpendType DEF PodDies, Kinds, FaultKinds, BudgetOK
  <2> QED
    BY <1>4, <2>2, <2>3, <2>4 DEF PodDies, ScriptOK, ScriptPcs, store,
       StoreOK, ClusterOK, WebOK, ShapeOK
<1>5. ASSUME NEW n \in Names, ImageFails(n)
      PROVE  TypeInv'
  <2>1. events' \in SUBSET Events
    BY <1>5, EventType DEF ImageFails, ImageError, EventKinds
  <2>2. BudgetOK'
    BY <1>5, SpendType DEF ImageFails, Kinds, FaultKinds
  <2> QED
    BY <1>5, <2>1, <2>2 DEF ImageFails, ImageError, ScriptOK, store, web,
       StoreOK, ClusterOK, WebOK, ShapeOK
<1>6. CASE WatchAgain
  <2>1. \A n \in Names, kind \in EventKinds :
           pod[n].phase # "none" => [row |-> pod[n].row, kind |-> kind] \in Events
    BY EventType
  <2>2. \A kind \in EventKinds, ph \in {"succeeded", "failed"} :
           {[row |-> pod[n].row, kind |-> kind] :
               n \in {m \in Names : pod[m].phase = ph}} \subseteq Events
    BY <2>1
  <2>3. events' \in SUBSET Events
    BY <1>6, <2>2 DEF WatchAgain, Resync, EventKinds, ClusterOK
  <2>4. BudgetOK'
    BY <1>6, SpendType DEF WatchAgain, Kinds, FaultKinds
  <2> QED
    BY <1>6, <2>3, <2>4 DEF WatchAgain, Resync, ScriptOK, store, web,
       StoreOK, ClusterOK, WebOK, ShapeOK
<1>7. ASSUME NEW e \in Events, EventDropped(e)
      PROVE  TypeInv'
  <2>1. BudgetOK'
    BY <1>7, SpendType DEF EventDropped, Kinds, FaultKinds
  <2> QED
    BY <1>7, <2>1 DEF EventDropped, EventLost, ScriptOK, store, web,
       StoreOK, ClusterOK, WebOK, ShapeOK
<1> QED
  BY <1>1, <1>2, <1>3, <1>4, <1>5, <1>6, <1>7

\* What goes wrong keeps the types.
LEMMA FaultType ==
    ASSUME TypeInv, Fault
    PROVE  TypeInv'
<1> USE DEF TypeInv, TypeOK
<1>1. ASSUME NEW p \in Procs, Crash(p) /\ UNCHANGED script
      PROVE  TypeInv'
  <2>1. WebOK' /\ \A q \in Procs : Shaped(task'[q])
    BY <1>1, EndType DEF Crash
  <2>2. BudgetOK'
    BY <1>1, SpendType DEF Crash, Kinds, FaultKinds
  <2> QED
    BY <1>1, <2>1, <2>2 DEF Crash, ScriptOK, store, cluster, StoreOK,
       ClusterOK, ShapeOK
<1>2. ASSUME NEW m \in Requests, ReportTimesOut(m) \/ ReportLost(m)
      PROVE  TypeInv'
  <2>1. BudgetOK'
    BY <1>2, SpendType DEF ReportTimesOut, ReportLost, Kinds, FaultKinds
  <2> QED
    BY <1>2, <2>1 DEF ReportTimesOut, ReportLost, ScriptFrame, ScriptOK,
       store, cluster, StoreOK, ClusterOK, WebOK, ShapeOK
<1> QED
  BY <1>1, <1>2, ScriptType, ClusterType DEF Fault

\* Every step does.
LEMMA NextType ==
    ASSUME TypeInv, [Next]_vars
    PROVE  TypeInv'
<1>1. CASE UNCHANGED vars
  BY <1>1 DEF vars, store, cluster, web, TypeInv, TypeOK, StoreOK, ClusterOK,
              WebOK, ScriptOK, BudgetOK, ShapeOK
<1>2. ASSUME NEW n \in Names, ScriptStep(n) \/ TrainStep(n) \/ KubeletStep(n)
      PROVE  TypeInv'
  BY <1>2, ScriptType, ClusterType DEF ScriptStep, KubeletStep
<1> QED
  BY <1>1, <1>2, UserStepType, HandlerStepType, TakeType, FaultType DEF Next

LEMMA InitType == Init => TypeInv
<1> SUFFICES ASSUME Init PROVE TypeInv
  OBVIOUS
<1>1. StoreOK
  BY StoreAssumption DEF Init, StoreInit, StoreOK
<1>2. ClusterOK /\ \A n \in Names : pod[n].phase = "none"
  BY DEF Init, ClusterInit, ClusterOK, NoPod, Pods, Phases
<1>3. WebOK /\ \A p \in Procs : Shaped(task[p])
  BY DEF Init, WebInit, WebOK, Shaped, Idle, RowPcs, Writers
<1>4. ScriptOK /\ BudgetOK
  BY BudgetAssumption
     DEF Init, ScriptInit, ScriptOK, ScriptPcs, BudgetInit, BudgetOK
<1> QED
  BY <1>1, <1>2, <1>3, <1>4 DEF TypeInv, TypeOK, ShapeOK

\* Every variable keeps its type, a handler never reaches a step of another
\* operation or without the row and the status that step needs, and a pod
\* that is there belongs to a worker row.
THEOREM TypeCorrect == Spec => [](TypeOK /\ ShapeOK)
<1>1. Spec => []TypeInv
  BY InitType, NextType, PTL DEF Spec
<1> QED
  BY <1>1, PTL DEF TypeInv

-----------------------------------------------------------------------------
(* What a step may do to the database, whichever handler takes it.         *)

JobIsSaved == job' \in Statuses /\ UNCHANGED <<wst, made>>
RowIsSaved == /\ \E p \in Procs, s \in Statuses :
                    task[p].cur \in Rows /\ SaveWorker(task[p].cur, s)
              /\ UNCHANGED <<job, made>>
RowsAreMade == MakeWorkers /\ UNCHANGED job

StoreStep == \/ UNCHANGED store
             \/ JobIsSaved
             \/ RowIsSaved
             \/ RowsAreMade
             \/ DestroyJob

LEMMA HandlerStore ==
    ASSUME TypeInv, NEW p \in Procs, HandlerStep(p)
    PROVE  StoreStep
<1>t. task[p] \in Tasks \union {Idle} /\ Shaped(task[p])
  BY DEF TypeInv, TypeOK, ShapeOK, WebOK
<1>1. CASE StartMark(p) \/ StartFail(p)
  BY <1>1 DEF StartMark, StartFail, SaveJob, StoreStep, JobIsSaved, Statuses
<1>2. CASE MakeInsert(p)
  BY <1>2 DEF MakeInsert, StoreStep, RowsAreMade
<1>3. CASE StartSave(p)
  <2>1. task[p].cur \in Rows
    BY <1>3, <1>t DEF StartSave, At, Shaped, RowPcs
  <2> QED
    BY <1>3, <2>1 DEF StartSave, StoreStep, RowIsSaved, Statuses, store
<1>4. CASE WriteJob(p)
  <2>1. task[p].out \in Statuses
    BY <1>4, <1>t DEF WriteJob, Shaped, Tasks, Idle
  <2> QED
    BY <1>4, <2>1 DEF WriteJob, SaveJob, StoreStep, JobIsSaved
<1>5. CASE SaveRow(p)
  <2>1. task[p].cur \in Rows /\ task[p].out \in Statuses
    BY <1>5, <1>t DEF SaveRow, Shaped, RowPcs, Writers, Tasks, Idle
  <2> QED
    BY <1>5, <2>1 DEF SaveRow, StoreStep, RowIsSaved, store
<1>6. CASE \/ EnqueueStart(p) \/ StartCount(p) \/ MakeCheck(p) \/ StartList(p)
           \/ StartConfig(p) \/ StartPod(p) \/ StopList(p) \/ StopPod(p)
           \/ StopCm(p) \/ EventJob(p) \/ EventCount(p)
  BY <1>6 DEF EnqueueStart, StartCount, MakeCheck, StartList, StartConfig,
              StartPod, StopList, StopPod, StopCm, EventJob, EventCount,
              StoreStep
<1> QED
  BY <1>1, <1>2, <1>3, <1>4, <1>5, <1>6 DEF HandlerStep

LEMMA NextStore ==
    ASSUME TypeInv, [Next]_vars
    PROVE  StoreStep
<1>1. CASE UNCHANGED vars
  BY <1>1 DEF vars, StoreStep
<1>2. CASE UserStep
  <2>1. CASE DestroyJob
    BY <2>1 DEF StoreStep
  <2>2. ASSUME NEW p \in Procs,
               \/ CreateJob(p) \/ StartJob(p) \/ CancelJob(p)
               \/ CleanJob(p) \/ EditJob(p)
        PROVE  StoreStep
    BY <2>2 DEF CreateJob, StartJob, CancelJob, CleanJob, EditJob, SaveJob,
                StoreStep, JobIsSaved, Statuses
  <2> QED
    BY <1>2, <2>1, <2>2 DEF UserStep
<1>3. CASE \/ TakeMessage
           \/ \E m \in Requests : TakeRequest(m)
           \/ \E e \in Events : TakeEvent(e)
  BY <1>3 DEF TakeMessage, TakeRequest, TakeEvent, StartAvesjob,
              HandleRequest, ProcessEvent, StoreStep
<1>4. ASSUME NEW n \in Names, ScriptStep(n) \/ TrainStep(n) \/ KubeletStep(n)
      PROVE  StoreStep
  BY <1>4 DEF ScriptStep, TrainStep, KubeletStep, ReportWorkerRunning,
              Rendezvous, Prepare, StartMpi, ReportResult, ReportBroken,
              TrainWon, TrainLost, ScriptEnds, PodStarts, PodGoes, PodDies,
              ScriptFrame, StoreStep
<1>5. CASE Fault
  BY <1>5 DEF Fault, Crash, Breaks, ImageFails, PodDies,
              ReportTimesOut, ReportLost, EventDropped, WatchAgain,
              ScriptFrame, StoreStep
<1> QED
  BY <1>1, <1>2, <1>3, <1>4, <1>5, HandlerStore DEF Next

\* A worker row never outlives its job: bulk_create needs the job's row, a
\* save of a row that a destroy has deleted under it fails, and the destroy
\* of the job takes its workers with it.
THEOREM RowsCorrect == Spec => []RowsHaveJob
<1>1. Init => RowsHaveJob
  BY DEF Init, StoreInit, RowsHaveJob, JobWorkers
<1>2. TypeInv /\ RowsHaveJob /\ [Next]_vars => RowsHaveJob'
  <2> SUFFICES ASSUME TypeInv, RowsHaveJob, [Next]_vars, NEW r \in Rows,
                      wst'[r] # Absent
               PROVE  job' # Absent
    BY DEF RowsHaveJob, JobWorkers, JobExists
  <2> USE DEF RowsHaveJob, JobWorkers, JobExists
  <2>1. CASE UNCHANGED store
    BY <2>1 DEF store
  <2>2. CASE JobIsSaved
    BY <2>2 DEF JobIsSaved, Statuses
  <2>3. CASE RowIsSaved
    <3>1. PICK p \in Procs, s \in Statuses :
             task[p].cur \in Rows /\ SaveWorker(task[p].cur, s)
      BY <2>3 DEF RowIsSaved
    <3>2. wst \in [Rows -> Statuses \union {Absent}]
      BY DEF TypeInv, TypeOK, StoreOK
    <3> QED
      BY <2>3, <3>1, <3>2 DEF RowIsSaved, SaveWorker, CanSaveWorker
  <2>4. CASE RowsAreMade
    BY <2>4 DEF RowsAreMade, MakeWorkers, CanMakeWorkers
  <2>5. CASE DestroyJob
    BY <2>5 DEF DestroyJob, DeleteJob
  <2> QED
    BY <2>1, <2>2, <2>3, <2>4, <2>5, NextStore DEF StoreStep
<1>3. TypeInv /\ [Next]_vars => TypeInv'
  BY NextType
<1> QED
  BY <1>1, <1>2, <1>3, InitType, PTL DEF Spec
-----------------------------------------------------------------------------
(* What a step may do to a budget.                                         *)

LEMMA HandlerBudget ==
    ASSUME NEW p \in Procs, HandlerStep(p)
    PROVE  UNCHANGED budget \/ Spend("refuse")
  BY DEF HandlerStep, EnqueueStart, StartMark, StartCount, MakeCheck,
         MakeInsert, StartList, StartConfig, StartPod, StartSave, StartFail,
         StopList, StopPod, StopCm, WriteJob, SaveRow, EventJob, EventCount

LEMMA NextBudget ==
    ASSUME [Next]_vars
    PROVE  UNCHANGED budget \/ \E k \in Kinds : Spend(k)
<1> USE DEF Kinds, UserKinds, FaultKinds
<1>1. CASE UNCHANGED vars
  BY <1>1 DEF vars
<1>2. CASE UserStep
  BY <1>2 DEF UserStep, CreateJob, StartJob, CancelJob, CleanJob, EditJob,
              DestroyJob
<1>3. CASE \/ TakeMessage
           \/ \E m \in Requests : TakeRequest(m)
           \/ \E e \in Events : TakeEvent(e)
  BY <1>3 DEF TakeMessage, TakeRequest, TakeEvent, StartAvesjob,
              HandleRequest, ProcessEvent
<1>4. ASSUME NEW n \in Names, ScriptStep(n) \/ TrainStep(n) \/ KubeletStep(n)
      PROVE  UNCHANGED budget \/ \E k \in Kinds : Spend(k)
  BY <1>4 DEF ScriptStep, TrainStep, KubeletStep, ReportWorkerRunning,
              Rendezvous, Prepare, StartMpi, ReportResult, ReportBroken,
              TrainWon, TrainLost, ScriptEnds, PodStarts, PodGoes, PodDies
<1>5. CASE Fault
  BY <1>5 DEF Fault, Crash, Breaks, ImageFails, PodDies,
              ReportTimesOut, ReportLost, EventDropped, WatchAgain
<1>6. ASSUME NEW p \in Procs, HandlerStep(p)
      PROVE  UNCHANGED budget \/ \E k \in Kinds : Spend(k)
  BY <1>6, HandlerBudget
<1> QED
  BY <1>1, <1>2, <1>3, <1>4, <1>5, <1>6 DEF Next

\* Budgets only shrink, so what was spent stays spent.
LEMMA BudgetShrinks ==
    ASSUME TypeInv, BudgetBound, [Next]_vars
    PROVE  /\ BudgetBound'
           /\ \A k \in Kinds : Spent(k) => Spent(k)'
<1>1. \A k \in Kinds : /\ budget[k] \in Nat /\ budget'[k] \in Nat
                       /\ Budget[k] \in Nat
  BY NextType, BudgetAssumption DEF TypeInv, TypeOK, BudgetOK
<1>2. ASSUME NEW k \in Kinds
      PROVE  budget'[k] <= budget[k]
  <2>1. CASE UNCHANGED budget
    BY <1>1, <2>1
  <2>2. ASSUME NEW j \in Kinds, Spend(j)
        PROVE  budget'[k] <= budget[k]
    <3>1. budget' = [budget EXCEPT ![j] = budget[j] - 1]
      BY <2>2 DEF Spend
    <3>2. budget \in [Kinds -> Nat]
      BY DEF TypeInv, TypeOK, BudgetOK
    <3> QED
      BY <3>1, <3>2
  <2> QED
    BY <2>1, <2>2, NextBudget
<1> QED
  BY <1>1, <1>2 DEF BudgetBound, Spent

LEMMA SpendSpent ==
    ASSUME TypeInv, BudgetBound, NEW k \in Kinds, Spend(k)
    PROVE  Spent(k)'
<1>1. budget \in [Kinds -> Nat] /\ Budget[k] \in Nat /\ budget[k] <= Budget[k]
  BY BudgetAssumption DEF TypeInv, TypeOK, BudgetOK, BudgetBound
<1>2. budget'[k] = budget[k] - 1
  BY <1>1 DEF Spend
<1> QED
  BY <1>1, <1>2 DEF Spent

-----------------------------------------------------------------------------
(* Whatever refers to a worker.                                            *)

RefsTo(t) == t.todo \union ({t.cur} \ {NoRow})

HeldIn(W) == \A p \in Procs : RefsTo(task[p]) \subseteq W
PodsFound == \A n \in Names : pod[n].row # NoRow => pod[n].row \in JobWorkers
CmFound == cm \subseteq JobWorkers
EventsFound == \A e \in events : e.row \in JobWorkers
InboxFound == \A m \in inbox : m.row \in JobWorkers

AllFound == HeldIn(JobWorkers) /\ PodsFound /\ CmFound /\ EventsFound /\ InboxFound

\* No step but a destroy deletes a row.
LEMMA RowsGrow ==
    ASSUME TypeInv, [Next]_vars, ~DestroyJob
    PROVE  JobWorkers \subseteq JobWorkers'
<1> SUFFICES ASSUME NEW r \in Rows, wst[r] # Absent
             PROVE  wst'[r] # Absent
  BY DEF JobWorkers
<1>1. wst \in [Rows -> Statuses \union {Absent}]
  BY DEF TypeInv, TypeOK, StoreOK
<1>2. CASE RowIsSaved
  BY <1>1, <1>2 DEF RowIsSaved, SaveWorker, Statuses
<1>3. CASE RowsAreMade
  BY <1>3 DEF RowsAreMade, MakeWorkers
<1>4. CASE UNCHANGED wst
  BY <1>4
<1> QED
  BY <1>2, <1>3, <1>4, NextStore DEF StoreStep, JobIsSaved, store

\* A handler that goes on with rows it had, or has just listed.
LEMMA GotoFound ==
    ASSUME TypeInv, NEW W, JobWorkers \subseteq W, HeldIn(W),
           NEW p \in Procs, NEW t,
           RefsTo(t) \subseteq W, task' = [task EXCEPT ![p] = t]
    PROVE  HeldIn(W)'
  BY DEF TypeInv, TypeOK, WebOK, HeldIn

LEMMA EndFound ==
    ASSUME TypeInv, NEW W, JobWorkers \subseteq W, HeldIn(W),
           NEW p \in Procs, End(p)
    PROVE  HeldIn(W)'
  BY GotoFound DEF End, Goto, RefsTo, Idle

LEMMA ToFound ==
    ASSUME TypeInv, NEW W, JobWorkers \subseteq W, HeldIn(W),
           NEW p \in Procs, NEW pc, To(p, pc)
    PROVE  HeldIn(W)'
<1>1. RefsTo([task[p] EXCEPT !.pc = pc]) = RefsTo(task[p])
  BY DEF TypeInv, TypeOK, WebOK, RefsTo, Tasks, Idle
<1> QED
  BY <1>1, GotoFound DEF To, Goto, HeldIn

LEMMA NextWorkerFound ==
    ASSUME TypeInv, NEW W, JobWorkers \subseteq W, HeldIn(W),
           NEW p \in Procs,
           NEW rows \in SUBSET W, NextWorker(p, rows)
    PROVE  HeldIn(W)'
<1>1. CASE rows = {}
  BY <1>1, EndFound DEF NextWorker
<1>2. CASE rows # {}
  <2>1. PICK r \in rows :
           Goto(p, [task[p] EXCEPT !.pc = "config", !.cur = r,
                                   !.todo = rows \ {r}])
    BY <1>2 DEF NextWorker
  <2>2. task[p] \in Tasks \union {Idle}
    BY DEF TypeInv, TypeOK, WebOK
  <2>3. RefsTo([task[p] EXCEPT !.pc = "config", !.cur = r,
                               !.todo = rows \ {r}]) \subseteq W
    BY <2>2 DEF RefsTo, Tasks, Idle
  <2> QED
    BY <2>1, <2>3, GotoFound DEF Goto
<1> QED
  BY <1>1, <1>2

LEMMA AfterStopFound ==
    ASSUME TypeInv, NEW W, JobWorkers \subseteq W, HeldIn(W),
           NEW p \in Procs, AfterStop(p)
    PROVE  HeldIn(W)'
<1>1. RefsTo([task[p] EXCEPT !.pc = "write", !.cur = NoRow])
         \subseteq RefsTo(task[p])
  BY DEF TypeInv, TypeOK, WebOK, RefsTo, Tasks, Idle
<1> QED
  BY <1>1, EndFound, GotoFound DEF AfterStop, Goto, HeldIn

\* The calls of a handler lose no row.
LEMMA HandlerFound ==
    ASSUME TypeInv, NEW W, JobWorkers \subseteq W, HeldIn(W),
           NEW p \in Procs, HandlerStep(p)
    PROVE  HeldIn(W)'
<1>t. task[p] \in Tasks \union {Idle} /\ RefsTo(task[p]) \subseteq W
  BY DEF TypeInv, TypeOK, WebOK, HeldIn
<1>1. CASE EnqueueStart(p)
  <2>1. RefsTo(Idle) = {}
    BY DEF RefsTo, Idle
  <2> QED
    BY <1>1, <2>1, GotoFound DEF EnqueueStart
<1>2. CASE \/ StartMark(p) \/ StartCount(p) \/ MakeCheck(p) \/ MakeInsert(p)
           \/ StartConfig(p) \/ StartPod(p) \/ StartFail(p)
           \/ WriteJob(p) \/ SaveRow(p) \/ EventCount(p)
  BY <1>2, ToFound, EndFound
     DEF StartMark, StartCount, MakeCheck, MakeInsert, StartConfig, StartPod,
         StartFail, WriteJob, SaveRow, EventCount
<1>3. CASE StartList(p)
  BY <1>3, NextWorkerFound DEF StartList
<1>4. CASE StartSave(p)
  <2>1. task[p].todo \in SUBSET W
    BY <1>t DEF RefsTo
  <2> QED
    BY <1>4, <2>1, NextWorkerFound, EndFound DEF StartSave
<1>5. CASE StopList(p)
  <2> DEFINE rows == {r \in JobWorkers : ~Spared(task[p].op, r)}
  <2>1. rows \subseteq W
    OBVIOUS
  <2>2. \/ AfterStop(p)
        \/ Goto(p, [task[p] EXCEPT !.pc = "stopPod", !.todo = rows])
    BY <1>5 DEF StopList
  <2> HIDE DEF rows
  <2>3. RefsTo([task[p] EXCEPT !.pc = "stopPod", !.todo = rows])
           \subseteq W
    BY <1>t, <2>1 DEF RefsTo, Tasks, Idle
  <2> QED
    BY <2>2, <2>3, AfterStopFound, GotoFound DEF Goto
<1>6. CASE StopPod(p)
  <2>1. PICK r \in task[p].todo :
           Goto(p, [task[p] EXCEPT !.pc = "stopCm", !.cur = r,
                                   !.todo = @ \ {r}])
    BY <1>6 DEF StopPod
  <2>2. RefsTo([task[p] EXCEPT !.pc = "stopCm", !.cur = r, !.todo = @ \ {r}])
           \subseteq W
    BY <1>t DEF RefsTo, Tasks, Idle
  <2> QED
    BY <2>1, <2>2, GotoFound DEF Goto
<1>7. CASE StopCm(p)
  BY <1>7, AfterStopFound, ToFound DEF StopCm
<1>8. CASE EventJob(p)
  <2>1. task[p].op \in {"event", "image"}
    BY <1>8, <1>t DEF EventJob, TypeInv, ShapeOK, Shaped
  <2>2. \/ End(p) \/ To(p, "write") \/ To(p, "evCount")
    BY <1>8, <2>1 DEF EventJob, JobExists
  <2> QED
    BY <2>2, ToFound, EndFound
<1> QED
  BY <1>1, <1>2, <1>3, <1>4, <1>5, <1>6, <1>7, <1>8 DEF HandlerStep
LEMMA NextHeld ==
    ASSUME TypeInv, NEW W, JobWorkers \subseteq W, HeldIn(W), [Next]_vars
    PROVE  HeldIn(W)'
<1>e. RefsTo(Idle) = {} /\ NoRow \notin Rows
  BY StoreAssumption DEF RefsTo, Idle
<1>1. CASE UNCHANGED task
  BY <1>1 DEF HeldIn
<1>2. ASSUME NEW p \in Procs, NEW t, RefsTo(t) \subseteq W, Begin(p, t)
      PROVE  HeldIn(W)'
  BY <1>2, GotoFound DEF Begin
<1>h. \A op, pc, cur, out, req :
         cur \in W \union {NoRow} =>
            RefsTo(Handler(op, pc, cur, out, req)) \subseteq W
  BY DEF RefsTo, Handler
<1>3. CASE UserStep
  <2>1. CASE DestroyJob
    BY <2>1, <1>1 DEF DestroyJob, web
  <2>2. ASSUME NEW p \in Procs,
               \/ CreateJob(p) \/ StartJob(p) \/ CancelJob(p)
               \/ CleanJob(p) \/ EditJob(p)
        PROVE  HeldIn(W)'
    BY <2>2, <1>2, <1>h DEF CreateJob, StartJob, StartHandler, CancelJob,
                            CleanJob, EditJob
  <2> QED
    BY <1>3, <2>1, <2>2 DEF UserStep
<1>4. CASE TakeMessage
  BY <1>4, <1>2, <1>h, <1>e DEF TakeMessage, StartAvesjob, StartHandler
<1>5. ASSUME NEW m \in Requests, NEW p \in Procs, HandleRequest(p, m)
      PROVE  HeldIn(W)'
  <2>1. m.row \in Rows /\ m.kind \in {"wstat", "jstat", "jres"}
    BY <1>5 DEF HandleRequest, Requests
  <2>2. PICK t \in {WorkerChangeStatus(m), JobChangeStatus(m), FinishJob(m)} :
           Begin(p, t)
    BY <1>5, <2>1 DEF HandleRequest
  <2>3. RefsTo(t) \subseteq W
    BY <2>1, <2>2, <1>h, <1>e
       DEF WorkerChangeStatus, JobChangeStatus, FinishJob, JobWorkers
  <2> QED
    BY <2>2, <2>3, <1>2
<1>6. ASSUME NEW e \in Events, NEW p \in Procs, ProcessEvent(p, e)
      PROVE  HeldIn(W)'
  <2>1. e.row \in Rows /\ e.kind \in EventKinds
    BY <1>6 DEF ProcessEvent, Events
  <2>4. CASE wst[e.row] \notin Active
    <3>1. Begin(p, Idle)
      BY <2>4, <1>6 DEF ProcessEvent
    <3> QED
      BY <3>1, <1>2, <1>e
  <2>5. CASE wst[e.row] \in Active
    <3>1. PICK t \in {Handler("event", "saveRow", e.row, "FINISHED", NoReq),
                      Handler("event", "saveRow", e.row, "FAILURE", NoReq),
                      Handler("image", "saveRow", e.row, "FAILURE", NoReq)} :
             Begin(p, t)
      BY <1>6, <2>1, <2>5 DEF ProcessEvent, Outcome, EventKinds
    <3>2. e.row \in W
      BY <2>1, <2>5 DEF JobWorkers, Active
    <3>3. RefsTo(t) \subseteq W
      BY <3>1, <3>2, <1>h
    <3> QED
      BY <3>1, <3>3, <1>2
  <2> QED
    BY <2>4, <2>5
<1>7. ASSUME NEW n \in Names, ScriptStep(n) \/ TrainStep(n) \/ KubeletStep(n)
      PROVE  UNCHANGED task
  BY <1>7 DEF ScriptStep, TrainStep, KubeletStep, ReportWorkerRunning,
              Rendezvous, Prepare, StartMpi, ReportResult, ReportBroken,
              TrainWon, TrainLost, ScriptEnds, PodStarts, PodGoes, PodDies,
              ScriptFrame, web
<1>8. CASE Fault
  <2>1. CASE \E p \in Procs : Crash(p)
    BY <2>1, EndFound DEF Crash
  <2>2. CASE ~ \E p \in Procs : Crash(p)
    BY <1>8, <2>2, <1>1
       DEF Fault, Breaks, ImageFails, PodDies, ReportTimesOut,
           ReportLost, EventDropped, WatchAgain, ScriptFrame, web
  <2> QED
    BY <2>1, <2>2
<1> QED
  BY <1>1, <1>3, <1>4, <1>5, <1>6, <1>7, <1>8, HandlerFound
     DEF Next, TakeRequest, TakeEvent, vars, web

\* The steps that touch neither the cluster nor the requests of scripts.
Elsewhere == UNCHANGED <<pod, cm, events, inbox>>

LEMMA StepKinds ==
    ASSUME TypeInv, [Next]_vars
    PROVE  \/ Elsewhere
           \/ \E p \in Procs : StartConfig(p) \/ StartPod(p) \/ StopPod(p)
                               \/ StopCm(p)
           \/ \E m \in Requests, p \in Procs : HandleRequest(p, m)
           \/ \E e \in Events, p \in Procs : ProcessEvent(p, e)
           \/ \E n \in Names : \E kind, st : Report(n, kind, st)
                 /\ pod[n].phase = "running" /\ UNCHANGED <<pod, cm, events>>
           \/ \E n \in Names : \/ PodStarts(n) \/ PodGoes(n) \/ PodDies(n)
                               \/ ScriptEnds(n) \/ ImageFails(n)
           \/ WatchAgain
           \/ \E m \in Requests : ReportLost(m)
           \/ \E e \in Events : EventDropped(e)
<1> USE DEF Elsewhere
<1>1. CASE UNCHANGED vars
  BY <1>1 DEF vars, cluster, web
<1>2. CASE UserStep
  BY <1>2 DEF UserStep, DestroyJob, CreateJob, StartJob, CancelJob, CleanJob,
              EditJob, cluster, web
<1>3. ASSUME NEW p \in Procs, HandlerStep(p)
      PROVE  \/ Elsewhere
             \/ StartConfig(p) \/ StartPod(p) \/ StopPod(p) \/ StopCm(p)
  <2>1. \A t : Goto(p, t) => UNCHANGED inbox
    BY DEF Goto
  <2>2. \A rows : NextWorker(p, rows) => UNCHANGED inbox
    BY <2>1 DEF NextWorker, End
  <2>3. AfterStop(p) => UNCHANGED inbox
    BY <2>1 DEF AfterStop, End
  <2>4. (\A pc : To(p, pc) => UNCHANGED inbox) /\ (End(p) => UNCHANGED inbox)
    BY <2>1 DEF To, End
  <2>5. CASE EventJob(p)
    <3>1. task[p].op \in {"event", "image"}
      BY <2>5 DEF EventJob, TypeInv, ShapeOK, Shaped
    <3> QED
      BY <2>4, <2>5, <3>1 DEF EventJob, JobExists, cluster
  <2> QED
    BY <1>3, <2>1, <2>2, <2>3, <2>4, <2>5
       DEF HandlerStep, EnqueueStart, StartMark, StartCount, MakeCheck,
           MakeInsert, StartList, StartSave, StartFail, StopList, WriteJob,
           SaveRow, EventCount, cluster
<1>4. CASE TakeMessage
  BY <1>4 DEF TakeMessage, StartAvesjob, cluster
<1>5. ASSUME NEW n \in Names, ScriptStep(n) \/ TrainStep(n)
      PROVE  \/ Elsewhere
             \/ ScriptEnds(n)
             \/ \E kind, st : Report(n, kind, st)
                   /\ pod[n].phase = "running" /\ UNCHANGED <<pod, cm, events>>
  BY <1>5 DEF ScriptStep, TrainStep, ReportWorkerRunning, Rendezvous, Prepare,
              StartMpi, ReportResult, ReportBroken, TrainWon, TrainLost,
              Moves, Quietly, ScriptFrame, cluster
<1>6. ASSUME NEW n \in Names, Breaks(n)
      PROVE  \E kind, st : Report(n, kind, st)
                /\ pod[n].phase = "running" /\ UNCHANGED <<pod, cm, events>>
  BY <1>6 DEF Breaks, Moves, ScriptFrame, cluster
<1>7. ASSUME NEW p \in Procs, Crash(p)
      PROVE  Elsewhere
  BY <1>7 DEF Crash, End, Goto, cluster
<1>8. ASSUME NEW m \in Requests, ReportTimesOut(m)
      PROVE  Elsewhere
  BY <1>8 DEF ReportTimesOut, ScriptFrame, cluster
<1> QED
  BY <1>1, <1>2, <1>3, <1>4, <1>5, <1>6, <1>7, <1>8
     DEF Next, TakeRequest, TakeEvent, KubeletStep, Fault

\* Reads, listings and events only pass on rows that were found before.
LEMMA NextClusterFound ==
    ASSUME TypeInv, AllFound, [Next]_vars
    PROVE  /\ \A n \in Names : pod'[n].row \in JobWorkers \union {NoRow}
           /\ cm' \subseteq JobWorkers
           /\ \A e \in events' : e.row \in JobWorkers
           /\ \A m \in inbox' : m.row \in JobWorkers
<1> DEFINE G == /\ \A n \in Names : pod'[n].row \in JobWorkers \union {NoRow}
                /\ cm' \subseteq JobWorkers
                /\ \A e \in events' : e.row \in JobWorkers
                /\ \A m \in inbox' : m.row \in JobWorkers
<1>f. /\ \A n \in Names : pod[n].row \in JobWorkers \union {NoRow}
      /\ cm \subseteq JobWorkers
      /\ \A e \in events : e.row \in JobWorkers
      /\ \A m \in inbox : m.row \in JobWorkers
  BY DEF AllFound, PodsFound, CmFound, EventsFound, InboxFound
<1>p. pod \in [Names -> Pods] /\ NoRow \notin Rows
  BY StoreAssumption DEF TypeInv, TypeOK, ClusterOK
<1>c. \A p \in Procs : task[p].cur # NoRow => task[p].cur \in JobWorkers
  BY DEF AllFound, HeldIn, RefsTo
<1>l. \A n \in Names : pod[n].phase # "none" => pod[n].row \in JobWorkers
  BY <1>f, <1>p DEF TypeInv, ShapeOK
<1>1. CASE Elsewhere
  BY <1>1, <1>f DEF Elsewhere
<1>2. ASSUME NEW p \in Procs, StartConfig(p) \/ StopCm(p)
      PROVE  G
  <2>1. inbox' = inbox /\ UNCHANGED pod /\ UNCHANGED events
    BY <1>2 DEF StartConfig, StopCm, To, AfterStop, End, Goto
  <2>2. task[p].cur \in JobWorkers
    BY <1>2, <1>c, <1>p
       DEF StartConfig, StopCm, At, TypeInv, ShapeOK, Shaped, RowPcs
  <2>3. cm' \subseteq cm \union {task[p].cur}
    BY <1>2 DEF StartConfig, StopCm
  <2> QED
    BY <2>1, <2>2, <2>3, <1>f
<1>3. ASSUME NEW p \in Procs, StartPod(p) \/ StopPod(p)
      PROVE  G
  <2>1. inbox' = inbox /\ UNCHANGED cm /\ UNCHANGED events
    BY <1>3 DEF StartPod, StopPod, To, Goto
  <2>2. ASSUME StartPod(p)
        PROVE  \A n \in Names : pod'[n].row \in JobWorkers \union {NoRow}
    <3>1. task[p].cur \in JobWorkers
      BY <2>2, <1>c, <1>p DEF StartPod, At, TypeInv, ShapeOK, Shaped, RowPcs
    <3> DEFINE c == [phase |-> "pending", dying |-> FALSE, row |-> task[p].cur]
    <3>2. c.row = task[p].cur
      OBVIOUS
    <3>3. UNCHANGED pod \/ pod' = [pod EXCEPT ![NameOf(task[p].cur)] = c]
      BY <2>2 DEF StartPod, CreatePod
    <3> HIDE DEF c
    <3> QED
      BY <3>1, <3>2, <3>3, <1>f, <1>p
  <2>3. ASSUME StopPod(p)
        PROVE  \A n \in Names : pod'[n].row \in JobWorkers \union {NoRow}
    <3>1. PICK k : UNCHANGED pod \/ DeletePod(k)
      BY <2>3 DEF StopPod
    <3> DEFINE d == IF Live(k) THEN [pod[k] EXCEPT !.dying = TRUE] ELSE NoPod
    <3>2. UNCHANGED pod \/ pod' = [pod EXCEPT ![k] = d]
      BY <3>1 DEF DeletePod
    <3>3. k \in Names => d.row \in {pod[k].row, NoRow}
      BY <1>p DEF NoPod, Pods
    <3> HIDE DEF d
    <3> QED
      BY <3>2, <3>3, <1>f, <1>p
  <2> QED
    BY <1>3, <2>1, <2>2, <2>3, <1>f
<1>4. ASSUME NEW m \in Requests, NEW p \in Procs, HandleRequest(p, m)
      PROVE  G
  BY <1>4, <1>f DEF HandleRequest, cluster
<1>5. ASSUME NEW e \in Events, NEW p \in Procs, ProcessEvent(p, e)
      PROVE  G
  BY <1>5, <1>f DEF ProcessEvent
<1>6. ASSUME NEW n \in Names, NEW kind, NEW st, Report(n, kind, st),
             pod[n].phase = "running", UNCHANGED <<pod, cm, events>>
      PROVE  G
  BY <1>6, <1>f, <1>l DEF Report
<1>7. ASSUME NEW n \in Names,
             \/ PodStarts(n) \/ PodGoes(n) \/ PodDies(n) \/ ScriptEnds(n)
             \/ ImageFails(n)
      PROVE  G
  <2>1. inbox' = inbox /\ cm' = cm
    BY <1>7 DEF PodStarts, PodGoes, PodDies, ScriptEnds, ImageFails, PodRuns,
                PodRemoved, PodKilled, PodExits, ImageError, web
  <2>2. \A e \in events' : e.row \in JobWorkers
    <3>1. CASE UNCHANGED events
      BY <3>1, <1>f
    <3>2. CASE ~UNCHANGED events
      <4>1. /\ pod[n].phase # "none"
            /\ \E kind \in EventKinds :
                  events' = events \union {[row |-> pod[n].row, kind |-> kind]}
        BY <1>7, <3>2
           DEF PodStarts, PodGoes, PodDies, ScriptEnds, ImageFails, PodRuns,
               PodRemoved, PodKilled, PodExits, ImageError, EventKinds
      <4> QED
        BY <4>1, <1>f, <1>l
    <3> QED
      BY <3>1, <3>2
  <2>3. \A k \in Names : pod'[k].row \in {pod[k].row, NoRow}
    <3>1. CASE PodGoes(n)
      BY <3>1, <1>p DEF PodGoes, PodRemoved, NoPod
    <3>2. CASE UNCHANGED pod
      BY <3>2
    <3>3. ASSUME NEW ph, pod' = [pod EXCEPT ![n].phase = ph]
          PROVE  \A k \in Names : pod'[k].row \in {pod[k].row, NoRow}
      <4> DEFINE d == [pod[n] EXCEPT !.phase = ph]
      <4>1. pod' = [pod EXCEPT ![n] = d]
        BY <3>3
      <4>2. d.row = pod[n].row
        BY <1>p DEF Pods
      <4> HIDE DEF d
      <4> QED
        BY <4>1, <4>2, <1>p
    <3> QED
      BY <1>7, <3>1, <3>2, <3>3
         DEF PodStarts, PodDies, ScriptEnds, ImageFails, PodRuns, PodKilled,
             PodExits, ImageError
  <2> QED
    BY <2>1, <2>2, <2>3, <1>f
<1>8. CASE WatchAgain
  <2>1. \A e \in events' : e \in events
            \/ \E n \in Names : pod[n].phase # "none" /\ e.row = pod[n].row
    BY <1>8 DEF WatchAgain, Resync
  <2> QED
    BY <2>1, <1>8, <1>f, <1>l DEF WatchAgain, Resync, web
<1>9. ASSUME NEW m \in Requests, ReportLost(m)
      PROVE  G
  BY <1>9, <1>f DEF ReportLost, ScriptFrame, cluster
<1>10. ASSUME NEW e \in Events, EventDropped(e)
       PROVE  G
  BY <1>10, <1>f DEF EventDropped, EventLost, web
<1> QED
  BY <1>1, <1>2, <1>3, <1>4, <1>5, <1>6, <1>7, <1>8, <1>9, <1>10, StepKinds

\* Until the job is destroyed nothing refers to a worker that is gone: the
\* pods, config maps and events name rows the start has listed, the requests
\* name rows of running pods, the handlers hold rows they were given or have
\* listed, and no step but a destroy deletes a row.
THEOREM NothingDanglesCorrect == Spec => []NothingDangles
<1> DEFINE DInv == /\ TypeInv
                   /\ BudgetBound
                   /\ ~Spent("destroy") => AllFound
<1>1. Init => DInv
  <2> SUFFICES ASSUME Init PROVE DInv
    OBVIOUS
  <2>1. BudgetBound
    BY BudgetAssumption DEF Init, BudgetInit, BudgetBound
  <2>2. AllFound
    BY DEF Init, ClusterInit, WebInit, AllFound, HeldIn, PodsFound,
           CmFound, EventsFound, InboxFound, RefsTo, Idle, NoPod
  <2> QED
    BY <2>1, <2>2, InitType
<1>2. DInv /\ [Next]_vars => DInv'
  <2> SUFFICES ASSUME DInv, [Next]_vars PROVE DInv'
    OBVIOUS
  <2>1. TypeInv' /\ BudgetBound'
    BY NextType, BudgetShrinks
  <2>2. ASSUME ~Spent("destroy")' PROVE AllFound'
    <3>1. "destroy" \in Kinds
      BY DEF Kinds, UserKinds
    <3>2. AllFound /\ ~DestroyJob
      BY <2>2, <3>1, BudgetShrinks, SpendSpent DEF DestroyJob
    <3>3. JobWorkers \subseteq JobWorkers'
      BY <3>2, RowsGrow
    <3>4. /\ \A n \in Names : pod'[n].row \in JobWorkers \union {NoRow}
          /\ cm' \subseteq JobWorkers
          /\ \A e \in events' : e.row \in JobWorkers
          /\ \A m \in inbox' : m.row \in JobWorkers
      BY <3>2, NextClusterFound
    <3>5. \A q \in Procs : RefsTo(task'[q]) \subseteq JobWorkers
      <4> DEFINE W == JobWorkers
      <4>1. JobWorkers \subseteq W /\ HeldIn(W)
        BY <3>2 DEF AllFound
      <4> QED
        BY <4>1, NextHeld DEF HeldIn
    <3>6. HeldIn(JobWorkers)'
      BY <3>3, <3>5 DEF HeldIn, RefsTo
    <3> QED
      BY <3>3, <3>4, <3>6
         DEF AllFound, PodsFound, CmFound, EventsFound, InboxFound
  <2> QED
    BY <2>1, <2>2
<1>3. DInv => NothingDangles
  BY DEF NothingDangles, AllFound, HeldIn, PodsFound, CmFound,
         EventsFound, InboxFound, RefsTo, JobWorkers
<1> QED
  BY <1>1, <1>2, <1>3, PTL DEF Spec
-----------------------------------------------------------------------------
(* Who starts the job.                                                     *)

\* A step that starts nothing: no message, no new creator or starter, none
\* that is set back before the rows are made.
Calm == /\ UNCHANGED <<startMsgs, made>>
        /\ \A q \in Procs : /\ Alone(q)' => Alone(q)
                            /\ BeforeRows(q)' => BeforeRows(q)

\* A handler that goes on stays in its operation.
LEMMA GotoCalm ==
    ASSUME TypeInv, NEW p \in Procs, NEW t, Goto(p, t), UNCHANGED made,
           t.op \in {"create", "start"} => t.op = task[p].op,
           t.op = "start" /\ t.pc \in {"mark", "count", "check", "insert"}
              => BeforeRows(p)
    PROVE  Calm
  BY DEF TypeInv, TypeOK, WebOK, Goto, Calm, Alone, BeforeRows, Starting

LEMMA EndCalm ==
    ASSUME TypeInv, NEW p \in Procs, End(p), UNCHANGED made
    PROVE  Calm
  BY GotoCalm DEF End, Idle

LEMMA ToCalm ==
    ASSUME TypeInv, NEW p \in Procs, NEW pc, To(p, pc), UNCHANGED made,
           pc \in {"mark", "count", "check", "insert"} => BeforeRows(p)
    PROVE  Calm
<1>1. /\ [task[p] EXCEPT !.pc = pc].op = task[p].op
      /\ [task[p] EXCEPT !.pc = pc].pc = pc
  BY DEF TypeInv, TypeOK, WebOK, Tasks, Idle
<1> QED
  BY <1>1, GotoCalm DEF To

LEMMA NextWorkerCalm ==
    ASSUME TypeInv, NEW p \in Procs, NEW rows, NextWorker(p, rows),
           UNCHANGED made
    PROVE  Calm
<1>1. CASE rows = {}
  BY <1>1, EndCalm DEF NextWorker
<1>2. CASE rows # {}
  <2>1. PICK r \in rows :
           Goto(p, [task[p] EXCEPT !.pc = "config", !.cur = r,
                                   !.todo = rows \ {r}])
    BY <1>2 DEF NextWorker
  <2> DEFINE t == [task[p] EXCEPT !.pc = "config", !.cur = r,
                                  !.todo = rows \ {r}]
  <2>2. t.op = task[p].op /\ t.pc = "config"
    BY DEF TypeInv, TypeOK, WebOK, Tasks, Idle
  <2> QED
    BY <2>1, <2>2, GotoCalm
<1> QED
  BY <1>1, <1>2

LEMMA AfterStopCalm ==
    ASSUME TypeInv, NEW p \in Procs, AfterStop(p), UNCHANGED made
    PROVE  Calm
<1> DEFINE t == [task[p] EXCEPT !.pc = "write", !.cur = NoRow]
<1>1. t.op = task[p].op /\ t.pc = "write"
  BY DEF TypeInv, TypeOK, WebOK, Tasks, Idle
<1> QED
  BY <1>1, EndCalm, GotoCalm DEF AfterStop

\* Only bulk_create and the end of a create are not calm.
LEMMA HandlerCalm ==
    ASSUME TypeInv, NEW p \in Procs, HandlerStep(p)
    PROVE  Calm \/ EnqueueStart(p) \/ (MakeInsert(p) /\ MakeWorkers)
<1>1. CASE StartMark(p) \/ StartCount(p) \/ MakeCheck(p)
  BY <1>1, ToCalm DEF StartMark, StartCount, MakeCheck, At, BeforeRows,
                      Starting, store
<1>2. CASE MakeInsert(p) /\ ~MakeWorkers
  BY <1>2, ToCalm DEF MakeInsert, store
<1>3. CASE StartConfig(p) \/ StartPod(p) \/ WriteJob(p) \/ SaveRow(p)
           \/ EventCount(p) \/ StartFail(p)
  BY <1>3, ToCalm, EndCalm
     DEF StartConfig, StartPod, WriteJob, SaveRow, EventCount, StartFail, store
<1>4. CASE StartList(p) \/ StartSave(p)
  BY <1>4, NextWorkerCalm, EndCalm DEF StartList, StartSave, store
<1>5. CASE StopList(p)
  <2> DEFINE rows == {r \in JobWorkers : ~Spared(task[p].op, r)}
             t == [task[p] EXCEPT !.pc = "stopPod", !.todo = rows]
  <2>1. (AfterStop(p) \/ Goto(p, t)) /\ UNCHANGED made
    BY <1>5 DEF StopList, store
  <2> HIDE DEF rows
  <2>2. t.op = task[p].op /\ t.pc = "stopPod"
    BY DEF TypeInv, TypeOK, WebOK, Tasks, Idle
  <2> QED
    BY <2>1, <2>2, AfterStopCalm, GotoCalm
<1>6. CASE StopPod(p)
  <2>1. PICK r \in task[p].todo :
           Goto(p, [task[p] EXCEPT !.pc = "stopCm", !.cur = r,
                                   !.todo = @ \ {r}])
    BY <1>6 DEF StopPod
  <2> DEFINE t == [task[p] EXCEPT !.pc = "stopCm", !.cur = r, !.todo = @ \ {r}]
  <2>2. t.op = task[p].op /\ t.pc = "stopCm"
    BY DEF TypeInv, TypeOK, WebOK, Tasks, Idle
  <2> QED
    BY <1>6, <2>1, <2>2, GotoCalm DEF StopPod, store
<1>7. CASE StopCm(p)
  BY <1>7, AfterStopCalm, ToCalm DEF StopCm, store
<1>8. CASE EventJob(p)
  <2>1. task[p].op \in {"event", "image"}
    BY <1>8 DEF EventJob, TypeInv, ShapeOK, Shaped
  <2>2. \/ End(p) \/ To(p, "write") \/ To(p, "evCount")
    BY <1>8, <2>1 DEF EventJob, JobExists
  <2> QED
    BY <1>8, <2>2, ToCalm, EndCalm DEF EventJob, store
<1> QED
  BY <1>1, <1>2, <1>3, <1>4, <1>5, <1>6, <1>7, <1>8 DEF HandlerStep

\* The steps that are not calm, while nobody asks for a start.
LEMMA NextCalm ==
    ASSUME TypeInv, [Next]_vars
    PROVE  \/ Calm
           \/ \E p \in Procs : \/ CreateJob(p) \/ EnqueueStart(p)
                               \/ StartAvesjob(p) \/ Spend("start")
                               \/ MakeInsert(p) /\ MakeWorkers
<1>1. CASE UNCHANGED <<task, startMsgs, made>>
  BY <1>1 DEF Calm, Alone, BeforeRows, Starting
<1>2. ASSUME NEW p \in Procs, NEW t, Begin(p, t), UNCHANGED <<startMsgs, made>>,
             t.op \notin {"create", "start"}
      PROVE  Calm
  BY <1>2 DEF TypeInv, TypeOK, WebOK, Begin, Calm, Alone, BeforeRows, Starting
<1>h. \A op, pc, cur, out, req : Handler(op, pc, cur, out, req).op = op
  BY DEF Handler
<1>i. Idle.op = "none"
  BY DEF Idle
<1>3. CASE UserStep
  <2>1. ASSUME NEW p \in Procs, CancelJob(p) \/ CleanJob(p) \/ EditJob(p)
        PROVE  Calm
    BY <2>1, <1>2, <1>h DEF CancelJob, CleanJob, EditJob, store
  <2> QED
    BY <1>1, <1>3, <2>1 DEF UserStep, DestroyJob, StartJob, web
<1>4. ASSUME NEW m \in Requests, NEW p \in Procs, HandleRequest(p, m)
      PROVE  Calm
  <2>1. m.kind \in {"wstat", "jstat", "jres"}
    BY DEF Requests
  <2>2. PICK t \in {WorkerChangeStatus(m), JobChangeStatus(m), FinishJob(m)} :
           Begin(p, t)
    BY <1>4, <2>1 DEF HandleRequest
  <2>3. t.op \notin {"create", "start"}
    BY <2>2, <1>h, <1>i DEF WorkerChangeStatus, JobChangeStatus, FinishJob
  <2> QED
    BY <1>4, <2>2, <2>3, <1>2 DEF HandleRequest, store
<1>5. ASSUME NEW e \in Events, NEW p \in Procs, ProcessEvent(p, e)
      PROVE  Calm
  <2>1. e.kind \in EventKinds
    BY DEF Events
  <2>2. PICK t \in {Idle,
                    Handler("event", "saveRow", e.row, "FINISHED", NoReq),
                    Handler("event", "saveRow", e.row, "FAILURE", NoReq),
                    Handler("image", "saveRow", e.row, "FAILURE", NoReq)} :
           Begin(p, t)
    BY <1>5, <2>1 DEF ProcessEvent, Outcome, EventKinds
  <2>3. t.op \notin {"create", "start"}
    BY <2>2, <1>h, <1>i
  <2> QED
    BY <1>5, <2>2, <2>3, <1>2 DEF ProcessEvent, store
<1>6. ASSUME NEW n \in Names, ScriptStep(n) \/ TrainStep(n) \/ KubeletStep(n)
      PROVE  UNCHANGED <<task, startMsgs, made>>
  BY <1>6 DEF ScriptStep, TrainStep, KubeletStep, ReportWorkerRunning,
              Rendezvous, Prepare, StartMpi, ReportResult, ReportBroken,
              TrainWon, TrainLost, ScriptEnds, PodStarts, PodGoes, PodDies,
              ScriptFrame, web, store
<1>7. CASE Fault
  <2>1. CASE \E p \in Procs : Crash(p)
    BY <2>1, EndCalm DEF Crash, store
  <2>2. CASE ~ \E p \in Procs : Crash(p)
    BY <1>7, <2>2, <1>1
       DEF Fault, Breaks, ImageFails, PodDies, ReportTimesOut,
           ReportLost, EventDropped, WatchAgain, ScriptFrame, web, store
  <2> QED
    BY <2>1, <2>2
<1>8. CASE UNCHANGED vars
  BY <1>1, <1>8 DEF vars, web, store
<1> QED
  BY <1>1, <1>3, <1>4, <1>5, <1>6, <1>7, <1>8, HandlerCalm
     DEF Next, TakeMessage, TakeRequest, TakeEvent
-----------------------------------------------------------------------------
(* One row per pod.                                                        *)

MadeRows == {r \in Rows : r[2] <= made}

LEMMA RowsMadeAs ==
    ASSUME TypeInv
    PROVE  RowsMade <=> JobWorkers \subseteq MadeRows /\ HeldIn(MadeRows)
<1>1. \A p \in Procs : /\ task[p].todo \subseteq Rows
                       /\ task[p].cur \in Rows \union {NoRow}
  BY DEF TypeInv, TypeOK, WebOK, Tasks, Idle
<1> QED
  BY <1>1 DEF RowsMade, MadeRows, HeldIn, RefsTo, JobWorkers

\* No row is in use that no bulk_create has made.
LEMMA NextRowsMade ==
    ASSUME TypeInv, RowsMade, [Next]_vars
    PROVE  RowsMade'
<1>1. JobWorkers \subseteq MadeRows /\ HeldIn(MadeRows)
  BY RowsMadeAs
<1>2. /\ made \in Nat /\ made' \in Nat
      /\ wst \in [Rows -> Statuses \union {Absent}]
      /\ \A r \in Rows : r[2] \in Nat
  BY NextType, StoreAssumption DEF TypeInv, TypeOK, StoreOK, Rows
<1>3. made <= made'
  BY <1>2, NextStore
     DEF StoreStep, JobIsSaved, RowIsSaved, RowsAreMade, MakeWorkers,
         DestroyJob, store
<1>4. MadeRows \subseteq MadeRows'
  BY <1>2, <1>3 DEF MadeRows
<1>5. \A q \in Procs : RefsTo(task'[q]) \subseteq MadeRows
  BY <1>1, NextHeld DEF HeldIn
<1>6. JobWorkers' \subseteq MadeRows'
  <2> SUFFICES ASSUME NEW r \in Rows, wst'[r] # Absent
               PROVE  r[2] <= made'
    BY DEF JobWorkers, MadeRows
  <2>1. CASE UNCHANGED wst
    BY <2>1, <1>1, <1>4 DEF JobWorkers, MadeRows
  <2>2. CASE RowIsSaved
    <3>1. PICK p \in Procs, st \in Statuses :
             task[p].cur \in Rows /\ SaveWorker(task[p].cur, st)
      BY <2>2 DEF RowIsSaved
    <3>2. task[p].cur \in MadeRows
      BY <3>1, <1>1, StoreAssumption DEF HeldIn, RefsTo
    <3> QED
      BY <3>1, <3>2, <1>1, <1>2, <1>4 DEF SaveWorker, JobWorkers, MadeRows
  <2>3. CASE RowsAreMade
    BY <2>3, <1>1, <1>2, <1>4 DEF RowsAreMade, MakeWorkers, JobWorkers, MadeRows
  <2>4. CASE DestroyJob
    BY <2>4 DEF DestroyJob, DeleteJob
  <2> QED
    BY <2>1, <2>2, <2>3, <2>4, NextStore DEF StoreStep, JobIsSaved, store
<1>7. HeldIn(MadeRows)'
  BY <1>4, <1>5 DEF HeldIn, RefsTo
<1>8. \A p \in Procs : /\ task'[p].todo \subseteq Rows
                       /\ task'[p].cur \in Rows \union {NoRow}
  BY NextType DEF TypeInv, TypeOK, WebOK, Tasks, Idle
<1> QED
  BY <1>6, <1>7, <1>8 DEF RowsMade, MadeRows, HeldIn, RefsTo, JobWorkers

\* Who creates or starts the job is alone as long as nobody asks for a start.
LEMMA NextStartAlone ==
    ASSUME TypeInv, BudgetBound, StartAlone, [Next]_vars, ~Spent("start")'
    PROVE  StartAlone'
<1>k. "start" \in Kinds /\ "create" \in Kinds
  BY DEF Kinds, UserKinds
<1>t. /\ task \in [Procs -> Tasks \union {Idle}] /\ startMsgs \in Nat
      /\ made \in Nat
  BY DEF TypeInv, TypeOK, WebOK, StoreOK
<1>b. BudgetBound' /\ (Spent("create") => Spent("create")')
  BY <1>k, BudgetShrinks
<1>1. CASE Calm
  BY <1>1, <1>b DEF Calm, StartAlone
<1>2. ASSUME NEW p \in Procs, CreateJob(p)
      PROVE  StartAlone'
  <2>1. Spent("create")' /\ ~Spent("create")
    BY <1>2, <1>k, SpendSpent DEF CreateJob
  <2>2. \A q \in Procs : q # p => task'[q] = task[q]
    BY <1>2, <1>t DEF CreateJob, Begin
  <2> QED
    BY <1>2, <2>1, <2>2 DEF StartAlone, CreateJob, Alone, BeforeRows, Starting
<1>3. ASSUME NEW p \in Procs, EnqueueStart(p)
      PROVE  StartAlone'
  <2>1. /\ Alone(p) /\ BeforeRows(p)
        /\ task' = [task EXCEPT ![p] = Idle] /\ UNCHANGED <<made, budget>>
        /\ startMsgs' = startMsgs + 1
    BY <1>3 DEF EnqueueStart, At, Alone, BeforeRows, store
  <2>2. Idle.op = "none"
    BY DEF Idle
  <2>3. \A q \in Procs : ~Alone(q)' /\ ~BeforeRows(q)'
    BY <2>1, <2>2, <1>t DEF StartAlone, Alone, BeforeRows, Starting
  <2>4. startMsgs' = 1 /\ made' = 0 /\ Spent("create")'
    BY <2>1, <1>b DEF StartAlone
  <2> QED
    BY <2>3, <2>4 DEF StartAlone
<1>4. ASSUME NEW p \in Procs, StartAvesjob(p)
      PROVE  StartAlone'
  <2>1. startMsgs = 1 /\ made = 0 /\ startMsgs' = 0 /\ UNCHANGED <<made, budget>>
    BY <1>4, <1>t DEF StartAvesjob, StartAlone, store
  <2>2. \A q \in Procs : ~Alone(q) /\ (q # p => task'[q] = task[q])
    BY <1>4, <2>1, <1>t DEF StartAvesjob, Begin, StartAlone
  <2>3. Spent("create")
    BY <2>1 DEF StartAlone
  <2> QED
    BY <2>1, <2>2, <2>3, <1>b DEF StartAlone, Alone, BeforeRows, Starting
<1>5. ASSUME NEW p \in Procs, MakeInsert(p), MakeWorkers
      PROVE  StartAlone'
  <2>1. Alone(p) /\ BeforeRows(p)
    BY <1>5 DEF MakeInsert, At, Alone, BeforeRows, Starting
  <2>2. made = 0 /\ made' = 1
    BY <1>5, <2>1 DEF StartAlone, MakeWorkers
  <2>3. To(p, "list") \/ To(p, "fail")
    BY <1>5 DEF MakeInsert
  <2>4. /\ \A q \in Procs : q # p => task'[q] = task[q]
        /\ task'[p].op = "start" /\ task'[p].pc \in {"list", "fail"}
        /\ startMsgs' = startMsgs
    BY <1>5, <2>3, <1>t DEF MakeInsert, At, To, Goto, Tasks, Idle
  <2>5. \A q \in Procs : (Alone(q)' => q = p) /\ ~BeforeRows(q)'
    BY <2>1, <2>4 DEF StartAlone, Alone, BeforeRows, Starting
  <2>6. startMsgs' = 0 /\ Spent("create")'
    BY <2>1, <2>4, <1>b DEF StartAlone
  <2> QED
    BY <2>2, <2>5, <2>6 DEF StartAlone
<1>6. ASSUME Spend("start")
      PROVE  FALSE
  BY <1>6, <1>k, SpendSpent
<1> QED
  BY <1>1, <1>2, <1>3, <1>4, <1>5, <1>6, NextCalm

AloneInv == /\ TypeInv
            /\ BudgetBound
            /\ RowsMade
            /\ ~Spent("start") => StartAlone

LEMMA AloneInvCorrect == Spec => []AloneInv
<1>1. Init => AloneInv
  <2> SUFFICES ASSUME Init PROVE AloneInv
    OBVIOUS
  <2>1. BudgetBound
    BY BudgetAssumption DEF Init, BudgetInit, BudgetBound
  <2>2. RowsMade
    BY DEF Init, StoreInit, WebInit, RowsMade, Idle
  <2>3. StartAlone
    BY DEF Init, StoreInit, WebInit, StartAlone, Alone, BeforeRows, Starting,
           Idle
  <2> QED
    BY <2>1, <2>2, <2>3, InitType DEF AloneInv
<1>2. AloneInv /\ [Next]_vars => AloneInv'
  <2> SUFFICES ASSUME AloneInv, [Next]_vars PROVE AloneInv'
    OBVIOUS
  <2>1. TypeInv' /\ BudgetBound' /\ RowsMade'
    BY NextType, BudgetShrinks, NextRowsMade DEF AloneInv
  <2>2. ASSUME ~Spent("start")' PROVE StartAlone'
    <3>1. ~Spent("start")
      BY <2>2, BudgetShrinks DEF AloneInv, Kinds, UserKinds
    <3> QED
      BY <3>1, <2>2, NextStartAlone DEF AloneInv
  <2> QED
    BY <2>1, <2>2 DEF AloneInv
<1> QED
  BY <1>1, <1>2, PTL DEF Spec

\* While only the task that creating the job has queued starts it, no pod
\* gets a second worker row: start_avesjob is queued once, its message is
\* gone when it runs, and it makes the rows at most once.
THEOREM MadeOnceCorrect == Spec => []MadeOnceAlone
<1>1. AloneInv => MadeOnceAlone
  <2> SUFFICES ASSUME AloneInv, ~Spent("start"), NEW r \in JobWorkers,
                      NEW q \in JobWorkers, NameOf(r) = NameOf(q)
               PROVE  r = q
    BY DEF MadeOnceAlone, WorkersMadeOnce
  <2> USE DEF AloneInv
  <2>1. /\ r \in Names \X (1 .. MaxMakes) /\ q \in Names \X (1 .. MaxMakes)
        /\ r[2] <= made /\ q[2] <= made
    BY DEF RowsMade, JobWorkers, Rows
  <2>2. r[2] = 1 /\ q[2] = 1
    <3>1. made \in Nat /\ made <= 1 /\ MaxMakes \in Nat
      BY StoreAssumption DEF StartAlone, TypeInv, TypeOK, StoreOK
    <3> QED
      BY <2>1, <3>1
  <2> QED
    BY <2>1, <2>2 DEF NameOf
<1> QED
  BY <1>1, AloneInvCorrect, PTL

\* The invariant that carries all of these holds, part by part.
THEOREM IndInvCorrect == Spec => []IndInv
<1>1. RowsHaveJob /\ NothingDangles /\ AloneInv => IndInv
  BY DEF AloneInv, TypeInv, IndInv
<1> QED
  BY <1>1, RowsCorrect, NothingDanglesCorrect, AloneInvCorrect, PTL
=============================================================================
