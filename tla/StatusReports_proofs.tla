------------------------ MODULE StatusReports_proofs ------------------------
(***************************************************************************)
(* Theorems about StatusReports: for any pods, processes, budgets and      *)
(* number of reports published at a time, the newest report is the status  *)
(* of the row, as long as reports arrive in their order.                   *)
(***************************************************************************)
EXTENDS StatusReports, AvesK8s_proofs, SequenceTheorems

Turned == {"first", "over", "again"}
Saved == [proc : Procs, st : Statuses, req : Requests \union {NoReq}]

-----------------------------------------------------------------------------
(* Queues.                                                                 *)

\* What is left when the i-th goes.
LEMMA RemovalAt ==
    ASSUME NEW S, NEW s \in Seq(S), NEW i \in 1 .. Len(s)
    PROVE  /\ RemoveAt(s, i) \in Seq(S)
           /\ DOMAIN s = 1 .. Len(s) /\ Len(s) \in Nat
           /\ DOMAIN RemoveAt(s, i) = 1 .. Len(s) - 1
           /\ \A k \in 1 .. Len(s) - 1 :
                 RemoveAt(s, i)[k] = s[IF k < i THEN k ELSE k + 1]
<1> DEFINE a == SubSeq(s, 1, i - 1)
           b == SubSeq(s, i + 1, Len(s))
<1>0. DOMAIN s = 1 .. Len(s)
  BY LenProperties
<1>1. Len(s) \in Nat /\ \A k \in 1 .. Len(s) : s[k] \in S
  BY LenProperties, ElementOfSeq
<1>2. a \in Seq(S) /\ Len(a) = i - 1
  BY <1>1, SubSeqProperties
<1>3. \A k \in 1 .. i - 1 : a[k] = s[k]
  <2>1. \A k \in 1 .. (i - 1) - 1 + 1 : a[k] = s[1 + k - 1]
    BY <1>1, SubSeqProperties
  <2> HIDE DEF a
  <2> QED
    BY <1>1, <2>1
<1>4. /\ b \in Seq(S)
      /\ Len(b) = Len(s) - i
      /\ \A k \in 1 .. Len(s) - i : b[k] = s[i + k]
  BY <1>1, SubSeqProperties
<1> HIDE DEF a, b
<1>5. /\ a \o b \in Seq(S)
      /\ Len(a \o b) = Len(s) - 1
      /\ \A k \in 1 .. Len(s) - 1 :
            (a \o b)[k] = IF k <= i - 1 THEN a[k] ELSE b[k - (i - 1)]
  BY <1>1, <1>2, <1>4, ConcatProperties
<1>6. DOMAIN (a \o b) = 1 .. Len(s) - 1
  BY <1>5, LenProperties
<1>7. ASSUME NEW k \in 1 .. Len(s) - 1
      PROVE  (a \o b)[k] = s[IF k < i THEN k ELSE k + 1]
  <2>1. CASE k < i
    <3>1. k \in 1 .. i - 1 /\ k <= i - 1
      BY <1>1, <2>1
    <3>2. (a \o b)[k] = a[k]
      BY <1>5, <3>1
    <3> QED
      BY <1>3, <2>1, <3>1, <3>2
  <2>2. CASE ~(k < i)
    <3>1. /\ k - (i - 1) \in 1 .. Len(s) - i /\ i + (k - (i - 1)) = k + 1
          /\ ~(k <= i - 1)
      BY <1>1, <2>2
    <3>2. (a \o b)[k] = b[k - (i - 1)]
      BY <1>5, <3>1
    <3>3. b[k - (i - 1)] = s[i + (k - (i - 1))]
      BY <1>4, <3>1
    <3> QED
      BY <2>2, <3>1, <3>2, <3>3
  <2> QED
    BY <2>1, <2>2
<1> QED
  BY <1>0, <1>1, <1>5, <1>6, <1>7 DEF RemoveAt, a, b

\* The last stays the last, unless it goes.
LEMMA Removal ==
    ASSUME NEW S, NEW s \in Seq(S), NEW i \in 1 .. Len(s)
    PROVE  /\ RemoveAt(s, i) \in Seq(S)
           /\ Len(RemoveAt(s, i)) = Len(s) - 1
           /\ i < Len(s) => RemoveAt(s, i)[Len(s) - 1] = s[Len(s)]
<1> DEFINE r == RemoveAt(s, i)
<1>1. /\ r \in Seq(S) /\ Len(s) \in Nat /\ DOMAIN r = 1 .. Len(s) - 1
      /\ \A k \in 1 .. Len(s) - 1 : r[k] = s[IF k < i THEN k ELSE k + 1]
  BY RemovalAt
<1>2. Len(r) \in Nat /\ DOMAIN r = 1 .. Len(r)
  BY <1>1, LenProperties
<1> HIDE DEF r
<1>3. Len(r) = Len(s) - 1
  BY <1>1, <1>2
<1>4. ASSUME i < Len(s) PROVE r[Len(s) - 1] = s[Len(s)]
  <2>1. Len(s) - 1 \in 1 .. Len(s) - 1 /\ ~(Len(s) - 1 < i) /\ (Len(s) - 1) + 1 = Len(s)
    BY <1>1, <1>4
  <2> QED
    BY <1>1, <2>1
<1> QED
  BY <1>1, <1>3, <1>4 DEF r

LEMMA Appending ==
    ASSUME NEW S, NEW s \in Seq(S), NEW e \in S
    PROVE  /\ Append(s, e) \in Seq(S)
           /\ Append(s, e) # <<>>
           /\ Len(Append(s, e)) = Len(s) + 1
           /\ Append(s, e)[Len(Append(s, e))] = e
  OBVIOUS

LEMMA Taking ==
    ASSUME NEW S, NEW s \in Seq(S), s # <<>>
    PROVE  /\ Head(s) \in S
           /\ Tail(s) \in Seq(S)
           /\ Tail(s) # <<>> => Last(Tail(s)) = Last(s)
           /\ Tail(s) = <<>> => Head(s) = Last(s)
<1>1. /\ Len(s) \in Nat \ {0} /\ Head(s) = s[1] /\ Head(s) \in S
      /\ Tail(s) \in Seq(S) /\ Len(Tail(s)) = Len(s) - 1
  BY EmptySeq, HeadTailProperties
<1>2. ASSUME Tail(s) # <<>> PROVE Last(Tail(s)) = Last(s)
  <2>1. Len(s) - 1 \in 1 .. Len(Tail(s))
    BY <1>1, <1>2, EmptySeq
  <2>2. Tail(s)[Len(s) - 1] = s[(Len(s) - 1) + 1]
    BY <1>1, <2>1, HeadTailProperties
  <2>3. (Len(s) - 1) + 1 = Len(s)
    BY <1>1
  <2> QED
    BY <1>1, <2>2, <2>3 DEF Last
<1>3. ASSUME Tail(s) = <<>> PROVE Head(s) = Last(s)
  <2>1. Len(s) = 1
    BY <1>1, <1>3
  <2> QED
    BY <1>1, <2>1 DEF Last
<1> QED
  BY <1>1, <1>2, <1>3

-----------------------------------------------------------------------------
(* What a step of AvesK8s does to the status, and to the handlers that     *)
(* save a job without a report.                                            *)

EditsSpent == \A p \in Procs : task[p].op = "edit" => Spent("edit")

NoNewEdit == \A q \in Procs : task'[q].op = "edit" => task[q].op = "edit"

LEMMA PutNoEdit ==
    ASSUME TypeInv, NEW p \in Procs, NEW t, task' = [task EXCEPT ![p] = t],
           t.op = "edit" => task[p].op = "edit"
    PROVE  NoNewEdit
  BY DEF TypeInv, TypeOK, WebOK, NoNewEdit

LEMMA IdleOp == Idle.op # "edit"
  BY DEF Idle

LEMMA GotoNoEdit ==
    ASSUME TypeInv, NEW p \in Procs, NEW t, Goto(p, t),
           t.op = "edit" => task[p].op = "edit"
    PROVE  NoNewEdit
  BY PutNoEdit DEF Goto

LEMMA EndNoEdit ==
    ASSUME TypeInv, NEW p \in Procs, End(p)
    PROVE  NoNewEdit
  BY GotoNoEdit, IdleOp DEF End

\* [task[p] EXCEPT ...] keeps the operation.
LEMMA OpKept ==
    ASSUME NEW t \in Tasks \union {Idle}
    PROVE  /\ \A pc : [t EXCEPT !.pc = pc].op = t.op
           /\ \A pc, cur : [t EXCEPT !.pc = pc, !.cur = cur].op = t.op
           /\ \A pc, todo : [t EXCEPT !.pc = pc, !.todo = todo].op = t.op
           /\ \A pc, cur, todo :
                 [t EXCEPT !.pc = pc, !.cur = cur, !.todo = todo].op = t.op
  BY DEF Tasks, Idle

LEMMA ToNoEdit ==
    ASSUME TypeInv, NEW p \in Procs, NEW pc, To(p, pc)
    PROVE  NoNewEdit
<1>1. task[p] \in Tasks \union {Idle}
  BY DEF TypeInv, TypeOK, WebOK
<1>2. [task[p] EXCEPT !.pc = pc].op = task[p].op
  BY <1>1, OpKept
<1> QED
  BY <1>2, GotoNoEdit DEF To

LEMMA NextWorkerNoEdit ==
    ASSUME TypeInv, NEW p \in Procs, NEW rows, NextWorker(p, rows)
    PROVE  NoNewEdit
<1>1. task[p] \in Tasks \union {Idle}
  BY DEF TypeInv, TypeOK, WebOK
<1>2. CASE rows = {}
  BY <1>2, EndNoEdit DEF NextWorker
<1>3. CASE rows # {}
  <2>1. PICK r \in rows :
           Goto(p, [task[p] EXCEPT !.pc = "config", !.cur = r, !.todo = rows \ {r}])
    BY <1>3 DEF NextWorker
  <2>2. [task[p] EXCEPT !.pc = "config", !.cur = r, !.todo = rows \ {r}].op = task[p].op
    BY <1>1, OpKept
  <2> QED
    BY <2>1, <2>2, GotoNoEdit
<1> QED
  BY <1>2, <1>3

LEMMA AfterStopNoEdit ==
    ASSUME TypeInv, NEW p \in Procs, AfterStop(p)
    PROVE  NoNewEdit
<1>1. task[p] \in Tasks \union {Idle}
  BY DEF TypeInv, TypeOK, WebOK
<1>2. [task[p] EXCEPT !.pc = "write", !.cur = NoRow].op = task[p].op
  BY <1>1, OpKept
<1> QED
  BY <1>2, EndNoEdit, GotoNoEdit DEF AfterStop

LEMMA HandlerNoEdit ==
    ASSUME TypeInv, NEW p \in Procs, HandlerStep(p)
    PROVE  NoNewEdit
<1>1. task[p] \in Tasks \union {Idle}
  BY DEF TypeInv, TypeOK, WebOK
<1>2. CASE EnqueueStart(p)
  BY <1>2, PutNoEdit, IdleOp DEF EnqueueStart
<1>3. CASE \/ StartMark(p) \/ StartCount(p) \/ MakeCheck(p) \/ MakeInsert(p)
           \/ StartConfig(p) \/ StartPod(p) \/ StartFail(p)
           \/ WriteJob(p) \/ SaveRow(p) \/ EventJob(p) \/ EventCount(p)
  <2>1. CASE StartMark(p) \/ StartCount(p) \/ MakeCheck(p) \/ MakeInsert(p)
    BY <2>1, ToNoEdit DEF StartMark, StartCount, MakeCheck, MakeInsert
  <2>2. CASE StartConfig(p) \/ StartPod(p) \/ StartFail(p)
    BY <2>2, ToNoEdit, EndNoEdit DEF StartConfig, StartPod, StartFail
  <2>3. CASE WriteJob(p) \/ SaveRow(p) \/ EventCount(p)
    BY <2>3, ToNoEdit, EndNoEdit DEF WriteJob, SaveRow, EventCount
  <2>4. CASE EventJob(p)
    <3>1. task[p].op \in {"event", "image"}
      BY <1>1, <2>4 DEF EventJob, TypeInv, ShapeOK, Shaped
    <3>2. End(p) \/ To(p, "write") \/ To(p, "evCount")
      BY <2>4, <3>1 DEF EventJob, JobExists
    <3> QED
      BY <3>2, ToNoEdit, EndNoEdit
  <2> QED
    BY <1>3, <2>1, <2>2, <2>3, <2>4
<1>4. CASE StartList(p) \/ StartSave(p)
  BY <1>4, NextWorkerNoEdit, EndNoEdit DEF StartList, StartSave
<1>5. CASE StopList(p)
  <2> DEFINE rows == {r \in JobWorkers : ~Spared(task[p].op, r)}
  <2>1. AfterStop(p) \/ Goto(p, [task[p] EXCEPT !.pc = "stopPod", !.todo = rows])
    BY <1>5 DEF StopList
  <2>2. [task[p] EXCEPT !.pc = "stopPod", !.todo = rows].op = task[p].op
    BY <1>1, OpKept
  <2> QED
    BY <2>1, <2>2, AfterStopNoEdit, GotoNoEdit
<1>6. CASE StopPod(p)
  <2>1. PICK r : Goto(p, [task[p] EXCEPT !.pc = "stopCm", !.cur = r, !.todo = @ \ {r}])
    BY <1>6 DEF StopPod
  <2>2. [task[p] EXCEPT !.pc = "stopCm", !.cur = r, !.todo = @ \ {r}].op = task[p].op
    BY <1>1, OpKept
  <2> QED
    BY <2>1, <2>2, GotoNoEdit
<1>7. CASE StopCm(p)
  BY <1>7, AfterStopNoEdit, ToNoEdit DEF StopCm
<1> QED
  BY <1>2, <1>3, <1>4, <1>5, <1>6, <1>7 DEF HandlerStep

\* A handler that does not report leaves the status alone, or is a PATCH.
LEMMA HandlerTells ==
    ASSUME TypeInv, NEW p \in Procs, HandlerStep(p)
    PROVE  /\ Tells(p) => job' \in Statuses
           /\ ~Tells(p) => job' = job \/ task[p].op = "edit"
           /\ task[p].req \in Requests \union {NoReq}
<1>t. task[p] \in Tasks \union {Idle} /\ Shaped(task[p])
  BY DEF TypeInv, TypeOK, ShapeOK, WebOK
<1>r. task[p].req \in Requests \union {NoReq}
  BY <1>t DEF Tasks, Idle
<1>1. CASE StartMark(p) \/ StartFail(p)
  BY <1>1, <1>r DEF StartMark, StartFail, SaveJob, Tells, Statuses
<1>2. CASE WriteJob(p)
  <2>1. task[p].pc = "write" /\ job' = task[p].out
    BY <1>2 DEF WriteJob, SaveJob
  <2>2. task[p] \in Tasks /\ task[p].out # Absent
    BY <1>t, <2>1 DEF Shaped, Idle
  <2>3. task[p].out \in Statuses
    BY <2>2 DEF Tasks
  <2> QED
    BY <1>r, <2>1, <2>3 DEF Tells
<1>3. CASE ~(StartMark(p) \/ StartFail(p) \/ WriteJob(p))
  <2>1. job' = job
    BY <1>3 DEF HandlerStep, EnqueueStart, StartCount, MakeCheck, MakeInsert, StartList,
            StartConfig, StartPod, StartSave, StopList, StopPod, StopCm, SaveRow,
            EventJob, EventCount, store
  <2>2. ~Tells(p)
    BY <1>3, <1>t DEF HandlerStep, EnqueueStart, StartCount, MakeCheck, MakeInsert,
            StartList, StartConfig, StartPod, StartSave, StopList, StopPod, StopCm,
            SaveRow, EventJob, EventCount, Tells, At, Shaped, Writers
  <2> QED
    BY <1>r, <2>1, <2>2
<1> QED
  BY <1>1, <1>2, <1>3

\* Everybody else's steps are steps of AvesK8s.
LEMMA OtherIsNext ==
    ASSUME OtherStep
    PROVE  Next
  BY DEF OtherStep, Next

\* They change the status only when the job is created or destroyed.
LEMMA OtherStatus ==
    ASSUME TypeInv, OtherStep
    PROVE  job' = job \/ job' \in {"NEW", Absent}
<1>1. CASE UserStep
  BY <1>1 DEF UserStep, DestroyJob, DeleteJob, CreateJob, SaveJob, StartJob, CancelJob,
              CleanJob, EditJob, store
<1>2. CASE \/ TakeMessage \/ (\E m \in Requests : TakeRequest(m))
           \/ (\E e \in Events : TakeEvent(e))
  BY <1>2 DEF TakeMessage, TakeRequest, TakeEvent, StartAvesjob, HandleRequest,
              ProcessEvent, store
<1>3. ASSUME NEW n \in Names, ScriptStep(n) \/ TrainStep(n)
      PROVE  job' = job
  BY <1>3 DEF ScriptStep, TrainStep, ReportWorkerRunning, Rendezvous, Prepare, StartMpi,
              ReportResult, ReportBroken, ScriptEnds, TrainWon, TrainLost, ScriptFrame,
              store
<1>4. ASSUME NEW n \in Names, KubeletStep(n)
      PROVE  job' = job
  BY <1>4 DEF KubeletStep, PodStarts, PodGoes, PodDies, store
<1>5. CASE Fault
  BY <1>5 DEF Fault, Crash, Breaks, ImageFails, PodDies, ReportTimesOut, ReportLost,
              EventDropped, WatchAgain, ScriptFrame, store
<1> QED
  BY <1>1, <1>2, <1>3, <1>4, <1>5 DEF OtherStep

\* A PATCH is a handler only once it is spent.
LEMMA OtherEdits ==
    ASSUME TypeInv, BudgetBound, OtherStep
    PROVE  NoNewEdit \/ Spent("edit")'
<1> USE IdleOp
<1>1. CASE UserStep
  <2>1. CASE DestroyJob
    BY <2>1 DEF DestroyJob, web, NoNewEdit
  <2>2. ASSUME NEW p \in Procs,
               CreateJob(p) \/ StartJob(p) \/ CancelJob(p) \/ CleanJob(p)
        PROVE  NoNewEdit
    BY <2>2, PutNoEdit
       DEF CreateJob, StartJob, CancelJob, CleanJob, Begin, Handler, StartHandler
  <2>3. ASSUME NEW p \in Procs, EditJob(p)
        PROVE  Spent("edit")'
    BY <2>3, SpendSpent DEF EditJob, Kinds, UserKinds
  <2> QED
    BY <1>1, <2>1, <2>2, <2>3 DEF UserStep
<1>2. CASE TakeMessage
  BY <1>2, PutNoEdit DEF TakeMessage, StartAvesjob, Begin, Handler, StartHandler
<1>3. ASSUME NEW m \in Requests, TakeRequest(m)
      PROVE  NoNewEdit
  <2>1. PICK p \in Procs : HandleRequest(p, m)
    BY <1>3 DEF TakeRequest
  <2> DEFINE t == CASE m.kind = "wstat" -> WorkerChangeStatus(m)
                    [] m.kind = "jstat" -> JobChangeStatus(m)
                    [] m.kind = "jres"  -> FinishJob(m)
  <2>2. Begin(p, t)
    BY <2>1 DEF HandleRequest
  <2>3. t.op # "edit"
    BY DEF Requests, WorkerChangeStatus, JobChangeStatus, FinishJob, Handler
  <2> HIDE DEF t
  <2> QED
    BY <2>2, <2>3, PutNoEdit DEF Begin
<1>4. ASSUME NEW e \in Events, TakeEvent(e)
      PROVE  NoNewEdit
  BY <1>4, PutNoEdit DEF TakeEvent, ProcessEvent, Begin, Handler
<1>5. ASSUME NEW n \in Names, ScriptStep(n) \/ TrainStep(n)
      PROVE  NoNewEdit
  BY <1>5 DEF ScriptStep, TrainStep, ReportWorkerRunning, Rendezvous, Prepare, StartMpi,
              ReportResult, ReportBroken, ScriptEnds, TrainWon, TrainLost, ScriptFrame,
              web, NoNewEdit
<1>6. ASSUME NEW n \in Names, KubeletStep(n)
      PROVE  NoNewEdit
  BY <1>6 DEF KubeletStep, PodStarts, PodGoes, PodDies, web, NoNewEdit
<1>7. CASE Fault
  <2>1. ASSUME NEW p \in Procs, Crash(p)
        PROVE  NoNewEdit
    BY <2>1, EndNoEdit DEF Crash
  <2>2. CASE UNCHANGED task
    BY <2>2 DEF NoNewEdit
  <2> QED
    BY <1>7, <2>1, <2>2 DEF Fault, Breaks, ImageFails, PodDies, ReportTimesOut,
       ReportLost, EventDropped, WatchAgain, ScriptFrame, web
<1> QED
  BY <1>1, <1>2, <1>3, <1>4, <1>5, <1>6, <1>7 DEF OtherStep

-----------------------------------------------------------------------------
(* The invariant.                                                          *)

Calls == TypeInv /\ BudgetBound /\ EditsSpent
RInv == Calls /\ ReportsOK /\ NewestIsTrue

\* A step of a job, and a fault of the reports, keep the handlers in order.
LEMMA NextCalls ==
    ASSUME Calls, [Next]_vars, NoNewEdit \/ Spent("edit")'
    PROVE  /\ Calls'
           /\ \A k \in Kinds : Spent(k) => Spent(k)'
<1>1. TypeInv' /\ BudgetBound' /\ \A k \in Kinds : Spent(k) => Spent(k)'
  BY NextType, BudgetShrinks DEF Calls
<1>2. EditsSpent'
  BY <1>1 DEF Calls, EditsSpent, NoNewEdit, Kinds, UserKinds
<1> QED
  BY <1>1, <1>2 DEF Calls

LEMMA FaultCalls ==
    ASSUME Calls, NEW k \in {"lose", "crash"}, Spend(k),
           UNCHANGED <<store, cluster, script>>,
           UNCHANGED web \/ \E p \in Procs : End(p)
    PROVE  Calls' /\ Parted'
<1>k. k \in Kinds
  BY DEF Kinds, FaultKinds
<1>1. BudgetOK' /\ \A j \in Kinds : budget[j] \in Nat /\ budget'[j] <= budget[j]
  BY <1>k, SpendType DEF Calls, TypeInv, TypeOK, BudgetOK, Spend
<1>2. BudgetBound' /\ (Spent("edit") => Spent("edit")')
  BY <1>1, BudgetAssumption
     DEF Calls, BudgetBound, Spent, BudgetOK, Kinds, UserKinds
<1>3. /\ WebOK' /\ \A q \in Procs : Shaped(task'[q])
      /\ NoNewEdit
  <2>1. CASE UNCHANGED web
    BY <2>1 DEF web, Calls, TypeInv, TypeOK, ShapeOK, WebOK, NoNewEdit
  <2>2. ASSUME NEW p \in Procs, End(p)
        PROVE  WebOK' /\ (\A q \in Procs : Shaped(task'[q])) /\ NoNewEdit
    BY <2>2, EndType, EndNoEdit DEF Calls
  <2> QED
    BY <2>1, <2>2
<1>4. TypeInv'
  BY <1>1, <1>3 DEF Calls, TypeInv, TypeOK, ShapeOK, store, cluster, StoreOK, ClusterOK,
                    ScriptOK
<1>5. EditsSpent'
  BY <1>2, <1>3 DEF Calls, EditsSpent, NoNewEdit
<1>6. Parted'
  BY <1>k, SpendSpent DEF Calls, Parted
<1> QED
  BY <1>2, <1>4, <1>5, <1>6 DEF Calls

\* Nothing is reported anew: the newest report stays the newest.
LEMMA SameReports ==
    ASSUME ReportsOK, NewestIsTrue, UNCHANGED <<reports, overtaken>>,
           Parted => Parted', turn' \in Turned,
           job' = job \/ job' \in {"NEW", Absent} \/ Parted'
    PROVE  ReportsOK' /\ NewestIsTrue'
<1>1. ReportsOK'
  BY DEF ReportsOK, reports, Turned
<1>2. Newest' = Newest
  BY DEF Newest, reports, Last
<1> QED
  BY <1>1, <1>2 DEF NewestIsTrue

LEMMA ReportingKept ==
    ASSUME RInv, NEW p \in Procs, ReportingStep(p)
    PROVE  RInv'
<1>1. Calls /\ ReportsOK /\ NewestIsTrue /\ HandlerStep(p)
  BY DEF RInv, ReportingStep
<1>2. Next
  BY <1>1 DEF Next
<1>3. Calls' /\ \A k \in Kinds : Spent(k) => Spent(k)'
  BY <1>1, <1>2, NextCalls, HandlerNoEdit DEF Calls
<1>4. /\ Parted => Parted'
      /\ turn' \in Turned
  BY <1>1, <1>3 DEF Parted, ReportingStep, Turns, Turned, ReportsOK, Kinds, UserKinds,
                    FaultKinds
<1>5. CASE Tells(p)
  <2> DEFINE r == [proc |-> p, st |-> job', req |-> task[p].req]
  <2>1. r \in Saved /\ r.st = job'
    BY <1>1, <1>5, HandlerTells DEF Calls, Saved
  <2>2. saved' = Append(saved, r) /\ UNCHANGED <<queue, flight, last, overtaken>>
    BY <1>5 DEF ReportingStep
  <2>3. saved \in Seq(Saved)
    BY <1>1 DEF ReportsOK, Saved
  <2> HIDE DEF r
  <2>4. /\ saved' \in Seq(Saved) /\ saved' # <<>>
        /\ saved'[Len(saved')] = r
    BY <2>1, <2>2, <2>3, Appending
  <2>5. ReportsOK'
    BY <1>1, <1>4, <2>2, <2>4 DEF ReportsOK, Saved, Turned
  <2>6. Newest' = job'
    BY <2>1, <2>4 DEF Newest
  <2> QED
    BY <1>3, <2>5, <2>6 DEF RInv, NewestIsTrue
<1>6. CASE ~Tells(p)
  <2>1. UNCHANGED <<reports, overtaken>>
    BY <1>6 DEF ReportingStep, reports
  <2>2. job' = job \/ Spent("edit")
    BY <1>1, <1>6, HandlerTells DEF Calls, EditsSpent
  <2>3. job' = job \/ Parted'
    BY <1>3, <2>2 DEF Parted, Kinds, UserKinds
  <2> QED
    BY <1>1, <1>3, <1>4, <2>1, <2>3, SameReports DEF RInv
<1> QED
  BY <1>5, <1>6

LEMMA OtherKept ==
    ASSUME RInv, OtherStep
    PROVE  RInv'
<1>1. Calls' /\ \A k \in Kinds : Spent(k) => Spent(k)'
  BY OtherIsNext, OtherEdits, NextCalls DEF RInv, Calls
<1>2. /\ Parted => Parted'
      /\ turn' \in Turned
      /\ UNCHANGED <<reports, overtaken>>
  BY <1>1 DEF Parted, OtherStep, Turns, Turned, RInv, ReportsOK, Kinds, UserKinds,
              FaultKinds
<1>3. ReportsOK' /\ NewestIsTrue'
  BY <1>2, OtherStatus, SameReports DEF RInv, Calls
<1> QED
  BY <1>1, <1>3 DEF RInv

\* The steps of the reports alone.
LEMMA CallsStay ==
    ASSUME RInv, UNCHANGED vars
    PROVE  /\ Calls' /\ job' = job
           /\ overtaken' => Parted'
           /\ Parted => Parted' \/ (overtaken /\ ~overtaken')
<1>1. Calls' /\ \A k \in Kinds : Spent(k) => Spent(k)'
  BY NextCalls DEF RInv, vars, web, NoNewEdit
<1>2. {"lose", "crash", "edit"} \subseteq Kinds
  BY DEF Kinds, UserKinds, FaultKinds
<1> QED
  BY <1>1, <1>2 DEF Parted, vars, store

LEMMA QueueKept ==
    ASSUME RInv, NEW i \in 1 .. Cardinality(Procs), QueueReport(i)
    PROVE  RInv'
<1>1. Calls' /\ job' = job /\ (~Parted' => ~Parted /\ ~overtaken')
  BY CallsStay DEF QueueReport
<1>2. saved \in Seq(Saved) /\ queue \in Seq(Statuses) /\ i \in 1 .. Len(saved)
  BY LenProperties DEF RInv, ReportsOK, Saved, QueueReport
<1>3. saved[i].st \in Statuses /\ saved # <<>> /\ Len(saved) \in Nat
  <2>1. saved[i] \in Saved
    BY <1>2, ElementOfSeq
  <2>2. Len(saved) \in Nat
    BY <1>2, LenProperties
  <2>3. saved # <<>>
    BY <1>2, <2>2, EmptySeq
  <2> QED
    BY <2>1, <2>2, <2>3 DEF Saved
<1>4. /\ queue' \in Seq(Statuses) /\ queue' # <<>>
      /\ Last(queue') = saved[i].st
  BY <1>2, <1>3, Appending DEF QueueReport, Last
<1>5. /\ saved' \in Seq(Saved)
      /\ Len(saved') = Len(saved) - 1
      /\ i < Len(saved) => saved'[Len(saved) - 1] = saved[Len(saved)]
  BY <1>2, Removal DEF QueueReport
<1>6. ReportsOK'
  BY <1>4, <1>5 DEF QueueReport, RInv, ReportsOK, Saved
<1>7. ASSUME ~overtaken' PROVE Newest' = Newest
  <2>0. ~(i > 1) /\ flight' = flight /\ last' = last
    BY <1>7 DEF QueueReport
  <2>1. i = 1
    BY <1>2, <1>3, <2>0
  <2>2. CASE Len(saved) = 1
    <3>1. saved' = <<>>
      BY <1>5, <2>2, EmptySeq
    <3>2. Newest' = Last(queue') /\ Newest = saved[Len(saved)].st
      BY <1>3, <1>4, <3>1 DEF Newest
    <3> QED
      BY <1>4, <2>1, <2>2, <3>2
  <2>3. CASE Len(saved) > 1
    <3>1. saved' # <<>>
      BY <1>3, <1>5, <2>3, EmptySeq
    <3>2. Newest' = saved'[Len(saved')].st /\ Newest = saved[Len(saved)].st
      BY <1>3, <3>1 DEF Newest
    <3>3. saved'[Len(saved')] = saved[Len(saved)]
      BY <1>5, <2>1, <2>3
    <3> QED
      BY <3>2, <3>3
  <2>4. Len(saved) = 1 \/ Len(saved) > 1
    <3>1. Len(saved) \in Nat /\ i \in 1 .. Len(saved)
      BY <1>2, <1>3
    <3> QED
      BY <3>1
  <2> QED
    BY <2>2, <2>3, <2>4
<1> QED
  BY <1>1, <1>6, <1>7 DEF RInv, NewestIsTrue

LEMMA TakeKept ==
    ASSUME RInv, TakeReport
    PROVE  RInv'
<1>1. Calls' /\ job' = job /\ (~Parted' => ~Parted)
  BY CallsStay DEF TakeReport, history
<1>2. queue \in Seq(Statuses) /\ flight \in Seq(Statuses) /\ queue # <<>>
  BY DEF RInv, ReportsOK, TakeReport
<1>3. /\ Head(queue) \in Statuses /\ queue' \in Seq(Statuses)
      /\ queue' # <<>> => Last(queue') = Last(queue)
      /\ queue' = <<>> => Head(queue) = Last(queue)
  BY <1>2, Taking DEF TakeReport
<1>4. /\ flight' \in Seq(Statuses) /\ flight' # <<>>
      /\ Len(flight') = Len(flight) + 1
      /\ Last(flight') = Head(queue)
  BY <1>2, <1>3, Appending DEF TakeReport, Last
<1>5. Len(flight) \in Nat /\ Len(flight) < Conc /\ Conc \in Nat
  BY <1>2, LenProperties, ReportsAssumption DEF TakeReport
<1>6. ReportsOK'
  BY <1>3, <1>4, <1>5 DEF TakeReport, history, RInv, ReportsOK
<1>7. Newest' = Newest
  BY <1>2, <1>3, <1>4 DEF Newest, TakeReport
<1> QED
  BY <1>1, <1>6, <1>7 DEF RInv, NewestIsTrue

LEMMA PublishKept ==
    ASSUME RInv, NEW i \in 1 .. Conc, Publish(i)
    PROVE  RInv'
<1>1. Calls' /\ job' = job /\ (~Parted' => ~Parted /\ ~overtaken')
  BY CallsStay DEF Publish
<1>2. flight \in Seq(Statuses) /\ i \in 1 .. Len(flight) /\ Len(flight) \in Nat
  BY LenProperties DEF RInv, ReportsOK, Publish
<1>3. flight[i] \in Statuses /\ flight # <<>>
  BY <1>2, ElementOfSeq, EmptySeq
<1>4. /\ flight' \in Seq(Statuses)
      /\ Len(flight') = Len(flight) - 1
      /\ i < Len(flight) => flight'[Len(flight) - 1] = flight[Len(flight)]
  BY <1>2, Removal DEF Publish
<1>5. ReportsOK'
  BY <1>2, <1>3, <1>4, ReportsAssumption DEF Publish, RInv, ReportsOK
<1>6. ASSUME ~overtaken' PROVE Newest' = Newest
  <2>0. ~(i > 1)
    BY <1>6 DEF Publish
  <2>1. i = 1
    BY <1>2, <2>0
  <2>2. CASE Len(flight) = 1
    <3>1. flight' = <<>>
      BY <1>4, <2>2, EmptySeq
    <3> QED
      BY <1>3, <2>1, <2>2, <3>1 DEF Newest, Publish, Last
  <2>3. CASE Len(flight) > 1
    <3>1. flight' # <<>> /\ Last(flight') = Last(flight)
      BY <1>2, <1>4, <2>1, <2>3, EmptySeq DEF Last
    <3> QED
      BY <1>3, <3>1 DEF Newest, Publish
  <2> QED
    BY <1>2, <2>2, <2>3
<1> QED
  BY <1>1, <1>5, <1>6 DEF RInv, NewestIsTrue

\* A report that is lost leaves PAI apart from the row.
LEMMA LostKept ==
    ASSUME RInv,
           \/ \E i \in 1 .. Cardinality(Procs) : ReportingDies(i)
           \/ \E i \in 1 .. Conc : PublishFails(i)
           \/ CeleryDies
    PROVE  RInv'
<1>1. /\ UNCHANGED <<store, cluster, script>>
      /\ UNCHANGED <<queue, last, overtaken, turn>>
  BY DEF ReportingDies, PublishFails, CeleryDies, history
<1>2. CASE \E i \in 1 .. Cardinality(Procs) : ReportingDies(i)
  <2>1. PICK i \in 1 .. Cardinality(Procs) : ReportingDies(i)
    BY <1>2
  <2>2. saved \in Seq(Saved) /\ i \in 1 .. Len(saved)
    BY <2>1, LenProperties DEF RInv, ReportsOK, Saved, ReportingDies
  <2>3. saved[i] \in Saved
    BY <2>2, ElementOfSeq
  <2>4. saved' \in Seq(Saved)
    BY <2>1, <2>2, Removal DEF ReportingDies
  <2>5. PICK k \in {"lose", "crash"} : Spend(k)
    BY <2>1 DEF ReportingDies
  <2>6. End(saved[i].proc)
    BY <2>1 DEF ReportingDies
  <2>7. Calls' /\ Parted'
    <3>1. saved[i].proc \in Procs
      BY <2>3 DEF Saved
    <3> QED
      BY <1>1, <3>1, <2>5, <2>6, FaultCalls DEF RInv
  <2>8. ReportsOK'
    BY <1>1, <2>1, <2>4 DEF ReportingDies, RInv, ReportsOK, Saved
  <2> QED
    BY <2>7, <2>8 DEF RInv, NewestIsTrue
<1>3. CASE (\E i \in 1 .. Conc : PublishFails(i)) \/ CeleryDies
  <2>1. /\ UNCHANGED <<web, saved>>
        /\ Spend("lose") \/ Spend("crash")
    BY <1>3 DEF PublishFails, CeleryDies
  <2>2. Calls' /\ Parted'
    BY <1>1, <2>1, FaultCalls DEF RInv
  <2>3. flight' \in Seq(Statuses) /\ Len(flight') <= Conc
    <3>0. flight \in Seq(Statuses) /\ Len(flight) <= Conc /\ Len(flight) \in Nat
      BY LenProperties DEF RInv, ReportsOK
    <3>1. ASSUME NEW i \in 1 .. Conc, PublishFails(i)
          PROVE  flight' \in Seq(Statuses) /\ Len(flight') <= Conc
      <4>1. i \in 1 .. Len(flight) /\ flight' = RemoveAt(flight, i)
        BY <3>0, <3>1, LenProperties DEF PublishFails
      <4>2. flight' \in Seq(Statuses) /\ Len(flight') = Len(flight) - 1
        BY <3>0, <4>1, Removal
      <4> QED
        BY <3>0, <4>2, ReportsAssumption
    <3>2. CASE CeleryDies
      <4>1. flight' = <<>>
        BY <3>2 DEF CeleryDies
      <4> QED
        BY <4>1, EmptySeq, ReportsAssumption
    <3> QED
      BY <1>3, <3>1, <3>2
  <2>4. ReportsOK'
    BY <1>1, <2>1, <2>3 DEF RInv, ReportsOK
  <2> QED
    BY <2>2, <2>4 DEF RInv, NewestIsTrue
<1> QED
  BY <1>2, <1>3

LEMMA InitReports == RInit => RInv
<1> SUFFICES ASSUME RInit PROVE RInv
  OBVIOUS
<1>1. TypeInv /\ BudgetBound
  BY InitType, BudgetAssumption DEF RInit, Init, BudgetInit, BudgetBound
<1>2. EditsSpent
  BY IdleOp DEF RInit, Init, WebInit, EditsSpent
<1>3. ReportsOK
  <2>1. /\ <<>> \in Seq([proc : Procs, st : Statuses, req : Requests \union {NoReq}])
        /\ <<>> \in Seq(Statuses)
    OBVIOUS
  <2>2. 0 <= Conc
    BY ReportsAssumption
  <2>3. Len(flight) = 0
    BY DEF RInit
  <2> QED
    BY <2>1, <2>2, <2>3 DEF RInit, ReportsOK
<1>4. NewestIsTrue
  BY DEF RInit, Init, StoreInit, NewestIsTrue
<1> QED
  BY <1>1, <1>2, <1>3, <1>4 DEF RInv, Calls

LEMMA NextReports ==
    ASSUME RInv, [RNext]_rvars
    PROVE  RInv'
<1>1. CASE UNCHANGED rvars
  <2>1. UNCHANGED vars /\ UNCHANGED <<reports, overtaken>> /\ turn' = turn
    BY <1>1 DEF rvars, history
  <2>2. ReportsOK' /\ NewestIsTrue'
    BY <2>1, CallsStay, SameReports DEF RInv, ReportsOK, Turned
  <2> QED
    BY <2>1, <2>2, CallsStay DEF RInv
<1>2. CASE RNext
  BY <1>2, ReportingKept, OtherKept, QueueKept, TakeKept, PublishKept, LostKept
     DEF RNext
<1> QED
  BY <1>1, <1>2

\* For any pods, processes, budgets and number of reports published at a time,
\* the newest report is that of the status in the row: whatever handlers save
\* side by side, no status is saved without being told, but that of a PATCH
\* (update_status, report_avesjob_status).
THEOREM NewestCorrect == RSpec => [](ReportsOK /\ NewestIsTrue)
<1>1. RInv => ReportsOK /\ NewestIsTrue
  BY DEF RInv
<1> QED
  BY <1>1, InitReports, NextReports, PTL DEF RSpec

-----------------------------------------------------------------------------
(* Reports in the order of the statuses they tell.                         *)

OverIn(f) == \E i \in DOMAIN f : f[i] \in Terminal
ActiveIn(f) == \E i \in DOMAIN f : f[i] \in Active

\* No report of an active job behind one of its end, within f or from f to g.
Ordered(f) ==
    \A i, j \in DOMAIN f : i < j /\ f[i] \in Terminal => f[j] \notin Active
Behind(f, g) == OverIn(f) => ~ActiveIn(g)

\* The four parts of the way of a report, from its end.
Told == [i \in {1} |-> last]
Saves == [i \in DOMAIN saved |-> saved[i].st]

WayOrdered ==
    /\ Ordered(flight) /\ Ordered(queue) /\ Ordered(Saves)
    /\ Behind(Told, flight) /\ Behind(Told, queue) /\ Behind(Told, Saves)
    /\ Behind(flight, queue) /\ Behind(flight, Saves)
    /\ Behind(queue, Saves)
NothingOver == ~OverIn(Told) /\ ~OverIn(flight) /\ ~OverIn(queue) /\ ~OverIn(Saves)

\* Until a job that was over is active again, reports that do not overtake
\* each other are in order, and none tells an end before there was one.
InOrder ==
    turn # "again" /\ ~overtaken => WayOrdered /\ (turn = "first" => NothingOver)

\* g has nothing that f has not, in the same order.
Thinner(g, f) ==
    /\ Ordered(f) => Ordered(g)
    /\ OverIn(g) => OverIn(f)
    /\ ActiveIn(g) => ActiveIn(f)

LEMMA ThinnedOut ==
    ASSUME NEW n \in Nat, NEW i \in 1 .. n, NEW f, NEW g,
           DOMAIN f = 1 .. n, DOMAIN g = 1 .. n - 1,
           \A k \in 1 .. n - 1 : g[k] = f[IF k < i THEN k ELSE k + 1]
    PROVE  Thinner(g, f)
<1> DEFINE h(k) == IF k < i THEN k ELSE k + 1
<1>1. \A k \in DOMAIN g : h(k) \in DOMAIN f /\ g[k] = f[h(k)]
  OBVIOUS
<1>2. \A k, l \in DOMAIN g : k < l => h(k) < h(l)
  OBVIOUS
<1> HIDE DEF h
<1> QED
  BY <1>1, <1>2 DEF Thinner, Ordered, OverIn, ActiveIn

\* One more at the end.
LEMMA Lengthened ==
    ASSUME NEW n \in Nat, NEW f, NEW g, NEW e,
           DOMAIN f = 1 .. n, DOMAIN g = 1 .. n + 1,
           \A k \in 1 .. n : g[k] = f[k],
           g[n + 1] = e
    PROVE  /\ Ordered(f) /\ (OverIn(f) => e \notin Active) => Ordered(g)
           /\ OverIn(g) => OverIn(f) \/ e \in Terminal
           /\ ActiveIn(g) => ActiveIn(f) \/ e \in Active
<1>1. \A k \in 1 .. n + 1 : k \in 1 .. n \/ k = n + 1
  OBVIOUS
<1>2. n + 1 \in 1 .. n + 1 /\ \A k \in 1 .. n : k \in 1 .. n + 1 /\ ~(n + 1 < k)
  OBVIOUS
<1>3. ASSUME Ordered(f), OverIn(f) => e \notin Active
      PROVE  Ordered(g)
  <2> SUFFICES ASSUME NEW i \in 1 .. n + 1, NEW j \in 1 .. n + 1, i < j,
                      g[i] \in Terminal
               PROVE  g[j] \notin Active
    BY DEF Ordered
  <2>1. i \in 1 .. n /\ f[i] \in Terminal
    OBVIOUS
  <2>2. CASE j \in 1 .. n
    BY <1>3, <2>1, <2>2 DEF Ordered
  <2>3. CASE j = n + 1
    BY <1>3, <2>1, <2>3 DEF OverIn
  <2> QED
    BY <1>1, <2>2, <2>3
<1> QED
  BY <1>1, <1>2, <1>3 DEF OverIn, ActiveIn

LEMMA AppendingAt ==
    ASSUME NEW S, NEW s \in Seq(S), NEW e \in S
    PROVE  /\ DOMAIN s = 1 .. Len(s) /\ Len(s) \in Nat
           /\ DOMAIN Append(s, e) = 1 .. Len(s) + 1
           /\ \A k \in 1 .. Len(s) : Append(s, e)[k] = s[k]
           /\ Append(s, e)[Len(s) + 1] = e
  BY AppendProperties, LenProperties

\* The reports stay where they are.
LEMMA SameOrder ==
    ASSUME InOrder, UNCHANGED <<reports, overtaken>>, turn' = turn \/ Turns,
           turn \in Turned
    PROVE  InOrder'
<1>1. Saves' = Saves /\ Told' = Told /\ WayOrdered' = WayOrdered
      /\ NothingOver' = NothingOver
  BY DEF reports, Saves, Told, WayOrdered, NothingOver
<1>2. /\ turn' # "again" => turn # "again"
      /\ turn' = "first" => turn = "first"
  BY DEF Turns, Turned
<1> QED
  BY <1>1, <1>2 DEF InOrder, reports

\* A handler that has saved a status is behind all reports on their way.
LEMMA TellsOrder ==
    ASSUME RInv, InOrder, NEW p \in Procs, ReportingStep(p), Tells(p)
    PROVE  InOrder'
<1> DEFINE r == [proc |-> p, st |-> job', req |-> task[p].req]
<1>1. /\ r \in Saved /\ r.st = job' /\ saved \in Seq(Saved)
      /\ turn \in Turned
  BY HandlerTells DEF RInv, Calls, Saved, ReportsOK, Turned, ReportingStep
<1>2. /\ saved' = Append(saved, r)
      /\ UNCHANGED <<queue, flight, last, overtaken>> /\ Turns
  BY DEF ReportingStep
<1> HIDE DEF r
<1>3. /\ Len(saved) \in Nat
      /\ DOMAIN saved = 1 .. Len(saved)
      /\ DOMAIN saved' = 1 .. Len(saved) + 1
      /\ \A k \in 1 .. Len(saved) : saved'[k] = saved[k]
      /\ saved'[Len(saved) + 1] = r
  BY <1>1, <1>2, AppendingAt
<1>4. /\ DOMAIN Saves = 1 .. Len(saved)
      /\ DOMAIN Saves' = 1 .. Len(saved) + 1
      /\ \A k \in 1 .. Len(saved) : Saves'[k] = Saves[k]
      /\ Saves'[Len(saved) + 1] = job'
  BY <1>1, <1>3 DEF Saves
<1>5. /\ Ordered(Saves) /\ (OverIn(Saves) => job' \notin Active) => Ordered(Saves')
      /\ OverIn(Saves') => OverIn(Saves) \/ job' \in Terminal
      /\ ActiveIn(Saves') => ActiveIn(Saves) \/ job' \in Active
  <2> HIDE DEF Saves
  <2> QED
    BY <1>3, <1>4, Lengthened
<1>6. OverIn(Saves)' = OverIn(Saves') /\ ActiveIn(Saves)' = ActiveIn(Saves')
      /\ Ordered(Saves)' = Ordered(Saves') /\ UNCHANGED <<flight, queue, Told>>
  BY <1>2 DEF Told, OverIn, ActiveIn, Ordered
<1>7. SUFFICES ASSUME turn' # "again", ~overtaken'
               PROVE  WayOrdered' /\ (turn' = "first" => NothingOver')
  BY DEF InOrder
<1>8. /\ turn # "again" /\ ~overtaken
      /\ turn' = "first" => turn = "first" /\ job' \notin Terminal
      /\ job' \in Active => turn = "first"
  BY <1>1, <1>2, <1>7 DEF Turns, Turned, Active, Terminal
<1>9. WayOrdered /\ (turn = "first" => NothingOver)
  BY <1>8 DEF InOrder
<1> HIDE DEF Saves, Told
<1> QED
  BY <1>5, <1>6, <1>8, <1>9 DEF WayOrdered, NothingOver, Behind, OverIn, ActiveIn, Ordered

\* Reports that leave some part of the way, in whatever order.
LEMMA FewerOrder ==
    ASSUME InOrder, UNCHANGED turn, overtaken' = overtaken, last' = last,
           Thinner(flight', flight), Thinner(queue', queue), Thinner(Saves', Saves)
    PROVE  InOrder'
<1>1. Told' = Told
  BY DEF Told
<1>2. /\ OverIn(Saves)' = OverIn(Saves') /\ ActiveIn(Saves)' = ActiveIn(Saves')
      /\ Ordered(Saves)' = Ordered(Saves')
      /\ OverIn(flight)' = OverIn(flight') /\ ActiveIn(flight)' = ActiveIn(flight')
      /\ Ordered(flight)' = Ordered(flight')
      /\ OverIn(queue)' = OverIn(queue') /\ ActiveIn(queue)' = ActiveIn(queue')
      /\ Ordered(queue)' = Ordered(queue')
      /\ OverIn(Told)' = OverIn(Told)
  BY <1>1 DEF OverIn, ActiveIn, Ordered
<1> HIDE DEF Saves, Told
<1> QED
  BY <1>2 DEF InOrder, WayOrdered, NothingOver, Behind, Thinner

LEMMA ThinnerSelf == ASSUME NEW f PROVE Thinner(f, f)
  BY DEF Thinner

LEMMA ThinnerEmpty == ASSUME NEW f PROVE Thinner(<<>>, f)
  BY DEF Thinner, Ordered, OverIn, ActiveIn

LEMMA ThinnerRemoved ==
    ASSUME NEW S, NEW s \in Seq(S), NEW i \in DOMAIN s
    PROVE  Thinner(RemoveAt(s, i), s)
<1>0. i \in 1 .. Len(s)
  BY LenProperties
<1> DEFINE r == RemoveAt(s, i)
<1>1. /\ DOMAIN s = 1 .. Len(s) /\ Len(s) \in Nat
      /\ DOMAIN r = 1 .. Len(s) - 1
      /\ \A k \in 1 .. Len(s) - 1 : r[k] = s[IF k < i THEN k ELSE k + 1]
  BY <1>0, RemovalAt
<1> HIDE DEF r
<1>2. Thinner(r, s)
  BY <1>0, <1>1, ThinnedOut
<1> QED
  BY <1>2 DEF r

LEMMA ThinnerSaves ==
    ASSUME ReportsOK, NEW i \in DOMAIN saved, saved' = RemoveAt(saved, i)
    PROVE  Thinner(Saves', Saves)
<1>0. saved \in Seq(Saved) /\ i \in 1 .. Len(saved)
  BY LenProperties DEF ReportsOK, Saved
<1>1. /\ DOMAIN saved = 1 .. Len(saved) /\ Len(saved) \in Nat
      /\ DOMAIN saved' = 1 .. Len(saved) - 1
      /\ \A k \in 1 .. Len(saved) - 1 :
            saved'[k] = saved[IF k < i THEN k ELSE k + 1]
  BY <1>0, RemovalAt
<1>2. \A k \in 1 .. Len(saved) - 1 :
         (IF k < i THEN k ELSE k + 1) \in 1 .. Len(saved)
  BY <1>0, <1>1
<1>3. /\ DOMAIN Saves = 1 .. Len(saved)
      /\ DOMAIN Saves' = 1 .. Len(saved) - 1
      /\ \A k \in 1 .. Len(saved) - 1 :
            Saves'[k] = Saves[IF k < i THEN k ELSE k + 1]
  BY <1>1, <1>2 DEF Saves
<1> HIDE DEF Saves
<1> QED
  BY <1>0, <1>1, <1>3, ThinnedOut

\* The first of f goes behind g; nothing of f tells an end before it.
LEMMA PassedOn ==
    ASSUME NEW S, NEW f \in Seq(S), f # <<>>, NEW T, NEW g \in Seq(T), NEW e \in T,
           NEW fs, DOMAIN fs = DOMAIN f, fs[1] = e,
           NEW fs2, Thinner(fs2, fs),
           DOMAIN fs2 = 1 .. Len(f) - 1,
           \A k \in 1 .. Len(f) - 1 : fs2[k] = fs[k + 1]
    PROVE  /\ Ordered(g) /\ Behind(g, fs) => Ordered(Append(g, e))
           /\ OverIn(Append(g, e)) => OverIn(g) \/ OverIn(fs)
           /\ ActiveIn(Append(g, e)) => ActiveIn(g) \/ ActiveIn(fs)
           /\ Ordered(fs) /\ Behind(g, fs) => Behind(Append(g, e), fs2)
<1>1. /\ Len(f) \in Nat \ {0} /\ DOMAIN fs = 1 .. Len(f)
  BY LenProperties, EmptySeq
<1>2. /\ e \in Terminal => OverIn(fs)
      /\ e \in Active => ActiveIn(fs)
  BY <1>1 DEF OverIn, ActiveIn
<1>3. /\ Ordered(g) /\ (OverIn(g) => e \notin Active) => Ordered(Append(g, e))
      /\ OverIn(Append(g, e)) => OverIn(g) \/ e \in Terminal
      /\ ActiveIn(Append(g, e)) => ActiveIn(g) \/ e \in Active
  <2> DEFINE h == Append(g, e)
             n == Len(g)
  <2>1. /\ DOMAIN g = 1 .. n /\ n \in Nat /\ DOMAIN h = 1 .. n + 1
        /\ \A k \in 1 .. n : h[k] = g[k]
        /\ h[n + 1] = e
    BY AppendingAt
  <2> HIDE DEF h, n
  <2>2. /\ Ordered(g) /\ (OverIn(g) => e \notin Active) => Ordered(h)
        /\ OverIn(h) => OverIn(g) \/ e \in Terminal
        /\ ActiveIn(h) => ActiveIn(g) \/ e \in Active
    BY <2>1, Lengthened
  <2> QED
    BY <2>2 DEF h
<1>4. Ordered(fs) /\ e \in Terminal => ~ActiveIn(fs2)
  <2>1. \A k \in 1 .. Len(f) - 1 : k + 1 \in 1 .. Len(f) /\ 1 < k + 1 /\ 1 \in 1 .. Len(f)
    BY <1>1
  <2> QED
    BY <1>1, <2>1 DEF Ordered, ActiveIn
<1>5. ActiveIn(fs2) => ActiveIn(fs)
  BY DEF Thinner
<1> QED
  BY <1>2, <1>3, <1>4, <1>5 DEF Behind

\* Reports go on in their order, unless one overtakes another.
LEMMA QueueOrder ==
    ASSUME RInv, InOrder, NEW i, QueueReport(i)
    PROVE  InOrder'
<1>1. SUFFICES ASSUME turn' # "again", ~overtaken'
               PROVE  WayOrdered' /\ (turn' = "first" => NothingOver')
  BY DEF InOrder
<1>2. /\ turn' = turn /\ ~overtaken /\ ~(i > 1) /\ i \in DOMAIN saved
      /\ UNCHANGED <<flight, last>>
      /\ saved' = RemoveAt(saved, i) /\ queue' = Append(queue, saved[i].st)
  BY <1>1 DEF QueueReport
<1>3. WayOrdered /\ (turn = "first" => NothingOver)
  BY <1>1, <1>2 DEF InOrder
<1>4. saved \in Seq(Saved) /\ queue \in Seq(Statuses) /\ ReportsOK
  BY DEF RInv, ReportsOK, Saved
<1>5. Len(saved) \in Nat /\ DOMAIN saved = 1 .. Len(saved)
  BY <1>4, LenProperties
<1>6. i = 1 /\ i \in 1 .. Len(saved) /\ saved # <<>>
  BY <1>2, <1>5, <1>4, EmptySeq
<1>7. /\ DOMAIN saved' = 1 .. Len(saved) - 1
      /\ \A k \in 1 .. Len(saved) - 1 : saved'[k] = saved[k + 1]
  <2>1. /\ DOMAIN saved' = 1 .. Len(saved) - 1
        /\ \A k \in 1 .. Len(saved) - 1 :
              saved'[k] = saved[IF k < 1 THEN k ELSE k + 1]
    BY <1>2, <1>4, <1>6, RemovalAt
  <2> QED
    BY <1>5, <2>1
<1>8. /\ DOMAIN Saves = DOMAIN saved /\ Saves[1] = saved[i].st
      /\ saved[i].st \in Statuses
      /\ DOMAIN Saves' = 1 .. Len(saved) - 1
      /\ \A k \in 1 .. Len(saved) - 1 : Saves'[k] = Saves[k + 1]
      /\ Thinner(Saves', Saves)
  <2>1. saved[i] \in Saved
    BY <1>4, <1>6, ElementOfSeq
  <2>2. Thinner(Saves', Saves)
    BY <1>2, <1>4, ThinnerSaves
  <2>3. \A k \in 1 .. Len(saved) - 1 : k + 1 \in 1 .. Len(saved)
    BY <1>5
  <2> QED
    BY <1>5, <1>6, <1>7, <2>1, <2>2, <2>3 DEF Saves, Saved
<1> HIDE DEF Saves, Told
<1>9. /\ Ordered(queue) /\ Behind(queue, Saves) => Ordered(queue')
      /\ OverIn(queue') => OverIn(queue) \/ OverIn(Saves)
      /\ ActiveIn(queue') => ActiveIn(queue) \/ ActiveIn(Saves)
      /\ Ordered(Saves) /\ Behind(queue, Saves) => Behind(queue', Saves')
  BY <1>2, <1>4, <1>6, <1>8, PassedOn
<1>10. Told' = Told
  BY <1>2 DEF Told
<1> QED
  BY <1>2, <1>3, <1>8, <1>9, <1>10
     DEF WayOrdered, NothingOver, Behind, Thinner, OverIn, ActiveIn, Ordered

LEMMA TakeOrder ==
    ASSUME RInv, InOrder, TakeReport
    PROVE  InOrder'
<1>1. SUFFICES ASSUME turn' # "again", ~overtaken'
               PROVE  WayOrdered' /\ (turn' = "first" => NothingOver')
  BY DEF InOrder
<1>2. /\ turn' = turn /\ ~overtaken /\ UNCHANGED <<saved, last>>
      /\ queue # <<>> /\ queue' = Tail(queue) /\ flight' = Append(flight, Head(queue))
  BY <1>1 DEF TakeReport, history
<1>3. WayOrdered /\ (turn = "first" => NothingOver)
  BY <1>1, <1>2 DEF InOrder
<1>4. queue \in Seq(Statuses) /\ flight \in Seq(Statuses)
  BY DEF RInv, ReportsOK
<1>5. /\ Len(queue) \in Nat \ {0} /\ Head(queue) = queue[1]
      /\ Head(queue) \in Statuses /\ queue' \in Seq(Statuses)
      /\ Len(queue') = Len(queue) - 1
      /\ \A k \in 1 .. Len(queue') : queue'[k] = queue[k + 1]
  BY <1>2, <1>4, EmptySeq, HeadTailProperties
<1>6. /\ DOMAIN queue = 1 .. Len(queue) /\ DOMAIN queue' = 1 .. Len(queue) - 1
      /\ \A k \in 1 .. Len(queue) - 1 : queue'[k] = queue[k + 1]
  BY <1>4, <1>5, LenProperties
<1>7. Thinner(queue', queue)
  <2>1. \A k \in 1 .. Len(queue) - 1 : queue'[k] = queue[IF k < 1 THEN k ELSE k + 1]
    BY <1>5, <1>6
  <2>2. 1 \in 1 .. Len(queue) /\ Len(queue) \in Nat
    BY <1>5
  <2> QED
    BY <1>6, <2>1, <2>2, ThinnedOut
<1>8. /\ Ordered(flight) /\ Behind(flight, queue) => Ordered(flight')
      /\ OverIn(flight') => OverIn(flight) \/ OverIn(queue)
      /\ ActiveIn(flight') => ActiveIn(flight) \/ ActiveIn(queue)
      /\ Ordered(queue) /\ Behind(flight, queue) => Behind(flight', queue')
  <2>1. queue # <<>> /\ queue[1] \in Statuses /\ flight' = Append(flight, queue[1])
    BY <1>2, <1>5
  <2>2. Thinner(queue', queue) /\ DOMAIN queue' = 1 .. Len(queue) - 1
        /\ \A k \in 1 .. Len(queue) - 1 : queue'[k] = queue[k + 1]
    BY <1>6, <1>7
  <2> QED
    BY <1>4, <2>1, <2>2, PassedOn
<1>9. Told' = Told /\ Saves' = Saves
  BY <1>2 DEF Told, Saves
<1> HIDE DEF Saves, Told
<1> QED
  BY <1>2, <1>3, <1>7, <1>8, <1>9
     DEF WayOrdered, NothingOver, Behind, Thinner, OverIn, ActiveIn, Ordered

LEMMA PublishOrder ==
    ASSUME RInv, InOrder, NEW i, Publish(i)
    PROVE  InOrder'
<1>1. SUFFICES ASSUME turn' # "again", ~overtaken'
               PROVE  WayOrdered' /\ (turn' = "first" => NothingOver')
  BY DEF InOrder
<1>2. /\ turn' = turn /\ ~overtaken /\ ~(i > 1) /\ i \in DOMAIN flight
      /\ UNCHANGED <<saved, queue>>
      /\ last' = flight[i] /\ flight' = RemoveAt(flight, i)
  BY <1>1 DEF Publish
<1>3. WayOrdered /\ (turn = "first" => NothingOver)
  BY <1>1, <1>2 DEF InOrder
<1>4. flight \in Seq(Statuses) /\ Len(flight) \in Nat /\ DOMAIN flight = 1 .. Len(flight)
  BY LenProperties DEF RInv, ReportsOK
<1>5. i = 1 /\ i \in 1 .. Len(flight)
  BY <1>2, <1>4
<1>6. Thinner(flight', flight)
  BY <1>2, <1>4, ThinnerRemoved
<1>7. /\ DOMAIN flight' = 1 .. Len(flight) - 1
      /\ \A k \in 1 .. Len(flight) - 1 : flight'[k] = flight[k + 1]
  <2>1. /\ DOMAIN flight' = 1 .. Len(flight) - 1
        /\ \A k \in 1 .. Len(flight) - 1 :
              flight'[k] = flight[IF k < 1 THEN k ELSE k + 1]
    BY <1>2, <1>4, <1>5, RemovalAt
  <2> QED
    BY <1>4, <2>1
<1>8. Saves' = Saves /\ Told' = [j \in {1} |-> flight[i]]
  BY <1>2 DEF Told, Saves
<1>9. /\ OverIn(Told') => flight[i] \in Terminal
      /\ flight[i] \in Terminal => OverIn(flight)
  BY <1>2, <1>8 DEF OverIn
<1>10. OverIn(Told') => ~ActiveIn(flight')
  <2>1. \A k \in 1 .. Len(flight) - 1 : k + 1 \in 1 .. Len(flight) /\ i < k + 1
    BY <1>4, <1>5
  <2> QED
    BY <1>3, <1>4, <1>5, <1>7, <1>9, <2>1 DEF WayOrdered, Ordered, ActiveIn
<1>11. /\ OverIn(Told)' = OverIn(Told')
       /\ OverIn(flight)' = OverIn(flight') /\ ActiveIn(flight)' = ActiveIn(flight')
       /\ Ordered(flight)' = Ordered(flight')
       /\ OverIn(Saves)' = OverIn(Saves) /\ ActiveIn(Saves)' = ActiveIn(Saves)
       /\ Ordered(Saves)' = Ordered(Saves)
       /\ OverIn(queue)' = OverIn(queue) /\ ActiveIn(queue)' = ActiveIn(queue)
       /\ Ordered(queue)' = Ordered(queue)
  BY <1>2, <1>8 DEF OverIn, ActiveIn, Ordered
<1> HIDE DEF Saves, Told
<1> QED
  BY <1>2, <1>3, <1>6, <1>9, <1>10, <1>11 DEF WayOrdered, NothingOver, Behind, Thinner

LEMMA LostOrder ==
    ASSUME RInv, InOrder,
           \/ \E i \in 1 .. Cardinality(Procs) : ReportingDies(i)
           \/ \E i \in 1 .. Conc : PublishFails(i)
           \/ CeleryDies
    PROVE  InOrder'
<1>1. UNCHANGED <<turn, overtaken, last, queue>>
  BY DEF ReportingDies, PublishFails, CeleryDies, history
<1>2. flight \in Seq(Statuses) /\ ReportsOK
  BY DEF RInv, ReportsOK
<1>3. ASSUME NEW i, ReportingDies(i)
      PROVE  InOrder'
  <2>1. Thinner(Saves', Saves) /\ flight' = flight
    BY <1>2, <1>3, ThinnerSaves DEF ReportingDies
  <2> QED
    BY <1>1, <2>1, ThinnerSelf, FewerOrder
<1>4. CASE (\E i \in 1 .. Conc : PublishFails(i)) \/ CeleryDies
  <2>1. Saves' = Saves
    BY <1>4 DEF PublishFails, CeleryDies, Saves
  <2>2. Thinner(flight', flight)
    BY <1>2, <1>4, ThinnerRemoved, ThinnerEmpty DEF PublishFails, CeleryDies
  <2> QED
    BY <1>1, <2>1, <2>2, ThinnerSelf, FewerOrder
<1> QED
  BY <1>3, <1>4

\* The job ends, PAI is told so, and no RUNNING or STARTING saved before it can
\* still be on its way behind: PAI hears that a job that was over is active
\* only when it has become active again, or when one report overtook another.
\* (update_status of every handler, the celery queue, report_avesjob_status.)
THEOREM NoFalseRevivalCorrect == RSpec => NoFalseRevival
<1>1. RInit => InOrder
  BY DEF RInit, InOrder, WayOrdered, NothingOver, Ordered, Behind, OverIn, ActiveIn,
         Told, Saves, Terminal, Absent
<1>2. RInv /\ InOrder /\ [RNext]_rvars => InOrder'
  <2> SUFFICES ASSUME RInv, InOrder, [RNext]_rvars
               PROVE  InOrder'
    OBVIOUS
  <2>1. turn \in Turned
    BY DEF RInv, ReportsOK, Turned
  <2>2. CASE UNCHANGED rvars
    BY <2>1, <2>2, SameOrder DEF rvars, history
  <2>3. ASSUME NEW p \in Procs, ReportingStep(p)
        PROVE  InOrder'
    <3>1. CASE Tells(p)
      BY <2>3, <3>1, TellsOrder
    <3>2. CASE ~Tells(p)
      BY <2>1, <2>3, <3>2, SameOrder DEF ReportingStep, reports
    <3> QED
      BY <3>1, <3>2
  <2>4. CASE OtherStep
    BY <2>1, <2>4, SameOrder DEF OtherStep
  <2> QED
    BY <2>2, <2>3, <2>4, QueueOrder, TakeOrder, PublishOrder, LostOrder DEF RNext
<1>3. RInv /\ InOrder /\ [RNext]_rvars => [RevivalTold => turn = "again" \/ overtaken]_rvars
  <2> SUFFICES ASSUME RInv, InOrder, RNext, RevivalTold, turn # "again", ~overtaken
               PROVE  FALSE
    OBVIOUS
  <2>1. last' # last /\ last \in Terminal /\ last' \in Active
    BY DEF RevivalTold, Terminal, Active
  <2>2. PICK i : Publish(i)
    BY <2>1 DEF RNext, ReportingStep, OtherStep, QueueReport, ReportingDies, TakeReport,
                PublishFails, CeleryDies, reports
  <2>3. OverIn(Told) /\ ActiveIn(flight)
    BY <2>1, <2>2 DEF Publish, OverIn, ActiveIn, Told
  <2> QED
    BY <2>3 DEF InOrder, WayOrdered, Behind
<1> QED
  BY <1>1, <1>2, <1>3, InitReports, NextReports, PTL DEF RSpec, NoFalseRevival

-----------------------------------------------------------------------------
(* Every variable of the reports keeps its type (tasks.py:109, update_status): *)
(* the queue and what is being published hold reports of statuses a row can    *)
(* have, and a handler that has saved and not queued yet is one that told.      *)
THEOREM ReportsTyped == RSpec => []ReportsOK
<1>1. ReportsOK /\ NewestIsTrue => ReportsOK
  OBVIOUS
<1> QED
  BY <1>1, NewestCorrect, PTL
=============================================================================
