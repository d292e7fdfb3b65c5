---------------------------- MODULE StatusReports ----------------------------
(***************************************************************************)
(* What the PAI platform is told of a job (need_report).  update_status    *)
(* saves the row and then queues a task that publishes the status to       *)
(* RabbitMQ.  A report so passes three places: the handler, between save() *)
(* and apply_async; the celery queue; the celery worker, which publishes   *)
(* several reports at a time, in any order.  Only the queue keeps order.   *)
(***************************************************************************)
EXTENDS AvesK8s, Sequences, SequencesExt

CONSTANT Conc   \* how many reports celery publishes at a time

ASSUME ReportsAssumption == Conc \in Nat \ {0}

VARIABLES saved,      \* reports whose status is saved, still to be queued
          queue,      \* statuses in the celery queue
          flight,     \* statuses being published
          last,       \* what PAI was told last
          overtaken,  \* history: a report overtook an older one
          turn        \* history: "first" life of the job, "over", or active "again"

reports == <<saved, queue, flight, last>>
history == <<overtaken, turn>>
rvars == <<vars, reports, history>>

ReportsOK ==
    /\ saved \in Seq([proc : Procs, st : Statuses, req : Requests \union {NoReq}])
    /\ queue \in Seq(Statuses)
    /\ flight \in Seq(Statuses) /\ Len(flight) <= Conc
    /\ last \in Statuses \union {Absent}
    /\ overtaken \in BOOLEAN /\ turn \in {"first", "over", "again"}

RInit ==
    /\ Init
    /\ saved = <<>> /\ queue = <<>> /\ flight = <<>>
    /\ last = Absent
    /\ overtaken = FALSE /\ turn = "first"

\* A job that has been over stays so until it is active again, whatever edits
\* or a destroy make of its row meanwhile.
Turns ==
    turn' = IF turn = "first" /\ job' \in Terminal THEN "over"
            ELSE IF turn = "over" /\ job' \in Active THEN "again"
            ELSE turn

-----------------------------------------------------------------------------
(* update_status: save, then queue, then go on.                            *)

Unsaid(p) == \E i \in DOMAIN saved : saved[i].proc = p

\* Variant: a cancel that is not reported.
TellsButCancel(p) ==
    \/ task[p].pc = "write" /\ task[p].op \notin {"edit", "cancel"}
    \/ At(p, "start", "mark") \/ At(p, "start", "fail")

\* The steps that are an update_status; a PATCH saves without it.
Tells(p) ==
    \/ task[p].pc = "write" /\ task[p].op # "edit"
    \/ At(p, "start", "mark") \/ At(p, "start", "fail")

\* Variant: what is told is what the handler was asked for, and a start is
\* asked for no status.
ReportingStepAsAsked(p) ==
    /\ ~Unsaid(p)
    /\ HandlerStep(p)
    /\ saved' = IF Tells(p)
                THEN Append(saved, [proc |-> p, st |-> task[p].out, req |-> task[p].req])
                ELSE saved
    /\ Turns
    /\ UNCHANGED <<queue, flight, last, overtaken>>

ReportingStep(p) ==
    /\ ~Unsaid(p)
    /\ HandlerStep(p)
    /\ saved' = IF Tells(p)
                THEN Append(saved, [proc |-> p, st |-> job', req |-> task[p].req])
                ELSE saved
    /\ Turns
    /\ UNCHANGED <<queue, flight, last, overtaken>>

\* The request of a handler that is about to queue is not answered yet.
Unanswered(n) ==
    \E i \in DOMAIN saved :
        saved[i].req # NoReq /\ saved[i].req.row = pod[n].row

\* Everybody else, while such a handler stays where it is.
OtherStep ==
    /\ \/ UserStep \/ TakeMessage
       \/ \E m \in Requests : TakeRequest(m)
       \/ \E e \in Events : TakeEvent(e)
       \/ \E n \in Names : ScriptStep(n) \/ TrainStep(n) \/ KubeletStep(n)
       \/ Fault
    /\ \A p \in Procs : Unsaid(p) => task'[p] = task[p]
    /\ \A n \in Names : Unanswered(n) => \/ script'[n] = script[n]
                                         \/ pod'[n].phase = "failed"
    /\ Turns
    /\ UNCHANGED <<reports, overtaken>>

\* apply_async.
QueueReport(i) ==
    /\ i \in DOMAIN saved
    /\ queue' = Append(queue, saved[i].st)
    /\ saved' = RemoveAt(saved, i)
    /\ overtaken' = (overtaken \/ i > 1)
    /\ UNCHANGED <<vars, flight, last, turn>>

\* The broker is away and apply_async raises, or the process dies: nothing
\* that follows update_status is done.
ReportingDies(i) ==
    /\ i \in DOMAIN saved
    /\ \E k \in {"lose", "crash"} : Spend(k)
    /\ End(saved[i].proc)
    /\ saved' = RemoveAt(saved, i)
    /\ UNCHANGED <<store, cluster, script, queue, flight, last, history>>

-----------------------------------------------------------------------------
(* report_avesjob_status.                                                  *)

\* Celery takes the next of the queue and acknowledges it.
TakeReport ==
    /\ queue # <<>> /\ Len(flight) < Conc
    /\ flight' = Append(flight, Head(queue))
    /\ queue' = Tail(queue)
    /\ UNCHANGED <<vars, saved, last, history>>

Publish(i) ==
    /\ i \in DOMAIN flight
    /\ last' = flight[i]
    /\ flight' = RemoveAt(flight, i)
    /\ overtaken' = (overtaken \/ i > 1)
    /\ UNCHANGED <<vars, saved, queue, turn>>

\* Variant: a report that could not be sent is queued again, behind those that
\* were saved after it.
PublishRetried(i) ==
    /\ i \in DOMAIN flight /\ Spend("lose")
    /\ flight' = RemoveAt(flight, i)
    /\ queue' = Append(queue, flight[i])
    /\ UNCHANGED <<store, cluster, web, script, saved, last, history>>

\* RabbitMQ cannot be reached: the error is logged, and nothing tries again.
PublishFails(i) ==
    /\ i \in DOMAIN flight /\ Spend("lose")
    /\ flight' = RemoveAt(flight, i)
    /\ UNCHANGED <<store, cluster, web, script, saved, queue, last, history>>

CeleryDies ==
    /\ flight # <<>> /\ Spend("crash")
    /\ flight' = <<>>
    /\ UNCHANGED <<store, cluster, web, script, saved, queue, last, history>>

RNext ==
    \/ \E p \in Procs : ReportingStep(p)
    \/ OtherStep
    \/ \E i \in 1 .. Cardinality(Procs) : QueueReport(i) \/ ReportingDies(i)
    \/ TakeReport
    \/ \E i \in 1 .. Conc : Publish(i) \/ PublishFails(i)
    \/ CeleryDies

RSpec == RInit /\ [][RNext]_rvars

\* Handlers get to queue, and celery to publish, what they have begun.
RFairSpec ==
    /\ RSpec
    /\ WF_rvars(\E i \in 1 .. Cardinality(Procs) : QueueReport(i))
    /\ WF_rvars(TakeReport)
    /\ WF_rvars(\E i \in 1 .. Conc : Publish(i))

-----------------------------------------------------------------------------
\* The newest report on its way, or the last one told.
Newest ==
    IF saved # <<>> THEN saved[Len(saved)].st
    ELSE IF queue # <<>> THEN Last(queue)
    ELSE IF flight # <<>> THEN Last(flight)
    ELSE last

\* What may part PAI's view from the row: reports that overtook each other, one
\* that was lost, a process that died, a PATCH, which reports nothing.
Parted == overtaken \/ Spent("lose") \/ Spent("crash") \/ Spent("edit")

\* The newest report is that of the row's status, for every way to change it
\* and whatever handlers save side by side: no status is saved unreported
\* (update_status).
NewestIsTrue == job \notin {"NEW", Absent} /\ ~Parted => Newest = job

\* PAI learns the status of the row, if it stays: start, cancel, requests and
\* events all report it, and it arrives (report_avesjob_status).
PaiLearns ==
    \A s \in Statuses \ {"NEW"} :
        (job = s) ~> (last = s \/ job # s \/ Parted)

\* PAI is not told that a job that is over runs, but when it does again, or
\* reports overtook each other (update_status, report_avesjob_status).
RevivalTold == last \in Terminal /\ last' \in Active
NoFalseRevival == [][RevivalTold => turn = "again" \/ overtaken]_rvars
=============================================================================
