----------------------------- MODULE JobReport -----------------------------
(***************************************************************************)
(* The report of one job: made when the last task of the job is final or   *)
(* on demand, revised by editors and by the AI worker, delivered by hand   *)
(* or automatically (core/sdk.py, core/ai_reports.py,                      *)
(* core/report_versions.py, the report routes and the mailer's thread of   *)
(* modules/Infrastructure/routes.py).                                      *)
(*                                                                         *)
(* A handler runs to its end in one step but for the calls to SMTP, to     *)
(* Confluence and to the model, at which other handlers get their turn.    *)
(* The text of a body is abstracted to how it was made and to the results  *)
(* it was made from.                                                       *)
(***************************************************************************)
EXTENDS Integers, Sequences, FiniteSets, SequencesExt

CONSTANTS
  Host,           \* the tasks of the job: one for a target, two for an agent's update
  Part,           \* numbers of split reports
  Channel,        \* what the job's reports are delivered to by themselves
  WithAi,         \* the job was launched with an AI report
  MaxGenerations, \* how often reports are generated
  MaxEdits,       \* interventions of operators and deletions of rows
  MaxDeaths       \* deaths of the server

ASSUME HostAssumption == Host # {}
ASSUME PartAssumption == Part \subseteq Nat \ {0}
ASSUME FinitePartAssumption == IsFiniteSet(Part)
ASSUME ChannelAssumption == Channel \subseteq {"email", "confluence"}
ASSUME BoundsAssumption ==
  MaxGenerations \in Nat /\ MaxEdits \in Nat /\ MaxDeaths \in Nat

Whole == 0                  \* the report whose id is the id of the job
Report == Part \cup {Whole}
NoReport == -1
None == "none"

VARIABLES
  task,      \* AgentTask.status; "gone" when the row was deleted
  orphan,    \* tasks whose endpoint was deleted
  status,    \* AggregatedJob.status
  revisions, \* ReportRevision rows; the last one is the body of the report
  request,   \* AiReportRequest rows in the order of created_at
  worker,    \* the AI request that the worker waits for the answer of, and what it read
  mailer,    \* what the mailer's thread delivers
  sending,   \* reports that an operator mails or publishes
  deaths,
  edits,
  \* history
  generated, \* generated[r]: how often r was generated
  claimed,   \* claimed[r]: how often r was taken for automatic delivery
  mailed,    \* bodies that were delivered automatically, with their reports
  early,     \* a report was finalized while tasks stayed open
  dropped,   \* rows were deleted, or the server died between a result and the report
  silent     \* the last open task was ended by a poll, which does not complete the job

rows == <<task, orphan, status, revisions, request>>
activity == <<worker, mailer, sending>>
history == <<generated, claimed, mailed, early, dropped, silent>>
bounds == <<deaths, edits>>
vars == <<rows, activity, bounds, history>>

Open == "Open"              \* Pending, PickedUp or Running
Final == {"Success", "Error", "Cancelled"}
Known == [Host -> Final \cup {None}]
Body == [kind : {"generated", "ai_generated", "edited"}, results : Known]
Idle == [report |-> NoReport, channel |-> None, failed |-> FALSE]
Resting == [request |-> 0, report |-> NoReport, results |-> None]

TypeOK ==
  /\ task \in [Host -> Final \cup {Open, "gone"}]
  /\ orphan \subseteq Host
  /\ status \in [Report -> {None, "Waiting Review", "Delivering", "Sending", "Delivered",
                            "Error", "Dismissed", "Superseded"}]
  /\ revisions \in [Report -> Seq(Body)]
  /\ request \in Seq([report : Report \cup {NoReport},
                      status : {"WaitingForTasks", "Queued", "Running", "Success", "Error", "gone"}])
  /\ Len(request) <= MaxEdits + 1
  /\ worker \in [request : 1..Len(request), report : Report, results : Known] \cup {Resting}
  /\ mailer \in [report : Report, channel : Channel, failed : BOOLEAN] \cup {Idle}
  /\ sending \subseteq Report
  /\ deaths \in 0..MaxDeaths /\ edits \in 0..MaxEdits
  /\ generated \in [Report -> 0..MaxGenerations]
  /\ claimed \in [Report -> Nat]
  /\ mailed \subseteq Report \X Body
  /\ early \in BOOLEAN /\ dropped \in BOOLEAN /\ silent \in BOOLEAN

\* dispatch_task: one task for each target, and the AI request waits for them.
Init ==
  /\ task = [h \in Host |-> Open] /\ orphan = {}
  /\ status = [r \in Report |-> None]
  /\ revisions = [r \in Report |-> <<>>]
  /\ request = IF WithAi THEN <<[report |-> NoReport, status |-> "WaitingForTasks"]>> ELSE <<>>
  /\ worker = Resting /\ mailer = Idle /\ sending = {}
  /\ deaths = 0 /\ edits = 0
  /\ generated = [r \in Report |-> 0] /\ claimed = [r \in Report |-> 0]
  /\ mailed = {} /\ early = FALSE /\ dropped = FALSE /\ silent = FALSE

Exists(r) == status[r] # None
Existing == {r \in Report : Exists(r)}

Edit == edits < MaxEdits /\ edits' = edits + 1

\* The number of the last generation, which is the bound on them.
Generation == Cardinality({p \in Report \X (1..MaxGenerations) : p[2] <= generated[p[1]]})

-----------------------------------------------------------------------------
(* Revisions.                                                              *)

\* create_report_revision: the new body becomes the current one; a body equal to the
\* current one makes no revision, except for the AI worker.
Revised(list, body, allowSame) ==
  IF list # <<>> /\ Last(list) = body /\ ~allowSame THEN list ELSE Append(list, body)

-----------------------------------------------------------------------------
(* Generation: process_job_completion.                                     *)

\* The endpoint results that a report is made from.
Results(tasks, included) ==
  [h \in Host |-> IF tasks[h] \in included THEN tasks[h] ELSE None]

\* A template may split its text into parts, numbered from 1; otherwise there is one
\* report with the id of the job.
Layouts == {{Whole}} \cup {{p \in Part : p <= n} : n \in Part}

\* mark_ai_requests_ready; the request is about the whole report or the first part.
ReadyRequests(reports) ==
  LET parent == CHOOSE r \in reports : \A x \in reports : r <= x
  IN [i \in DOMAIN request |->
        IF request[i].status = "WaitingForTasks"
        THEN [report |-> parent, status |-> "Queued"] ELSE request[i]]

\* Reports are made in the layout of the template; reports of an earlier layout are
\* superseded; statuses go back to Waiting Review.
Generate(tasks, included) ==
  \E layout \in Layouts :
    LET body == [kind |-> "generated", results |-> Results(tasks, included)]
    IN /\ Generation + Cardinality(layout) <= MaxGenerations
       /\ status' = [r \in Report |->
            IF r \in layout THEN "Waiting Review"
            ELSE IF Exists(r) THEN "Superseded" ELSE None]
       /\ revisions' = [r \in Report |->
            IF r \in layout THEN Revised(revisions[r], body, FALSE) ELSE revisions[r]]
       /\ request' = ReadyRequests(layout)
       /\ generated' = [r \in Report |-> generated[r] + IF r \in layout THEN 1 ELSE 0]

\* Without force, reports that exist stay as they are.
Complete(tasks, included, force) ==
  IF Existing # {} /\ ~force
  THEN /\ request' = ReadyRequests(Existing)
       /\ UNCHANGED <<status, revisions, generated>>
  ELSE IF \E h \in Host : tasks[h] \in included
  THEN Generate(tasks, included)
  ELSE UNCHANGED <<status, revisions, request, generated>>

NoneOpen(tasks) == \A h \in Host : tasks[h] # Open

\* Mutant of CompleteIfDone: the report does not wait for the other tasks.
CompleteAtOnce(tasks, force) == Complete(tasks, Final, force)

\* Mutant of CompleteIfDone: a job of which all tasks were cancelled is left alone.
CompleteIfRun(tasks, force) ==
  IF NoneOpen(tasks) THEN Complete(tasks, {"Success", "Error"}, force)
  ELSE UNCHANGED <<status, revisions, request, generated>>

\* The tasks are all final: the report of the job is made.
CompleteIfDone(tasks, force) ==
  IF NoneOpen(tasks) THEN Complete(tasks, Final, force)
  ELSE UNCHANGED <<status, revisions, request, generated>>

-----------------------------------------------------------------------------
(* Tasks of the job.                                                       *)

\* agent_result.  A result for a cancelled task completes the job too; one for a final
\* task is answered and changes nothing.
Result(h) ==
  /\ task[h] \in {Open, "Cancelled"} /\ h \notin orphan
  /\ \E outcome \in {"Success", "Error", "Cancelled"} :
       /\ task[h] = "Cancelled" => outcome = "Cancelled"
       /\ task' = [task EXCEPT ![h] = outcome]
  /\ CompleteIfDone(task', FALSE)
  /\ UNCHANGED <<orphan, activity, bounds, claimed, mailed, early, dropped, silent>>

\* agent_poll: an update of which the preparation failed is not handed out and ends in
\* error, and nothing completes the job.
PollRejects(h) ==
  /\ task[h] = Open /\ h \notin orphan
  /\ \E preparation \in Host \ {h} : task[preparation] \in {"Error", "Cancelled", "gone"}
  /\ task' = [task EXCEPT ![h] = "Error"]
  /\ silent' = (silent \/ NoneOpen(task'))
  /\ UNCHANGED <<orphan, status, revisions, request, activity, bounds,
                 generated, claimed, mailed, early, dropped>>

\* The tasks of the job that an operator may act on, given his host groups.
InScope(allowed) == {h \in allowed : task[h] = Open /\ h \notin orphan}

Cancelled(hosts) == [h \in Host |-> IF h \in hosts THEN "Cancelled" ELSE task[h]]

\* cancel_pending_job.
CancelPending(allowed) ==
  /\ Edit
  /\ \E h \in Host : task[h] # "gone"
  /\ task' = Cancelled(InScope(allowed))
  /\ CompleteIfDone(task', TRUE)
  /\ UNCHANGED <<orphan, activity, deaths, claimed, mailed, early, dropped, silent>>

\* finalize_job_report: the report is made now from what is there, without the tasks
\* that are open or were cancelled.
FinalizeReport(allowed) ==
  /\ Edit
  /\ \E h \in Host : task[h] \in {"Success", "Error"}
  /\ task' = Cancelled(InScope(allowed))
  /\ Complete(task', {"Success", "Error"}, TRUE)
  /\ early' = (early \/ ~NoneOpen(task'))
  /\ UNCHANGED <<orphan, activity, deaths, claimed, mailed, dropped, silent>>

\* scheduled_cleanup: picked-up tasks that are too old and tasks past their deadline.
TimeOut(late) ==
  /\ late # {} /\ \A h \in late : task[h] = Open
  /\ task' = [h \in Host |-> IF h \in late THEN "Error" ELSE task[h]]
  /\ CompleteIfDone(task', TRUE)
  /\ UNCHANGED <<orphan, activity, bounds, claimed, mailed, early, dropped, silent>>

\* host_operations, DELETE: the task stays and has no endpoint any more.
DeleteHost(h) ==
  /\ Edit
  /\ h \notin orphan
  /\ orphan' = orphan \cup {h}
  /\ UNCHANGED <<task, status, revisions, request, activity, deaths, history>>

\* delete_job; cleanup_tasks and the retention job do the same to old tasks.
DeleteJob ==
  /\ Edit
  /\ \E h \in Host : task[h] # "gone"
  /\ task' = [h \in Host |-> "gone"]
  /\ dropped' = TRUE
  /\ UNCHANGED <<orphan, status, revisions, request, activity, deaths,
                 generated, claimed, mailed, early, silent>>

-----------------------------------------------------------------------------
(* Operators and a report.                                                 *)

SetStatus(r, s) ==
  /\ status' = [status EXCEPT ![r] = s]
  /\ UNCHANGED <<task, orphan, revisions, request, deaths, history>>

\* action_report, save.
Save(r) ==
  /\ Edit
  /\ Exists(r)
  /\ revisions' = [revisions EXCEPT ![r] =
       Revised(@, [kind |-> "edited", results |-> Last(@).results], FALSE)]
  /\ UNCHANGED <<task, orphan, status, request, activity, deaths, history>>

\* action_report, dismiss.
Dismiss(r) == Edit /\ Exists(r) /\ SetStatus(r, "Dismissed") /\ UNCHANGED activity

\* record_report_delivery and finish_report_delivery.
Recorded(r) == r \notin sending /\ sending' = sending \cup {r}
Concluded(r) == r \in sending /\ sending' = sending \ {r}

\* action_report, send: the delivery is recorded, and the mail is on its way.
SendBegins(r) ==
  /\ Edit
  /\ Exists(r) /\ Recorded(r)
  /\ SetStatus(r, "Sending")
  /\ UNCHANGED <<worker, mailer>>

\* publish_report_confluence: as before, and the status stays.
PublishBegins(r) ==
  /\ Edit
  /\ Exists(r) /\ Recorded(r)
  /\ UNCHANGED <<rows, worker, mailer, deaths, history>>

\* The mail or the page is out, or failed; a page that failed leaves the status.
SendEnds(r) ==
  /\ Concluded(r)
  /\ \E s \in {"Delivered", "Error", status[r]} :
       SetStatus(r, IF Exists(r) THEN s ELSE None)
  /\ UNCHANGED <<worker, mailer, edits>>

\* The rows of a report go, also those of deliveries that are under way, which ends them
\* for the mailer.
Removed(r) ==
  /\ status' = [status EXCEPT ![r] = None]
  /\ revisions' = [revisions EXCEPT ![r] = <<>>]
  /\ mailer' = IF mailer.report = r THEN Idle ELSE mailer
  /\ dropped' = TRUE
  /\ UNCHANGED <<task, orphan, sending, deaths, generated, claimed, mailed, early, silent>>

\* delete_report: AI requests lose their report (ON DELETE SET NULL).
DeleteReport(r) ==
  /\ Edit
  /\ Exists(r)
  /\ Removed(r)
  /\ request' = [i \in DOMAIN request |->
       IF request[i].report = r THEN [request[i] EXCEPT !.report = NoReport] ELSE request[i]]
  /\ UNCHANGED worker

\* _run_history_retention removes the requests of an old report with it.
Expire(r) ==
  /\ Edit
  /\ Exists(r)
  /\ Removed(r)
  /\ request' = [i \in DOMAIN request |->
       IF request[i].report = r THEN [request[i] EXCEPT !.status = "gone"] ELSE request[i]]
  /\ UNCHANGED worker

-----------------------------------------------------------------------------
(* The AI worker.                                                          *)

\* regenerate_report_with_ai.
RequestAi(r) ==
  /\ Edit
  /\ Exists(r)
  /\ request' = Append(request, [report |-> r, status |-> "Queued"])
  /\ UNCHANGED <<task, orphan, status, revisions, activity, deaths, history>>

\* The report that a request is about: its own, or the whole one when it lost it.
Subject(i) == IF request[i].report = NoReport THEN Whole ELSE request[i].report

\* build_ai_input: the model is given the body of the report and what the tasks say now.
Input(r) ==
  [h \in Host |-> IF task[h] \in Final THEN task[h] ELSE Last(revisions[r]).results[h]]

\* Mutant of Stale: the requests of a dead worker stay with it.
NothingStale == {}

\* Requests that the worker of an earlier process held.
Stale == {i \in DOMAIN request : request[i].status = "Running"}

\* _claim_next_request: requests that are held for too long are queued again, and the
\* oldest queued one is taken; it fails at once without a report or a provider.
AiClaims ==
  /\ worker = Resting
  /\ \E stale \in SUBSET Stale :
       LET queued == stale \cup {i \in DOMAIN request : request[i].status = "Queued"}
           requeued == [i \in DOMAIN request |->
             IF i \in stale THEN [request[i] EXCEPT !.status = "Queued"] ELSE request[i]]
       IN /\ queued # {}
          /\ LET first == CHOOSE i \in queued : \A j \in queued : i <= j
             IN \/ /\ Exists(Subject(first))
                   /\ request' = [requeued EXCEPT ![first].status = "Running"]
                   /\ worker' = [request |-> first, report |-> Subject(first),
                                  results |-> Input(Subject(first))]
                \/ /\ request' = [requeued EXCEPT ![first].status = "Error"]
                   /\ UNCHANGED worker
  /\ UNCHANGED <<task, orphan, status, revisions, mailer, sending, bounds, history>>

\* The request of the worker ends so, unless its row is gone.
Settled(outcome) ==
  [request EXCEPT ![worker.request].status = IF @ = "gone" THEN @ ELSE outcome]

\* The model answered: the report, if it and the request are still there, gets a revision
\* of what the worker read, whatever was made of the report meanwhile.
AiAnswers ==
  /\ worker # Resting
  /\ IF Exists(worker.report) /\ request[worker.request].status # "gone"
     THEN /\ revisions' = [revisions EXCEPT ![worker.report] =
               Revised(@, [kind |-> "ai_generated", results |-> worker.results], TRUE)]
          /\ request' = Settled("Success")
     ELSE /\ request' = Settled("Error")
          /\ UNCHANGED revisions
  /\ worker' = Resting
  /\ UNCHANGED <<task, orphan, status, mailer, sending, bounds, history>>

AiFails ==
  /\ worker # Resting
  /\ request' = Settled("Error")
  /\ worker' = Resting
  /\ UNCHANGED <<task, orphan, status, revisions, mailer, sending, bounds, history>>

-----------------------------------------------------------------------------
(* The mailer's thread: auto_email_checker_thread.                         *)

\* The last of the requests whose rows are there.
Latest(i) ==
  /\ request[i].status # "gone"
  /\ \A j \in DOMAIN request : j > i => request[j].status = "gone"

\* Mutant of Held: a report is held only as long as the worker is busy with it.
HeldWhileBusy ==
  \E i \in DOMAIN request : Latest(i) /\ request[i].status \in {"Queued", "Running"}

\* latest_ai_request: automatic delivery waits for the last request of the job to succeed.
Held == \E i \in DOMAIN request : Latest(i) /\ request[i].status # "Success"

Mail(r, channel) ==
  mailed' = IF channel = None THEN mailed ELSE mailed \cup {<<r, Last(revisions[r])>>}

\* Mutant of Taken: the report is left as it is while it is delivered.
TakenLater(r) == status

\* The report is marked before its first channel is served.
Taken(r) == [status EXCEPT ![r] = "Delivering"]

\* A report that waits for review is taken and mailed, or published if that is all.  The
\* task of the job tells what to do; without one there is nothing to do.
MailerClaims(r) ==
  /\ mailer = Idle /\ Channel # {}
  /\ status[r] = "Waiting Review" /\ ~Held
  /\ \E h \in Host : task[h] # "gone"
  /\ status' = Taken(r)
  /\ LET channel == IF "email" \in Channel THEN "email" ELSE "confluence"
     IN /\ mailer' = [report |-> r, channel |-> channel, failed |-> FALSE]
        /\ Mail(r, channel)
  /\ claimed' = [claimed EXCEPT ![r] = @ + 1]
  /\ UNCHANGED <<task, orphan, revisions, request, worker, sending, bounds, generated, early, dropped, silent>>

\* A channel is served.  Confluence comes after email, with the body as it is then; the
\* last one sets the status of the report (update_report_delivery_status).
MailerServed ==
  /\ mailer # Idle
  /\ \E failed \in BOOLEAN :
       LET r == mailer.report
           bad == mailer.failed \/ failed
       IN IF mailer.channel = "email" /\ "confluence" \in Channel
          THEN /\ mailer' = [report |-> r, channel |-> "confluence", failed |-> bad]
               /\ Mail(r, "confluence")
               /\ UNCHANGED status
          ELSE /\ mailer' = Idle
               /\ status' = [status EXCEPT ![r] = IF bad THEN "Error" ELSE "Delivered"]
               /\ UNCHANGED mailed
  /\ UNCHANGED <<task, orphan, revisions, request, worker, sending, bounds,
                 generated, claimed, early, dropped, silent>>

-----------------------------------------------------------------------------
(* Death of the server.                                                    *)

Dies == deaths < MaxDeaths /\ deaths' = deaths + 1 /\ UNCHANGED edits

\* What was under way is forgotten; the rows say what they said.
Restart ==
  /\ Dies
  /\ worker' = Resting /\ mailer' = Idle /\ sending' = {}
  /\ UNCHANGED <<rows, history>>

\* The server dies after it has stored a result and before it completes the job.
ResultCut(h) ==
  /\ Dies
  /\ task[h] = Open /\ h \notin orphan
  /\ \E outcome \in {"Success", "Error"} : task' = [task EXCEPT ![h] = outcome]
  /\ worker' = Resting /\ mailer' = Idle /\ sending' = {}
  /\ dropped' = TRUE
  /\ UNCHANGED <<orphan, status, revisions, request, generated, claimed, mailed, early, silent>>

Operator ==
  \/ \E allowed \in SUBSET Host : CancelPending(allowed) \/ FinalizeReport(allowed)
  \/ \E h \in Host : DeleteHost(h)
  \/ DeleteJob
  \/ \E r \in Report : \/ Save(r) \/ Dismiss(r) \/ SendBegins(r) \/ PublishBegins(r)
                       \/ DeleteReport(r) \/ RequestAi(r)

AiWorker == AiClaims \/ AiAnswers \/ AiFails
Mailer == MailerServed \/ \E r \in Report : MailerClaims(r)

Next ==
  \/ \E h \in Host : Result(h) \/ ResultCut(h) \/ PollRejects(h)
  \/ \E late \in SUBSET Host : TimeOut(late)
  \/ Operator \/ AiWorker \/ Mailer \/ Restart
  \/ \E r \in Report : SendEnds(r) \/ Expire(r)

Spec == Init /\ [][Next]_vars

\* The scheduler runs the AI job again and again, and a call to the model has a timeout.
FairSpec == Spec /\ WF_vars(AiWorker)

-----------------------------------------------------------------------------
(* Properties.                                                             *)

\* A job of which every task is final has a report, whether an agent's result, an
\* operator's cancellation or the timeout made the last one final and in whatever order, as
\* long as no row was deleted and the server did not die in between.  A poll that ends the
\* last task is the exception: after it the job has no report until something else
\* completes it.
FinishedIsReported ==
  ~dropped /\ ~silent /\ NoneOpen(task) => Existing # {}

\* A report that is not superseded says what each endpoint's task ended with, also after
\* it was edited, rewritten by the model or made again; the exception is a report that
\* was finalized by an operator who could not cancel all open tasks.
ReportIsWhole ==
  ~early /\ ~dropped =>
    \A r \in Existing, h \in Host :
      status[r] # "Superseded" /\ task[h] \in {"Success", "Error"} =>
        Last(revisions[r]).results[h] = task[h]

\* A report is taken for automatic delivery at most once for each time it was generated:
\* neither the mailer's rounds, nor restarts, nor operators who edit, send or dismiss it
\* make it go out by itself once more.
AutoOncePerGeneration == \A r \in Report : claimed[r] <= generated[r]

\* The text that a job with an AI report gets without the model is not mailed by itself in
\* place of the model's, unless it was generated a second time or the model was asked
\* about another report of the job.
NoFallbackMailed ==
  WithAi /\ ~dropped =>
    \A r \in Report, i \in DOMAIN request :
      /\ request[i].report = r
      /\ generated[r] = 1
      /\ \A j \in DOMAIN request : request[j].report = r
      => \A m \in mailed : m[1] = r => m[2].kind # "generated"

InStatus(i, statuses) == i \in DOMAIN request /\ request[i].status \in statuses

\* A request for an AI report is settled, also when the server dies while the model works
\* on it.
RequestsSettle ==
  \A i \in 1..(MaxEdits + 1) :
    InStatus(i, {"Queued", "Running"}) ~> InStatus(i, {"Success", "Error", "gone"})
=============================================================================
