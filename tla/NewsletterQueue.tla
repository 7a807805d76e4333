---------------------------- MODULE NewsletterQueue ----------------------------
(***************************************************************************)
(* One campaign of the newsletter queue (modules/Newsletter/routes.py):    *)
(* its rows in the database, which the web process (enqueue, cancel,       *)
(* retry) and the separate worker process (newsletter_worker.py) share     *)
(* without a lock, and the worker's memory.                                *)
(*                                                                         *)
(* A step of the worker is what it does up to a commit, or up to the SMTP  *)
(* call that the database does not see; a request of the web process is    *)
(* one step.  The worker may die between any two steps; its service starts *)
(* it again.  Campaigns meet only in the worker's queue, which takes them  *)
(* one after the other, so one campaign stands for all.                    *)
(***************************************************************************)
EXTENDS Integers

CONSTANTS
  Delivery,    \* the campaign's recipients
  Addressee,   \* addresses a result report may be requested for
  MaxRetries,  \* bound: "Retry failed" requests
  MaxCrashes,  \* bound: deaths of the worker
  StaleRetry   \* TRUE: a retry may arrive while the campaign is not finished

None == "none"

ASSUME DeliveryAssumption == None \notin Delivery
ASSUME BoundAssumption ==
  MaxRetries \in Nat /\ MaxCrashes \in Nat /\ StaleRetry \in BOOLEAN

VARIABLES
  status,       \* NewsletterCampaign.status, "none" before it is enqueued
  cancel,       \* cancel_requested
  delivery,     \* delivery[d]: NewsletterDelivery.status
  entries,      \* entries[a]: status of a in result_report_json, "none" if absent
  reportStatus, \* result_report_status
  task,         \* Task.status
  pc,           \* where the worker is
  todo,         \* deliveries the worker's loop has still to visit
  cur,          \* the delivery it is sending
  verdict,      \* the final status it is about to write
  draft,        \* its copy of entries while it mails the report
  accepted,     \* history: how often the SMTP server took d's mail
  doubtful,     \* history: deliveries whose mail was taken without the worker
                \* being able to record it
  mailed,       \* history: how often a's report was taken by the SMTP server
  retries, crashes  \* history: counters of the bounds

campaign == <<status, cancel, task>>
report == <<entries, reportStatus>>
memory == <<todo, cur, verdict, draft>>
history == <<accepted, doubtful, mailed, retries, crashes>>
vars == <<campaign, delivery, report, pc, memory, history>>

Finished == {"Completed", "Partial", "Failed", "Cancelled"}
Rows == {"Pending", "Sending", "Sent", "Failed", "Skipped", "Unknown"}
Lines == {"none", "Pending", "Sending", "Sent", "Failed", "Unknown"}

\* The worker has the mail of cur in hand; in the last two of them it was taken.
Taken == {"answer", "reanswer"}
Attempting == {"submit", "reconnect", "resubmit"} \cup Taken

Places == {"down", "idle", "begin", "connect", "next", "finish", "audit",
           "report", "reportConnect", "reporting", "markFailed"} \cup Attempting

TypeOK ==
  /\ status \in {"none", "Queued", "Sending"} \cup Finished
  /\ cancel \in BOOLEAN
  /\ delivery \in [Delivery -> Rows]
  /\ entries \in [Addressee -> Lines]
  /\ reportStatus \in {"NotRequested", "Pending", "Sending", "Completed", "Partial",
                       "Failed", "Unknown"}
  /\ task \in {"none", "Queued", "Running", "Success", "Warning", "Error"}
  /\ pc \in Places
  /\ todo \subseteq Delivery
  /\ cur \in Delivery \cup {None}
  /\ (pc \in Attempting => cur \in Delivery)
  /\ verdict \in Finished \cup {None}
  /\ (pc = "finish" => verdict \in Finished)
  /\ draft \in [Addressee -> Lines]
  /\ accepted \in [Delivery -> Nat]
  /\ doubtful \subseteq Delivery
  /\ mailed \in [Addressee -> Nat]
  /\ retries \in Nat /\ crashes \in Nat

NoLines == [a \in Addressee |-> "none"]

Init ==
  /\ status = "none" /\ cancel = FALSE /\ task = "none"
  /\ delivery = [d \in Delivery |-> "Pending"]
  /\ entries = NoLines /\ reportStatus = "NotRequested"
  /\ pc = "down" /\ todo = {} /\ cur = None /\ verdict = None /\ draft = NoLines
  /\ accepted = [d \in Delivery |-> 0] /\ doubtful = {}
  /\ mailed = [a \in Addressee |-> 0]
  /\ retries = 0 /\ crashes = 0

\* Every status of the lines or rows in f that is in S becomes s.
Become(f, S, s) == [x \in DOMAIN f |-> IF f[x] \in S THEN s ELSE f[x]]

Having(S) == {d \in Delivery : delivery[d] \in S}

-----------------------------------------------------------------------------
(* The web process.                                                        *)

\* enqueue_campaign, by the manual form or an inbound message: the rows of one
\* transaction, with a line for each requested report.
Enqueue ==
  /\ status = "none"
  /\ status' = "Queued" /\ task' = "Queued"
  /\ \E asked \in SUBSET Addressee :
       /\ entries' = [a \in Addressee |-> IF a \in asked THEN "Pending" ELSE "none"]
       /\ reportStatus' = IF asked = {} THEN "NotRequested" ELSE "Pending"
  /\ UNCHANGED <<cancel, delivery, pc, memory, history>>

\* cancel_newsletter_campaign leaves a note for the worker; 409 once finished.
Cancel ==
  /\ status \in {"Queued", "Sending"}
  /\ cancel' = TRUE
  /\ UNCHANGED <<status, task, delivery, report, pc, memory, history>>

\* The deliveries "Retry failed" requeues.
Retryable == {"Failed", "Skipped"}

\* retry_newsletter_campaign does not look at the campaign's status; the page offers
\* it for a finished campaign, a page of yesterday or another client at any time.
Retry ==
  /\ retries < MaxRetries
  /\ status \in Finished \/ (StaleRetry /\ status # "none")
  /\ Having(Retryable) # {}
  /\ delivery' = Become(delivery, Retryable, "Pending")
  /\ status' = "Queued" /\ cancel' = FALSE /\ task' = "Queued"
  /\ entries' = Become(entries, Lines \ {"none"}, "Pending")
  /\ reportStatus' = IF entries = NoLines THEN reportStatus ELSE "Pending"
  /\ retries' = retries + 1
  /\ UNCHANGED <<pc, memory, accepted, doubtful, mailed, crashes>>

-----------------------------------------------------------------------------
(* The worker process: start, death, and taking a campaign.                *)

Forget == todo' = {} /\ cur' = None /\ verdict' = None /\ draft' = NoLines

Crash ==
  /\ pc # "down" /\ crashes < MaxCrashes
  /\ pc' = "down" /\ Forget
  /\ crashes' = crashes + 1
  /\ UNCHANGED <<campaign, delivery, report, accepted, doubtful, mailed, retries>>

\* Mutant of Interrupted: what was being sent is sent again.
InterruptedIsPending == Become(delivery, {"Sending"}, "Pending")

\* The deliveries after a restart: what was being sent may have been taken.
Interrupted == Become(delivery, {"Sending"}, "Unknown")

\* The report's lines likewise.
InterruptedReport == Become(entries, {"Sending"}, "Unknown")

\* Mutant of Recover: a campaign whose report was being mailed is run again.
RecoverAndReportAgain ==
  /\ pc = "down"
  /\ pc' = "idle"
  /\ IF status = "Sending" \/ reportStatus = "Sending"
     THEN delivery' = Interrupted /\ status' = "Queued"
     ELSE UNCHANGED <<delivery, status>>
  /\ entries' = Become(entries, {"Sending"}, "Pending")
  /\ UNCHANGED <<reportStatus, cancel, task, memory, history>>

\* recover_interrupted_campaigns: a campaign or report that was being sent.  The
\* counts and the task row stay as they are.
Recover ==
  /\ pc = "down"
  /\ pc' = "idle"
  /\ IF status = "Sending"
     THEN /\ delivery' = Interrupted
          /\ status' = IF Having({"Pending"}) # {} THEN "Queued" ELSE "Partial"
     ELSE UNCHANGED <<delivery, status>>
  /\ IF reportStatus = "Sending"
     THEN entries' = InterruptedReport /\ reportStatus' = "Unknown"
     ELSE UNCHANGED report
  /\ UNCHANGED <<cancel, task, memory, history>>

\* claim_next_campaign
Claim ==
  /\ pc = "idle" /\ status = "Queued"
  /\ status' = "Sending" /\ task' = "Running"
  /\ pc' = "begin"
  /\ UNCHANGED <<cancel, delivery, report, memory, history>>

\* execute_queued_campaign reads the campaign again; a retry has requeued it.
Requeued ==
  /\ pc = "begin" /\ status # "Sending"
  /\ pc' = "idle"
  /\ UNCHANGED <<campaign, delivery, report, memory, history>>

Begin ==
  /\ pc = "begin" /\ status = "Sending"
  /\ pc' = "connect"
  /\ UNCHANGED <<campaign, delivery, report, memory, history>>

ProfileMissing ==
  /\ pc = "begin" /\ status = "Sending"
  /\ status' = "Failed" /\ task' = "Error"
  /\ pc' = "markFailed"
  /\ UNCHANGED <<cancel, delivery, report, memory, history>>

\* The deliveries the loop will visit, read once.
Snapshot == Having({"Pending"})

Connect ==
  /\ pc = "connect"
  /\ todo' = Snapshot
  /\ pc' = "next"
  /\ UNCHANGED <<campaign, delivery, report, cur, verdict, draft, history>>

\* The exception handler around the campaign; rows that were never tried stay
\* Pending.
Abort(rows) ==
  /\ status' = "Failed" /\ task' = "Error"
  /\ delivery' = Become(rows, {"Sending"}, "Unknown")
  /\ pc' = "report" /\ todo' = {} /\ cur' = None
  /\ UNCHANGED <<cancel, report, verdict, draft>>

\* No GPG, no SMTP server, or no login.
ConnectFails ==
  /\ pc = "connect"
  /\ Abort(delivery)
  /\ UNCHANGED history

-----------------------------------------------------------------------------
(* The worker process: the delivery loop.                                  *)

Skip(d) ==
  /\ pc = "next" /\ d \in todo /\ cancel
  /\ delivery' = [delivery EXCEPT ![d] = "Skipped"]
  /\ todo' = todo \ {d}
  /\ UNCHANGED <<campaign, report, pc, cur, verdict, draft, history>>

\* The row says Sending before the mail leaves.
StartDelivery(d) ==
  /\ pc = "next" /\ d \in todo /\ ~cancel
  /\ delivery' = [delivery EXCEPT ![d] = "Sending"]
  /\ todo' = todo \ {d} /\ cur' = d
  /\ pc' = "submit"
  /\ UNCHANGED <<campaign, report, verdict, draft, history>>

\* The SMTP server takes the mail.
Accept ==
  /\ pc \in {"submit", "resubmit"}
  /\ pc' = IF pc = "submit" THEN "answer" ELSE "reanswer"
  /\ accepted' = [accepted EXCEPT ![cur] = @ + 1]
  /\ UNCHANGED <<campaign, delivery, report, memory, doubtful, mailed, retries, crashes>>

\* The mail just taken is not going to be recorded as Sent by this attempt.
Doubt == doubtful' = doubtful \cup (IF pc \in Taken THEN {cur} ELSE {})

\* The connection breaks, before or after the mail was taken: the worker opens
\* another one and submits the mail once more.
Disconnect ==
  /\ pc \in {"submit", "answer"}
  /\ pc' = "reconnect"
  /\ Doubt
  /\ UNCHANGED <<campaign, delivery, report, memory, accepted, mailed, retries, crashes>>

Reconnect ==
  /\ pc = "reconnect"
  /\ pc' = "resubmit"
  /\ UNCHANGED <<campaign, delivery, report, memory, history>>

RecordSent ==
  /\ pc \in Taken
  /\ delivery' = [delivery EXCEPT ![cur] = "Sent"]
  /\ pc' = "next" /\ cur' = None
  /\ UNCHANGED <<campaign, report, todo, verdict, draft, history>>

\* No key, a refusal, a second broken connection, or, after the mail was taken, a
\* log line that could not be written.
RecordFailed ==
  /\ pc \in Attempting
  /\ delivery' = [delivery EXCEPT ![cur] = "Failed"]
  /\ Doubt
  /\ pc' = "next" /\ cur' = None
  /\ UNCHANGED <<campaign, report, todo, verdict, draft, accepted, mailed, retries, crashes>>

\* The log line about the failure cannot be written either.
LogFails ==
  /\ pc \in Attempting
  /\ Doubt
  /\ Abort([delivery EXCEPT ![cur] = "Failed"])
  /\ UNCHANGED <<accepted, mailed, retries, crashes>>

\* Mutant of Verdict: uncertain deliveries are not counted as failed.
VerdictWithoutUnknown ==
  IF cancel THEN "Cancelled"
  ELSE IF Having({"Failed", "Skipped"}) = {} THEN "Completed"
  ELSE IF Having({"Sent"}) # {} THEN "Partial" ELSE "Failed"

Verdict ==
  IF cancel THEN "Cancelled"
  ELSE IF Having({"Failed", "Unknown", "Skipped"}) = {} THEN "Completed"
  ELSE IF Having({"Sent"}) # {} THEN "Partial" ELSE "Failed"

\* The rows are counted and the cancel request is read.
Tally ==
  /\ pc = "next" /\ todo = {}
  /\ verdict' = Verdict
  /\ pc' = "finish"
  /\ UNCHANGED <<campaign, delivery, report, todo, cur, draft, history>>

\* Mutant of Finish: the campaign is left to another worker's recovery.
FinishWithoutStatus ==
  /\ pc = "finish"
  /\ task' = "Success"
  /\ pc' = "audit" /\ verdict' = None
  /\ UNCHANGED <<status, cancel, delivery, report, todo, cur, draft, history>>

\* The verdict is written over whatever the status is by now.
Finish ==
  /\ pc = "finish"
  /\ status' = verdict
  /\ task' = IF verdict = "Completed" THEN "Success"
             ELSE IF Having({"Sent"}) # {} THEN "Warning" ELSE "Error"
  /\ pc' = "audit" /\ verdict' = None
  /\ UNCHANGED <<cancel, delivery, report, todo, cur, draft, history>>

\* The end of the campaign is written to the audit log ...
Audited ==
  /\ pc = "audit"
  /\ pc' = "report"
  /\ UNCHANGED <<campaign, delivery, report, memory, history>>

\* ... or cannot be: the handler, still in charge, makes a failure of the verdict.
AuditFails ==
  /\ pc = "audit"
  /\ Abort(delivery)
  /\ UNCHANGED history

-----------------------------------------------------------------------------
(* The worker process: the result report.                                  *)

NoReport ==
  /\ pc = "report" /\ \A a \in Addressee : entries[a] # "Pending"
  /\ pc' = "idle"
  /\ UNCHANGED <<campaign, delivery, report, memory, history>>

StartReport ==
  /\ pc = "report" /\ \E a \in Addressee : entries[a] = "Pending"
  /\ entries' = Become(entries, {"Pending"}, "Sending") /\ draft' = entries'
  /\ reportStatus' = "Sending"
  /\ pc' = "reportConnect"
  /\ UNCHANGED <<campaign, delivery, todo, cur, verdict, history>>

ReportConnect ==
  /\ pc = "reportConnect"
  /\ pc' = "reporting"
  /\ UNCHANGED <<campaign, delivery, report, memory, history>>

ReportFails ==
  /\ pc = "reportConnect"
  /\ pc' = "markFailed" /\ draft' = NoLines
  /\ UNCHANGED <<campaign, delivery, report, todo, cur, verdict, history>>

\* A report is mailed; the commit writes the worker's copy of all lines.
MailReport(a) ==
  /\ pc = "reporting" /\ draft[a] = "Sending"
  /\ \/ draft' = [draft EXCEPT ![a] = "Sent"] /\ mailed' = [mailed EXCEPT ![a] = @ + 1]
     \/ draft' = [draft EXCEPT ![a] = "Failed"] /\ UNCHANGED mailed
  /\ entries' = draft'
  /\ UNCHANGED <<campaign, delivery, reportStatus, pc, todo, cur, verdict,
                 accepted, doubtful, retries, crashes>>

\* The mail was taken, but the worker dies before its commit.
CrashAfterMail(a) ==
  /\ pc = "reporting" /\ draft[a] = "Sending" /\ crashes < MaxCrashes
  /\ mailed' = [mailed EXCEPT ![a] = @ + 1]
  /\ pc' = "down" /\ Forget
  /\ crashes' = crashes + 1
  /\ UNCHANGED <<campaign, delivery, report, accepted, doubtful, retries>>

FinishReport ==
  /\ pc = "reporting" /\ \A a \in Addressee : draft[a] # "Sending"
  /\ entries' = draft
  /\ reportStatus' =
       IF \A a \in Addressee : draft[a] \in {"none", "Sent"} THEN "Completed"
       ELSE IF \E a \in Addressee : draft[a] = "Sent" THEN "Partial" ELSE "Failed"
  /\ pc' = "idle" /\ draft' = NoLines
  /\ UNCHANGED <<campaign, delivery, todo, cur, verdict, history>>

\* Mutant of MarkFailed: the lines of an unsent report stay as they are.
MarkFailedStatusOnly ==
  /\ pc = "markFailed"
  /\ UNCHANGED entries
  /\ reportStatus' = IF entries = NoLines THEN reportStatus ELSE "Failed"
  /\ pc' = "idle"
  /\ UNCHANGED <<campaign, delivery, memory, history>>

\* mark_campaign_result_report_failed
MarkFailed ==
  /\ pc = "markFailed"
  /\ entries' = Become(entries, {"Pending", "Sending"}, "Failed")
  /\ reportStatus' = IF entries = NoLines THEN reportStatus ELSE "Failed"
  /\ pc' = "idle"
  /\ UNCHANGED <<campaign, delivery, memory, history>>

-----------------------------------------------------------------------------
WebStep == Enqueue \/ Cancel \/ Retry

Death == Crash \/ \E a \in Addressee : CrashAfterMail(a)

WorkerStep ==
  \/ Recover
  \/ Claim
  \/ Requeued
  \/ Begin
  \/ ProfileMissing
  \/ Connect
  \/ ConnectFails
  \/ \E d \in Delivery : Skip(d)
  \/ \E d \in Delivery : StartDelivery(d)
  \/ Accept
  \/ Disconnect
  \/ Reconnect
  \/ RecordSent
  \/ RecordFailed
  \/ LogFails
  \/ Tally
  \/ Finish
  \/ Audited
  \/ AuditFails
  \/ NoReport
  \/ StartReport
  \/ ReportConnect
  \/ ReportFails
  \/ \E a \in Addressee : MailReport(a)
  \/ FinishReport
  \/ MarkFailed

Next == WebStep \/ Death \/ WorkerStep

Spec == Init /\ [][Next]_vars

\* Every SMTP and GPG call has a timeout and the service is always restarted: a
\* worker that can go on does.
FairSpec == Spec /\ WF_vars(WorkerStep)

-----------------------------------------------------------------------------
(* Properties.                                                             *)

\* "Completed" tells that every recipient's mail was sent: it hides no delivery that
\* is waiting, interrupted or failed (NEWSLETTER_GUIDE_UA.md:271).
CompletedMeansDelivered ==
  status = "Completed" => \A d \in Delivery : delivery[d] = "Sent"

\* No recipient gets the mail twice, through any number of deaths, recoveries and
\* retries, unless an attempt ended without the worker knowing, or being able to
\* note, that the mail had been taken (routes.py:3332).
AcceptedAtMostOnce == \A d \in Delivery \ doubtful : accepted[d] <= 1

Mail == INSTANCE MailLedger WITH Recipient <- Delivery, row <- delivery, taken <- accepted

\* The queue does with every recipient's mail what the ledger promises, whatever the web
\* process asks meanwhile and wherever the worker dies.
ImplementsMailLedger == Mail!MSpec

\* A delivery that was sent, or may have been, is never taken up again: neither by a
\* recovery nor by a retry (NEWSLETTER_GUIDE_UA.md:277).
UncertainStays ==
  [][\A d \in Delivery :
       delivery[d] \in {"Sent", "Unknown"} => delivery'[d] = delivery[d]]_vars

\* Mail leaves only while the campaign shows Sending: one that is finished, cancelled
\* or waiting sends nothing behind the operator's back.
MailOnlyWhileSending == [][accepted' # accepted => status = "Sending"]_vars

\* An addressee gets one report for each time the campaign was run, whenever the
\* worker dies (NEWSLETTER_GUIDE_UA.md:233).
ReportNotResent == \A a \in Addressee : mailed[a] <= 1 + retries

\* A campaign in the queue is finished some day.
QueuedIsFinished == status = "Queued" ~> status \in Finished

\* A worker that has closed a campaign settles its reports, whatever a retry does to
\* their lines meanwhile, unless it dies.
ReportIsSettled ==
  \A a \in Addressee :
    pc \in {"report", "markFailed"} /\ entries[a] = "Pending" ~>
      pc = "down" \/ entries[a] \notin {"Pending", "Sending"}
=============================================================================
