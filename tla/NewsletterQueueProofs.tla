------------------------ MODULE NewsletterQueueProofs ------------------------
(***************************************************************************)
(* Theorems about NewsletterQueue for every set of recipients and          *)
(* addressees and any number of retries and deaths of the worker.  IInv    *)
(* says which rows the worker's loop has still in hand (LoopInv) and what  *)
(* a row tells about the mail (AcceptInv); CloseInv, which needs retries   *)
(* to wait for the end of the campaign, says that no row is outside both   *)
(* the loop and the verdict; ReportInv counts the reports that lines, and  *)
(* the worker's copy of them, still stand for.  With TakenInv the queue    *)
(* implements MailLedger.                                                  *)
(***************************************************************************)
EXTENDS NewsletterQueue, TLAPS

Looping == {"next"} \cup Attempting

\* What the loop has still to visit is waiting, what it works on is Sending.
LoopInv ==
  /\ pc \notin Looping => todo = {}
  /\ \A d \in todo : delivery[d] = "Pending"
  /\ pc \in Attempting => delivery[cur] = "Sending"

\* A row that may be taken up again stands for mail that was not taken.
AcceptInv ==
  \A d \in Delivery \ doubtful :
    /\ accepted[d] <= 1
    /\ delivery[d] \in {"Pending", "Skipped", "Failed"} => accepted[d] = 0
    /\ pc \in Attempting \ Taken /\ cur = d => accepted[d] = 0

IInv == TypeOK /\ LoopInv /\ AcceptInv

AllSent == \A d \in Delivery : delivery[d] = "Sent"

CloseInv ==
  /\ pc \in {"begin", "connect", "finish"} \cup Looping => status = "Sending"
  /\ \A d \in Delivery : delivery[d] = "Sending" =>
       \/ pc \in Attempting /\ d = cur
       \/ pc = "down" /\ status = "Sending"
  /\ pc \in {"finish"} \cup Looping =>
       \A d \in Delivery : delivery[d] = "Pending" => d \in todo
  /\ CompletedMeansDelivered
  /\ pc = "finish" /\ verdict = "Completed" => AllSent

\* The steps that touch no row of the campaign's deliveries and take no mail.
Elsewhere ==
  \/ Claim \/ Requeued \/ Begin \/ ProfileMissing \/ NoReport \/ StartReport
  \/ ReportConnect \/ ReportFails \/ FinishReport \/ MarkFailed
  \/ \E a \in Addressee : MailReport(a) \/ CrashAfterMail(a)
  \/ Enqueue \/ Cancel \/ Crash \/ Finish \/ Audited \/ UNCHANGED vars

LEMMA NextCases ==
  ASSUME [Next]_vars
  PROVE  \/ Elsewhere
         \/ Retry \/ Recover \/ Connect \/ ConnectFails \/ AuditFails \/ Accept
         \/ Disconnect \/ Reconnect \/ RecordSent \/ RecordFailed \/ LogFails \/ Tally
         \/ \E d \in Delivery : Skip(d) \/ StartDelivery(d)
  BY DEF Next, WebStep, Death, WorkerStep, Elsewhere

LEMMA ElsewhereFootprint ==
  ASSUME Elsewhere
  PROVE  /\ UNCHANGED <<delivery, accepted, doubtful>>
         /\ \/ pc' = pc /\ UNCHANGED <<todo, cur>>
            \/ pc' \notin Looping /\ todo' \in {todo, {}}
  BY DEF Elsewhere, Claim, Requeued, Begin, ProfileMissing, NoReport, StartReport,
     ReportConnect, ReportFails, FinishReport, MarkFailed, MailReport, CrashAfterMail,
     Enqueue, Cancel, Crash, Finish, Audited, Forget, vars, memory, history, Looping, Attempting, Taken

\* Changing statuses of S into s leaves the other rows as they are.
LEMMA BecomeRows ==
  ASSUME NEW S, NEW s \in Rows, NEW f \in [Delivery -> Rows]
  PROVE  /\ Become(f, S, s) \in [Delivery -> Rows]
         /\ \A d \in Delivery : Become(f, S, s)[d] = IF f[d] \in S THEN s ELSE f[d]
  BY DEF Become

LEMMA BecomeLines ==
  ASSUME NEW S, NEW s \in Lines, NEW f \in [Addressee -> Lines]
  PROVE  Become(f, S, s) \in [Addressee -> Lines]
  BY DEF Become

-----------------------------------------------------------------------------
LEMMA InitEstablishes == Init => IInv /\ CloseInv
<1> SUFFICES ASSUME Init PROVE IInv /\ CloseInv
  OBVIOUS
<1> USE DEF Init
<1>1. TypeOK
  BY DEF TypeOK, Rows, Lines, NoLines, Places, Attempting, Taken
<1>2. LoopInv /\ AcceptInv
  BY DEF LoopInv, AcceptInv, Looping, Attempting, Taken
<1>3. CloseInv
  BY DEF CloseInv, Looping, Attempting, Taken, CompletedMeansDelivered
<1>4. QED
  BY <1>1, <1>2, <1>3 DEF IInv

LEMMA TypePreserved == IInv /\ [Next]_vars => TypeOK'
<1> SUFFICES ASSUME IInv, [Next]_vars PROVE TypeOK'
  OBVIOUS
<1> USE DEF IInv, TypeOK, Places, Attempting, Taken
<1>0. CASE Cancel
  BY <1>0 DEF Cancel, memory, history, report
<1>1. CASE Enqueue
  <2>1. entries' \in [Addressee -> Lines] /\ reportStatus' \in {"NotRequested", "Pending"}
    BY <1>1 DEF Enqueue, Lines
  <2>2. QED
    BY <1>1, <2>1 DEF Enqueue, memory, history
<1>2. CASE Retry
  <2>1. delivery' \in [Delivery -> Rows]
    BY <1>2, BecomeRows DEF Retry, Rows
  <2>2. entries' \in [Addressee -> Lines]
    BY <1>2, BecomeLines DEF Retry, Lines
  <2>3. reportStatus' \in {reportStatus, "Pending"} /\ retries' \in Nat
    BY <1>2 DEF Retry
  <2>4. QED
    BY <1>2, <2>1, <2>2, <2>3 DEF Retry, memory
<1>3. CASE Death
  BY <1>3 DEF Death, Crash, CrashAfterMail, Forget, NoLines, Lines, campaign, report
<1>4. CASE Recover
  <2>1. Interrupted \in [Delivery -> Rows]
    BY BecomeRows DEF Interrupted, Rows
  <2>2. InterruptedReport \in [Addressee -> Lines]
    BY BecomeLines DEF InterruptedReport, Lines
  <2>3. QED
    BY <1>4, <2>1, <2>2 DEF Recover, report, memory, history, Finished
<1>5. CASE Claim \/ Requeued \/ Begin \/ ProfileMissing
  BY <1>5 DEF Claim, Requeued, Begin, ProfileMissing, campaign, report, memory, history, Finished
<1>6. CASE Connect
  BY <1>6 DEF Connect, Snapshot, Having, campaign, report, history
<1>7. CASE ConnectFails \/ AuditFails
  <2>1. delivery' \in [Delivery -> Rows]
    BY <1>7, BecomeRows DEF ConnectFails, AuditFails, Abort, Rows
  <2>2. QED
    BY <1>7, <2>1 DEF ConnectFails, AuditFails, Abort, report, history, Finished
<1>8. ASSUME NEW d \in Delivery, Skip(d) \/ StartDelivery(d) PROVE TypeOK'
  BY <1>8 DEF Skip, StartDelivery, Rows, campaign, report, history
<1>9. CASE Accept \/ Disconnect \/ Reconnect
  BY <1>9 DEF Accept, Disconnect, Reconnect, Doubt, campaign, report, memory, history
<1>10. CASE RecordSent \/ RecordFailed
  BY <1>10 DEF RecordSent, RecordFailed, Doubt, Rows, campaign, report, history
<1>11. CASE LogFails
  <2>1. [delivery EXCEPT ![cur] = "Failed"] \in [Delivery -> Rows]
    BY DEF Rows
  <2>2. delivery' \in [Delivery -> Rows]
    BY <1>11, <2>1, BecomeRows DEF LogFails, Abort, Rows
  <2>3. QED
    BY <1>11, <2>2 DEF LogFails, Abort, Doubt, report, Finished
<1>12. CASE Tally
  BY <1>12 DEF Tally, Verdict, Finished, campaign, report, history
<1>13. CASE Finish \/ Audited
  BY <1>13 DEF Finish, Audited, campaign, report, memory, history, Finished
<1>14. CASE StartReport
  <2>1. entries' \in [Addressee -> Lines]
    BY <1>14, BecomeLines DEF StartReport, Lines
  <2>2. QED
    BY <1>14, <2>1 DEF StartReport, campaign, history
<1>15. CASE NoReport \/ ReportConnect \/ ReportFails
  BY <1>15 DEF NoReport, ReportConnect, ReportFails, NoLines, Lines, campaign, report, memory, history
<1>16. ASSUME NEW a \in Addressee, MailReport(a) PROVE TypeOK'
  BY <1>16 DEF MailReport, Lines, campaign
<1>17. CASE FinishReport
  BY <1>17 DEF FinishReport, NoLines, Lines, campaign, history
<1>18. CASE MarkFailed
  <2>1. entries' \in [Addressee -> Lines]
    BY <1>18, BecomeLines DEF MarkFailed, Lines
  <2>2. QED
    BY <1>18, <2>1 DEF MarkFailed, campaign, memory, history
<1>19. CASE UNCHANGED vars
  BY <1>19 DEF vars, campaign, report, memory, history
<1>20. QED
  BY <1>0, <1>1, <1>2, <1>3, <1>4, <1>5, <1>6, <1>7, <1>8, <1>9, <1>10, <1>11, <1>12,
     <1>13, <1>14, <1>15, <1>16, <1>17, <1>18, <1>19 DEF Next, WebStep, WorkerStep

-----------------------------------------------------------------------------
LEMMA LoopPreserved == IInv /\ [Next]_vars => LoopInv'
<1> SUFFICES ASSUME IInv, [Next]_vars PROVE LoopInv'
  OBVIOUS
<1> USE DEF IInv, TypeOK, LoopInv, Looping, Attempting, Taken
<1>1. CASE Elsewhere
  <2>1. todo' # {} => pc' = pc \/ pc \in Looping
    BY <1>1, ElsewhereFootprint
  <2>2. pc' \notin Looping => todo' = {}
    BY <1>1 DEF Elsewhere, Claim, Requeued, Begin, ProfileMissing, NoReport, StartReport,
       ReportConnect, ReportFails, FinishReport, MarkFailed, MailReport, CrashAfterMail,
       Enqueue, Cancel, Crash, Finish, Audited, Forget, vars, memory
  <2>3. QED
    BY <1>1, <2>1, <2>2, ElsewhereFootprint
<1>2. CASE Retry
  <2>1. \A d \in Delivery : delivery'[d] = IF delivery[d] \in Retryable THEN "Pending" ELSE delivery[d]
    BY <1>2 DEF Retry, Become
  <2>2. QED
    BY <1>2, <2>1 DEF Retry, Retryable, memory
<1>3. CASE Recover \/ Connect \/ ConnectFails \/ AuditFails \/ LogFails
  BY <1>3 DEF Recover, Connect, Snapshot, Having, ConnectFails, AuditFails, LogFails, Abort, memory
<1>4. CASE Accept \/ Disconnect \/ Reconnect
  BY <1>4 DEF Accept, Disconnect, Reconnect, memory
<1>5. CASE RecordSent \/ RecordFailed
  BY <1>5 DEF RecordSent, RecordFailed
<1>6. CASE Tally
  BY <1>6 DEF Tally
<1>7. ASSUME NEW d \in Delivery, Skip(d) \/ StartDelivery(d) PROVE LoopInv'
  BY <1>7 DEF Skip, StartDelivery
<1>8. QED
  BY <1>1, <1>2, <1>3, <1>4, <1>5, <1>6, <1>7, NextCases

LEMMA AcceptPreserved == IInv /\ [Next]_vars => AcceptInv'
<1> SUFFICES ASSUME IInv, [Next]_vars, NEW d \in Delivery, d \notin doubtful'
             PROVE  /\ accepted'[d] <= 1
                    /\ delivery'[d] \in {"Pending", "Skipped", "Failed"} => accepted'[d] = 0
                    /\ pc' \in Attempting \ Taken /\ cur' = d => accepted'[d] = 0
  BY DEF AcceptInv
<1> USE DEF IInv, TypeOK, LoopInv, AcceptInv, Looping, Attempting, Taken
<1>1. CASE Elsewhere
  BY <1>1, ElsewhereFootprint
<1>2. CASE Retry
  <2>1. delivery'[d] = IF delivery[d] \in Retryable THEN "Pending" ELSE delivery[d]
    BY <1>2 DEF Retry, Become
  <2>2. QED
    BY <1>2, <2>1 DEF Retry, Retryable, memory
<1>3. CASE Recover
  <2>1. delivery'[d] \in {delivery[d], "Unknown"}
    BY <1>3 DEF Recover, Interrupted, Become
  <2>2. QED
    BY <1>3, <2>1 DEF Recover, history
<1>4. CASE Connect \/ Tally
  BY <1>4 DEF Connect, Tally, history
<1>5. CASE ConnectFails \/ AuditFails
  <2>1. delivery'[d] \in {delivery[d], "Unknown"}
    BY <1>5 DEF ConnectFails, AuditFails, Abort, Become
  <2>2. QED
    BY <1>5, <2>1 DEF ConnectFails, AuditFails, Abort, history
<1>6. CASE Accept
  BY <1>6 DEF Accept, memory
<1>7. CASE Disconnect \/ Reconnect
  BY <1>7 DEF Disconnect, Reconnect, Doubt, memory, history
<1>8. CASE RecordSent \/ RecordFailed
  BY <1>8 DEF RecordSent, RecordFailed, Doubt, history
<1>9. CASE LogFails
  <2>1. d = cur => pc \notin Taken
    BY <1>9 DEF LogFails, Doubt
  <2>2. d # cur => delivery'[d] \in {delivery[d], "Unknown"}
    BY <1>9 DEF LogFails, Abort, Become
  <2>3. pc' = "report" /\ UNCHANGED accepted /\ pc \in Attempting /\ d \notin doubtful
    BY <1>9 DEF LogFails, Abort, Doubt
  <2>4. QED
    BY <2>1, <2>2, <2>3
<1>10. ASSUME NEW e \in Delivery, Skip(e) \/ StartDelivery(e)
       PROVE  /\ accepted'[d] <= 1
              /\ delivery'[d] \in {"Pending", "Skipped", "Failed"} => accepted'[d] = 0
              /\ pc' \in Attempting \ Taken /\ cur' = d => accepted'[d] = 0
  BY <1>10 DEF Skip, StartDelivery, history
<1>11. QED
  BY <1>1, <1>2, <1>3, <1>4, <1>5, <1>6, <1>7, <1>8, <1>9, <1>10, NextCases

LEMMA StepPreserves == IInv /\ [Next]_vars => IInv'
  BY TypePreserved, LoopPreserved, AcceptPreserved DEF IInv

LEMMA Invariance == Spec => []IInv
<1>1. Init => IInv
  BY InitEstablishes
<1>2. IInv /\ [Next]_vars => IInv'
  BY StepPreserves
<1>3. QED
  BY <1>1, <1>2, PTL DEF Spec

\* The rows, the worker's place and its memory are always of their types.
THEOREM NewsletterTypeCorrect == Spec => []TypeOK
<1>1. IInv => TypeOK
  BY DEF IInv
<1>2. QED
  BY <1>1, Invariance, PTL

\* No recipient gets the mail twice, unless an attempt ended with the worker unable
\* to tell or to note that it had been taken: the states of a row that a retry or a
\* recovery takes up again are those of mail that has not left.
THEOREM NewsletterAcceptedAtMostOnce == Spec => []AcceptedAtMostOnce
<1>1. IInv => AcceptedAtMostOnce
  BY DEF IInv, AcceptInv, AcceptedAtMostOnce
<1>2. QED
  BY <1>1, Invariance, PTL

\* A row that says Sent or Unknown is never changed again: the worker writes only
\* rows that were Pending or Sending, a retry only Failed and Skipped ones.
THEOREM NewsletterUncertainStays == Spec => UncertainStays
<1> DEFINE Stays == \A d \in Delivery :
             delivery[d] \in {"Sent", "Unknown"} => delivery'[d] = delivery[d]
<1>1. ASSUME IInv, [Next]_vars PROVE Stays
  <2> SUFFICES ASSUME NEW d \in Delivery, delivery[d] \in {"Sent", "Unknown"}
               PROVE  delivery'[d] = delivery[d]
    OBVIOUS
  <2> USE <1>1 DEF IInv, TypeOK, LoopInv
  <2>1. CASE Elsewhere \/ Connect \/ Accept \/ Disconnect \/ Reconnect \/ Tally
    BY <2>1, ElsewhereFootprint DEF Connect, Accept, Disconnect, Reconnect, Tally
  <2>2. CASE Retry
    BY <2>2 DEF Retry, Become, Retryable
  <2>3. CASE Recover
    BY <2>3 DEF Recover, Interrupted, Become
  <2>4. CASE ConnectFails \/ AuditFails \/ LogFails
    BY <2>4 DEF ConnectFails, AuditFails, LogFails, Abort, Become
  <2>5. CASE RecordSent \/ RecordFailed
    BY <2>5 DEF RecordSent, RecordFailed, Attempting
  <2>6. ASSUME NEW e \in Delivery, Skip(e) \/ StartDelivery(e)
        PROVE  delivery'[d] = delivery[d]
    BY <2>6 DEF Skip, StartDelivery
  <2>7. QED
    BY <2>1, <2>2, <2>3, <2>4, <2>5, <2>6, NextCases
<1>2. ASSUME IInv, [Next]_vars PROVE [Stays]_vars
  BY <1>1, <1>2
<1>3. QED
  BY <1>2, Invariance, PTL DEF Spec, UncertainStays

-----------------------------------------------------------------------------
(* Retries that wait until the campaign is finished.                       *)

LEMMA ClosePreserved ==
  ASSUME ~StaleRetry, IInv, CloseInv, [Next]_vars PROVE CloseInv'
<1> USE DEF IInv, TypeOK, LoopInv, CloseInv, CompletedMeansDelivered, AllSent, Looping,
            Attempting, Taken
<1>1. CASE Enqueue \/ Cancel
  BY <1>1 DEF Enqueue, Cancel, memory
<1>2. CASE Retry
  <2>1. status \in Finished
    BY <1>2 DEF Retry
  <2>2. pc \notin {"begin", "connect", "finish"} \cup Looping
    BY <2>1 DEF Finished
  <2>3. \A d \in Delivery : delivery'[d] = "Sending" => delivery[d] = "Sending"
    BY <1>2 DEF Retry, Become
  <2>4. pc' = pc /\ status' = "Queued"
    BY <1>2 DEF Retry
  <2>5. QED
    BY <2>1, <2>2, <2>3, <2>4 DEF Finished
<1>3. CASE Death
  BY <1>3 DEF Death, Crash, CrashAfterMail, campaign
<1>4. CASE Recover
  <2>1. \A d \in Delivery : delivery'[d] # "Sending"
    BY <1>4 DEF Recover, Interrupted, Become
  <2>2. pc' = "idle" /\ (status' = "Completed" => UNCHANGED <<status, delivery>>)
    BY <1>4 DEF Recover
  <2>3. QED
    BY <2>1, <2>2
<1>5. CASE Claim \/ Requeued \/ Begin \/ ProfileMissing
  BY <1>5 DEF Claim, Requeued, Begin, ProfileMissing, campaign, memory
<1>6. CASE Connect
  BY <1>6 DEF Connect, Snapshot, Having, campaign
<1>7. CASE ConnectFails \/ AuditFails \/ LogFails
  <2>1. \A d \in Delivery : delivery'[d] # "Sending"
    BY <1>7 DEF ConnectFails, AuditFails, LogFails, Abort, Become
  <2>2. pc' = "report" /\ status' = "Failed"
    BY <1>7 DEF ConnectFails, AuditFails, LogFails, Abort
  <2>3. QED
    BY <2>1, <2>2
<1>8. ASSUME NEW d \in Delivery, Skip(d) \/ StartDelivery(d) PROVE CloseInv'
  BY <1>8 DEF Skip, StartDelivery, campaign
<1>9. CASE Accept \/ Disconnect \/ Reconnect
  BY <1>9 DEF Accept, Disconnect, Reconnect, campaign, memory
<1>10. CASE RecordSent \/ RecordFailed
  BY <1>10 DEF RecordSent, RecordFailed, campaign
<1>11. CASE Tally
  <2>1. verdict' = "Completed" => AllSent
    <3> SUFFICES ASSUME verdict' = "Completed", NEW d \in Delivery
                 PROVE  delivery[d] = "Sent"
      OBVIOUS
    <3>1. d \notin Having({"Failed", "Unknown", "Skipped"})
      BY <1>11 DEF Tally, Verdict
    <3>2. delivery[d] # "Pending" /\ delivery[d] # "Sending"
      BY <1>11 DEF Tally
    <3>3. QED
      BY <3>1, <3>2 DEF Having, Rows
  <2>2. QED
    BY <1>11, <2>1 DEF Tally, campaign
<1>12. CASE Finish \/ Audited
  BY <1>12 DEF Finish, Audited, campaign, memory
<1>13. CASE NoReport \/ StartReport \/ ReportConnect \/ ReportFails \/ FinishReport \/ MarkFailed
  BY <1>13 DEF NoReport, StartReport, ReportConnect, ReportFails, FinishReport, MarkFailed,
     campaign, memory
<1>14. ASSUME NEW a \in Addressee, MailReport(a) PROVE CloseInv'
  BY <1>14 DEF MailReport, campaign
<1>15. CASE UNCHANGED vars
  BY <1>15 DEF vars, campaign, memory
<1>16. QED
  BY <1>1, <1>2, <1>3, <1>4, <1>5, <1>6, <1>7, <1>8, <1>9, <1>10, <1>11, <1>12, <1>13,
     <1>14, <1>15 DEF Next, WebStep, WorkerStep

LEMMA CloseInvariance == ASSUME ~StaleRetry PROVE Spec => []CloseInv
<1>1. Init => CloseInv
  BY InitEstablishes
<1>2. IInv /\ CloseInv /\ [Next]_vars => CloseInv'
  BY ClosePreserved
<1>3. QED
  BY <1>1, <1>2, Invariance, PTL DEF Spec

\* When retries wait until the campaign is finished, "Completed" hides no delivery:
\* the loop visits every waiting row, and a restart turns the interrupted one into
\* Unknown, which the verdict counts as failed.
THEOREM NewsletterCompleted == ~StaleRetry => (Spec => []CompletedMeansDelivered)
<1> SUFFICES ASSUME ~StaleRetry PROVE Spec => []CompletedMeansDelivered
  OBVIOUS
<1>1. CloseInv => CompletedMeansDelivered
  BY DEF CloseInv
<1>2. QED
  BY <1>1, CloseInvariance, PTL

\* With such retries no mail leaves unless the campaign shows Sending.
THEOREM NewsletterMailOnlyWhileSending == ~StaleRetry => (Spec => MailOnlyWhileSending)
<1> SUFFICES ASSUME ~StaleRetry PROVE Spec => MailOnlyWhileSending
  OBVIOUS
<1>1. ASSUME CloseInv, Next PROVE accepted' # accepted => status = "Sending"
  <2>1. CASE Accept
    BY <1>1, <2>1 DEF Accept, CloseInv, Looping, Attempting
  <2>2. CASE ~Accept
    BY <1>1, <2>2, NextCases, ElsewhereFootprint DEF Retry, Recover, Connect, ConnectFails, AuditFails,
       Disconnect, Reconnect, RecordSent, RecordFailed, LogFails, Tally, Skip, StartDelivery,
       history
  <2>3. QED
    BY <2>1, <2>2
<1>2. CloseInv /\ [Next]_vars => [accepted' # accepted => status = "Sending"]_vars
  BY <1>1
<1>3. QED
  BY <1>2, CloseInvariance, PTL DEF Spec, MailOnlyWhileSending

-----------------------------------------------------------------------------
(* The result report.  A line that waits, and a line the worker has in its *)
(* copy, each stand for a report that was not yet mailed in this run.      *)

\* The worker's copy says a's report is still to be mailed.
Held(a) == pc \in {"reportConnect", "reporting"} /\ draft[a] = "Sending"

ReportInv ==
  /\ \A a \in Addressee :
       /\ draft[a] # "Pending"
       /\ mailed[a] <= 1 + retries
       /\ entries[a] = "Pending" \/ Held(a) => mailed[a] <= retries
       /\ entries[a] = "Pending" /\ Held(a) => mailed[a] + 1 <= retries
  /\ \A a, b \in Addressee : entries[a] = "Pending" => entries[b] # "Sending"
  /\ status = "none" => pc \in {"down", "idle"} /\ \A a \in Addressee : mailed[a] = 0

LEMMA InitReport == Init => ReportInv
  BY DEF Init, ReportInv, Held, NoLines

\* The steps that change neither a line, nor the worker's copy, nor what was mailed,
\* and stay away from the report.
Apart ==
  \/ Cancel \/ Claim \/ Requeued \/ Begin \/ ProfileMissing \/ Connect \/ ConnectFails
  \/ Audited \/ AuditFails \/ Accept \/ Disconnect \/ Reconnect \/ RecordSent \/ RecordFailed \/ LogFails
  \/ Tally \/ Finish \/ NoReport \/ UNCHANGED vars
  \/ \E d \in Delivery : Skip(d) \/ StartDelivery(d)

LEMMA ApartFootprint ==
  ASSUME TypeOK, ReportInv, Apart
  PROVE  /\ UNCHANGED <<entries, draft, mailed, retries>>
         /\ pc' = pc \/ pc' \notin {"reportConnect", "reporting"}
         /\ status' = "none" => status = "none" /\ pc' = pc
  BY DEF Apart, Cancel, Claim, Requeued, Begin, ProfileMissing, Connect, ConnectFails, AuditFails,
     Accept, Disconnect, Reconnect, RecordSent, RecordFailed, LogFails, Abort, Tally, Finish, Audited,
     NoReport, Skip, StartDelivery, vars, campaign, report, memory, history, TypeOK, ReportInv,
     Attempting, Taken, Finished

LEMMA ReportPreserved == TypeOK /\ ReportInv /\ [Next]_vars => ReportInv'
<1> SUFFICES ASSUME TypeOK, ReportInv, [Next]_vars PROVE ReportInv'
  OBVIOUS
<1> USE DEF Held
<1>t. /\ mailed \in [Addressee -> Nat] /\ retries \in Nat
      /\ entries \in [Addressee -> Lines] /\ draft \in [Addressee -> Lines]
  BY DEF TypeOK
<1>1. CASE Apart
  BY <1>1, <1>t, ApartFootprint DEF ReportInv
<1>2. CASE Enqueue
  <2>1. /\ pc' \in {"down", "idle"} /\ status' = "Queued" /\ UNCHANGED <<draft, mailed, retries>>
        /\ \A a \in Addressee : mailed[a] = 0 /\ entries'[a] # "Sending"
    BY <1>2 DEF Enqueue, memory, history, ReportInv
  <2>2. QED
    BY <2>1, <1>t DEF ReportInv
<1>3. CASE Retry
  <2>1. /\ UNCHANGED <<pc, draft, mailed>> /\ retries' = retries + 1 /\ status' = "Queued"
        /\ \A a \in Addressee : entries'[a] \in {"none", "Pending"}
    BY <1>3, <1>t DEF Retry, memory, Become
  <2>2. QED
    BY <2>1, <1>t DEF ReportInv
<1>4. CASE Crash \/ Recover
  <2>1. /\ UNCHANGED <<mailed, retries>> /\ pc' \in {"down", "idle"}
        /\ status' = "none" => status = "none"
        /\ draft' \in {draft, NoLines}
    BY <1>4, <1>t DEF Crash, Recover, Forget, memory, history, campaign
  <2>2. \A a \in Addressee : entries'[a] \in {entries[a], "Unknown"}
    BY <1>4, <1>t DEF Crash, Recover, report, InterruptedReport, Become
  <2>3. QED
    BY <2>1, <2>2, <1>t DEF ReportInv, NoLines
<1>5. ASSUME NEW a \in Addressee, CrashAfterMail(a) PROVE ReportInv'
  <2>1. /\ UNCHANGED <<entries, retries, status>> /\ pc' = "down" /\ draft' = NoLines
        /\ pc = "reporting" /\ draft[a] = "Sending"
        /\ mailed' = [mailed EXCEPT ![a] = @ + 1]
    BY <1>5 DEF CrashAfterMail, Forget, campaign, report
  <2>2. \A b \in Addressee : mailed'[b] = IF b = a THEN mailed[b] + 1 ELSE mailed[b]
    BY <2>1, <1>t
  <2>3. QED
    BY <2>1, <2>2, <1>t DEF ReportInv, NoLines
<1>6. CASE StartReport
  <2>1. PICK w \in Addressee : entries[w] = "Pending"
    BY <1>6 DEF StartReport
  <2>2. \A a \in Addressee : entries[a] # "Sending"
    BY <2>1 DEF ReportInv
  <2>3. \A a \in Addressee : entries'[a] = IF entries[a] = "Pending" THEN "Sending" ELSE entries[a]
    BY <1>6, <1>t DEF StartReport, Become
  <2>4. /\ draft' = entries' /\ pc = "report" /\ UNCHANGED <<mailed, retries, status>>
    BY <1>6 DEF StartReport, campaign, history
  <2>5. QED
    BY <2>2, <2>3, <2>4, <1>t DEF ReportInv
<1>7. CASE ReportConnect
  BY <1>7, <1>t DEF ReportConnect, campaign, report, memory, history, ReportInv
<1>8. CASE ReportFails
  BY <1>8, <1>t DEF ReportFails, campaign, report, history, ReportInv, NoLines
<1>9. ASSUME NEW a \in Addressee, MailReport(a) PROVE ReportInv'
  <2>1. /\ UNCHANGED <<pc, retries, status>> /\ pc = "reporting" /\ draft[a] = "Sending"
        /\ entries' = draft'
    BY <1>9 DEF MailReport, campaign
  <2>2. /\ \A b \in Addressee : b # a => draft'[b] = draft[b] /\ mailed'[b] = mailed[b]
        /\ draft'[a] \in {"Sent", "Failed"} /\ mailed'[a] \in {mailed[a], mailed[a] + 1}
    BY <1>9, <1>t DEF MailReport
  <2>3. QED
    BY <2>1, <2>2, <1>t DEF ReportInv
<1>10. CASE FinishReport
  BY <1>10, <1>t DEF FinishReport, campaign, history, ReportInv, NoLines
<1>11. CASE MarkFailed
  <2>1. \A a \in Addressee : entries'[a] \notin {"Pending", "Sending"}
    BY <1>11, <1>t DEF MarkFailed, Become
  <2>2. QED
    BY <1>11, <2>1, <1>t DEF MarkFailed, campaign, memory, history, ReportInv
<1>12. QED
  BY <1>1, <1>2, <1>3, <1>4, <1>5, <1>6, <1>7, <1>8, <1>9, <1>10, <1>11
     DEF Next, WebStep, Death, WorkerStep, Apart

\* No addressee is mailed more reports than the campaign had runs, whenever the worker
\* dies, and also when a retry comes while a report is being mailed: a line waits, or
\* is in the worker's hand, only for a report that this run has not sent, and a restart
\* settles the lines it finds in the worker's hand.
THEOREM NewsletterReportNotResent == Spec => []ReportNotResent
<1>1. ReportInv => ReportNotResent
  BY DEF ReportInv, ReportNotResent
<1>2. TypeOK /\ ReportInv /\ [Next]_vars => ReportInv'
  BY ReportPreserved
<1>3. QED
  BY <1>1, <1>2, InitReport, NewsletterTypeCorrect, PTL DEF Spec

-----------------------------------------------------------------------------
(* The queue implements MailLedger.                                        *)

\* The worker saw the mail in hand being taken.
TakenInv == pc \in Taken => accepted[cur] > 0

LEMMA TakenPreserved == IInv /\ TakenInv /\ [Next]_vars => TakenInv'
<1> SUFFICES ASSUME IInv, TakenInv, [Next]_vars, pc' \in Taken PROVE accepted'[cur'] > 0
  BY DEF TakenInv
<1> USE DEF IInv, TypeOK, TakenInv, Looping, Attempting, Taken
<1>1. CASE Elsewhere
  BY <1>1, ElsewhereFootprint
<1>2. CASE Accept
  BY <1>2 DEF Accept, memory
<1>3. CASE ~Elsewhere /\ ~Accept
  BY <1>3, NextCases DEF Retry, Recover, Connect, ConnectFails, AuditFails, Abort, Disconnect, Reconnect,
     RecordSent, RecordFailed, LogFails, Tally, Skip, StartDelivery, memory, history
<1> QED
  BY <1>1, <1>2, <1>3

\* Rows that leave Sending are attempts that end.
LEMMA EndMapped ==
  ASSUME NEW ended \in SUBSET Delivery, TypeOK, delivery' \in [Delivery -> Rows],
         UNCHANGED accepted,
         \A d \in Delivery \ ended : delivery'[d] = delivery[d],
         \A d \in ended : /\ delivery[d] = "Sending"
                          /\ delivery'[d] \in {"Sent", "Failed", "Unknown"}
                          /\ delivery'[d] = "Sent" => accepted[d] # 0
                          /\ delivery'[d] = "Failed" => accepted[d] = 0 \/ d \in doubtful',
         NEW unsure \in SUBSET Delivery, doubtful' = doubtful \cup unsure,
         \A d \in unsure : delivery[d] = "Sending" /\ accepted[d] # 0
  PROVE  Mail!MEnd(ended)
<1> DEFINE outcome == [d \in ended |-> delivery'[d]]
<1>1. /\ outcome \in [ended -> {"Sent", "Failed", "Unknown"}]
      /\ \A d \in ended : outcome[d] = delivery'[d]
  OBVIOUS
<1>2. delivery' = [d \in Delivery |-> IF d \in ended THEN outcome[d] ELSE delivery[d]]
  BY <1>1
<1> HIDE DEF outcome
<1>3. \A d \in ended : /\ outcome[d] = "Sent" => accepted[d] # 0
                       /\ outcome[d] = "Failed" => accepted[d] = 0 \/ d \in doubtful'
  BY <1>1
<1>4. unsure \in SUBSET {d \in Delivery : delivery[d] = "Sending" /\ accepted[d] # 0}
  OBVIOUS
<1> QED
  BY <1>1, <1>2, <1>3, <1>4 DEF Mail!MEnd

\* What the worker had in hand, or a dead one left behind, may have been taken.
LEMMA GivenUp ==
  ASSUME TypeOK, delivery' = Become(delivery, {"Sending"}, "Unknown"),
         UNCHANGED <<accepted, doubtful>>
  PROVE  \E ended \in SUBSET Delivery : Mail!MEnd(ended)
<1> DEFINE ended == {d \in Delivery : delivery[d] = "Sending"}
<1>1. /\ delivery' \in [Delivery -> Rows]
      /\ \A d \in Delivery : delivery'[d] = IF delivery[d] = "Sending" THEN "Unknown"
                                            ELSE delivery[d]
  BY DEF TypeOK, Become, Rows
<1>2. /\ \A d \in Delivery \ ended : delivery'[d] = delivery[d]
      /\ \A d \in ended : delivery[d] = "Sending" /\ delivery'[d] = "Unknown"
  BY <1>1
<1>3. ended \in SUBSET Delivery /\ {} \in SUBSET Delivery /\ doubtful' = doubtful \cup {}
  OBVIOUS
<1> HIDE DEF ended
<1>4. Mail!MEnd(ended)
  BY <1>1, <1>2, <1>3, EndMapped
<1> QED
  BY <1>3, <1>4

\* The attempt in hand ends, and the others that say Sending may be given up with it.
LEMMA AttemptEnds ==
  ASSUME IInv, TakenInv, pc \in Attempting, Doubt, UNCHANGED accepted,
         delivery' \in [Delivery -> Rows],
         \A d \in Delivery \ {cur} :
           delivery'[d] = delivery[d] \/ (delivery[d] = "Sending" /\ delivery'[d] = "Unknown"),
         delivery'[cur] \in {"Sending", "Failed"}
  PROVE  \E ended \in SUBSET Delivery : Mail!MEnd(ended)
<1> USE DEF IInv, TypeOK, LoopInv
<1> DEFINE ended == {d \in Delivery : delivery'[d] # delivery[d]}
           unsure == IF pc \in Taken THEN {cur} ELSE {}
<1>1. cur \in Delivery /\ delivery[cur] = "Sending" /\ doubtful' = doubtful \cup unsure
  BY DEF Doubt
<1>2. \A d \in unsure : delivery[d] = "Sending" /\ accepted[d] # 0
  BY <1>1 DEF TakenInv
<1>3. pc \notin Taken /\ cur \notin doubtful => accepted[cur] = 0
  BY <1>1 DEF AcceptInv
<1>4. accepted[cur] = 0 \/ cur \in doubtful'
  BY <1>1, <1>3
<1>5. ended \in SUBSET Delivery /\ unsure \in SUBSET Delivery
  BY <1>1
<1>6. \A d \in ended : /\ delivery[d] = "Sending"
                       /\ delivery'[d] \in {"Sent", "Failed", "Unknown"}
                       /\ delivery'[d] = "Sent" => accepted[d] # 0
                       /\ delivery'[d] = "Failed" => accepted[d] = 0 \/ d \in doubtful'
  BY <1>1, <1>4
<1>7. \A d \in Delivery \ ended : delivery'[d] = delivery[d]
  OBVIOUS
<1>8. TypeOK
  OBVIOUS
<1> HIDE DEF ended, unsure, IInv, TypeOK
<1>9. Mail!MEnd(ended)
  BY <1>1, <1>2, <1>5, <1>6, <1>7, <1>8, EndMapped
<1> QED
  BY <1>5, <1>9

LEMMA MailRefined == IInv /\ TakenInv /\ [Next]_vars => [Mail!MNext]_(Mail!mvars)
<1> SUFFICES ASSUME IInv, TakenInv, [Next]_vars
             PROVE  Mail!MNext \/ UNCHANGED <<delivery, accepted, doubtful>>
  BY DEF Mail!mvars
<1>0. TypeOK /\ LoopInv /\ AcceptInv
  BY DEF IInv
<1>1. CASE Elsewhere \/ Connect \/ Reconnect \/ Tally
  BY <1>1, ElsewhereFootprint DEF Connect, Reconnect, Tally, history
<1>2. CASE Retry
  <2>1. DOMAIN delivery = Delivery
    BY <1>0 DEF TypeOK
  <2>2. Mail!MRetry
    BY <1>2, <2>1 DEF Retry, Become, Retryable, Mail!MRetry
  <2> QED
    BY <2>2 DEF Mail!MNext
<1>3. CASE Recover \/ ConnectFails \/ AuditFails
  <2>1. /\ UNCHANGED <<accepted, doubtful>>
        /\ delivery' = delivery \/ delivery' = Become(delivery, {"Sending"}, "Unknown")
    BY <1>3 DEF Recover, ConnectFails, AuditFails, Abort, Interrupted, history
  <2> QED
    BY <1>0, <2>1, GivenUp DEF Mail!MNext
<1>4. ASSUME NEW d \in Delivery, Skip(d) \/ StartDelivery(d)
      PROVE  Mail!MNext
  <2>1. delivery[d] = "Pending" /\ UNCHANGED <<accepted, doubtful>>
    BY <1>0, <1>4 DEF Skip, StartDelivery, LoopInv, history
  <2>2. \E s \in {"Sending", "Skipped"} : delivery' = [delivery EXCEPT ![d] = s]
    BY <1>4 DEF Skip, StartDelivery
  <2>3. Mail!MTakeUp(d)
    BY <2>1, <2>2 DEF Mail!MTakeUp
  <2> QED
    BY <2>3 DEF Mail!MNext
<1>5. CASE Accept
  <2>1. cur \in Delivery /\ delivery[cur] = "Sending" /\ pc \in Attempting \ Taken
    BY <1>0, <1>5 DEF Accept, TypeOK, LoopInv, Attempting, Taken
  <2>2. accepted[cur] = 0 \/ cur \in doubtful
    BY <1>0, <2>1 DEF AcceptInv
  <2>3. /\ accepted' = [accepted EXCEPT ![cur] = accepted[cur] + 1]
        /\ UNCHANGED <<delivery, doubtful>>
    BY <1>5 DEF Accept
  <2>4. Mail!MSubmit(cur)
    BY <2>1, <2>2, <2>3 DEF Mail!MSubmit
  <2> QED
    BY <2>1, <2>4 DEF Mail!MNext
<1>6. CASE RecordSent
  <2>1. cur \in Delivery /\ delivery[cur] = "Sending" /\ accepted[cur] # 0
    BY <1>0, <1>6 DEF RecordSent, TypeOK, LoopInv, Attempting, TakenInv
  <2>2. /\ delivery' = [delivery EXCEPT ![cur] = "Sent"]
        /\ UNCHANGED <<accepted, doubtful>>
    BY <1>6 DEF RecordSent, history
  <2>3. /\ delivery' \in [Delivery -> Rows] /\ delivery'[cur] = "Sent"
        /\ \A d \in Delivery \ {cur} : delivery'[d] = delivery[d]
    BY <1>0, <2>1, <2>2 DEF TypeOK, Rows
  <2>4. Mail!MEnd({cur})
    <3>1. {cur} \in SUBSET Delivery /\ {} \in SUBSET Delivery /\ doubtful' = doubtful \cup {}
      BY <2>1, <2>2
    <3> QED
      BY <1>0, <2>1, <2>2, <2>3, <3>1, EndMapped
  <2> QED
    BY <2>1, <2>4 DEF Mail!MNext
<1>7. CASE Disconnect \/ RecordFailed \/ LogFails
  <2>1. pc \in Attempting /\ Doubt /\ UNCHANGED accepted /\ cur \in Delivery
    BY <1>0, <1>7 DEF Disconnect, RecordFailed, LogFails, Attempting, Taken, TypeOK
  <2>2. /\ delivery' \in [Delivery -> Rows]
        /\ \A d \in Delivery \ {cur} :
             delivery'[d] = delivery[d] \/ (delivery[d] = "Sending" /\ delivery'[d] = "Unknown")
        /\ delivery'[cur] \in {"Sending", "Failed"}
    <3>1. CASE Disconnect
      BY <1>0, <2>1, <3>1 DEF Disconnect, TypeOK, LoopInv
    <3>2. CASE RecordFailed
      BY <1>0, <2>1, <3>2 DEF RecordFailed, TypeOK, Rows
    <3>3. CASE LogFails
      <4>1. PICK rows \in [Delivery -> Rows] :
              /\ rows = [delivery EXCEPT ![cur] = "Failed"]
              /\ delivery' = Become(rows, {"Sending"}, "Unknown")
        BY <1>0, <3>3 DEF LogFails, Abort, TypeOK, Rows
      <4>2. rows[cur] = "Failed" /\ \A d \in Delivery \ {cur} : rows[d] = delivery[d]
        BY <1>0, <2>1, <4>1 DEF TypeOK
      <4>3. /\ delivery' \in [Delivery -> Rows]
            /\ \A d \in Delivery :
                 delivery'[d] = IF rows[d] \in {"Sending"} THEN "Unknown" ELSE rows[d]
        BY <4>1 DEF Become, Rows
      <4> QED
        BY <2>1, <4>2, <4>3
    <3> QED
      BY <1>7, <3>1, <3>2, <3>3
  <2> QED
    BY <2>1, <2>2, AttemptEnds DEF Mail!MNext
<1> QED
  BY <1>1, <1>2, <1>3, <1>4, <1>5, <1>6, <1>7, NextCases

\* The queue keeps the promises of MailLedger to every recipient, for any number of
\* recipients, retries (also of a campaign that is being sent) and deaths of the worker.
THEOREM NewsletterImplementsMailLedger == Spec => ImplementsMailLedger
<1>1. Init => TakenInv /\ Mail!MInit
  BY DEF Init, TakenInv, Taken, Mail!MInit
<1> QED
  BY <1>1, Invariance, TakenPreserved, MailRefined, PTL
  DEF Spec, ImplementsMailLedger, Mail!MSpec

\* A row that says Sent is of a mail that the SMTP server took.
THEOREM NewsletterSentIsTaken ==
  Spec => [](\A d \in Delivery : delivery[d] = "Sent" => accepted[d] > 0)
<1> DEFINE Inv == \A d \in Delivery : delivery[d] = "Sent" => accepted[d] > 0
<1>1. Init => Inv
  BY DEF Init
<1>2. ASSUME IInv, IInv', Inv, [Mail!MNext]_(Mail!mvars) PROVE Inv'
  <2>1. /\ accepted \in [Delivery -> Nat] /\ accepted' \in [Delivery -> Nat]
        /\ delivery \in [Delivery -> Rows]
    BY <1>2 DEF IInv, TypeOK
  <2>2. ASSUME NEW d \in Delivery, Mail!MTakeUp(d) \/ Mail!MSubmit(d) PROVE Inv'
    BY <1>2, <2>1, <2>2 DEF Mail!MTakeUp, Mail!MSubmit
  <2>3. ASSUME NEW ended \in SUBSET Delivery, Mail!MEnd(ended) PROVE Inv'
    BY <1>2, <2>1, <2>3 DEF Mail!MEnd
  <2>4. CASE Mail!MRetry \/ UNCHANGED Mail!mvars
    BY <1>2, <2>1, <2>4 DEF Mail!MRetry, Mail!mvars
  <2> QED
    BY <1>2, <2>2, <2>3, <2>4 DEF Mail!MNext
<1>3. Init => TakenInv
  BY DEF Init, TakenInv, Taken
<1> HIDE DEF Inv
<1>4. IInv /\ IInv' /\ TakenInv /\ Inv /\ [Next]_vars => Inv'
  BY <1>2, MailRefined
<1>5. Spec => []Inv
  BY <1>1, <1>3, <1>4, Invariance, TakenPreserved, PTL DEF Spec
<1> QED
  BY <1>5 DEF Inv
=============================================================================
