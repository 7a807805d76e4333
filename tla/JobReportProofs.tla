---------------------------- MODULE JobReportProofs --------------------------
(***************************************************************************)
(* Proofs about JobReport: types, that a finished job has a report, that   *)
(* reports tell the results, that none goes out by itself twice, nor       *)
(* without the text of the model that was asked for; for any number of     *)
(* tasks, parts, channels, generations, requests and deaths.               *)
(***************************************************************************)
EXTENDS JobReport, SequenceTheorems, WellFoundedInduction, FiniteSetTheorems, TLAPS

TaskStatus == Final \cup {Open, "gone"}

ReportStatus == {None, "Waiting Review", "Delivering", "Sending", "Delivered", "Error",
                 "Dismissed", "Superseded"}

Request == [report : Report \cup {NoReport},
            status : {"WaitingForTasks", "Queued", "Running", "Success", "Error", "gone"}]

TaskType == task \in [Host -> TaskStatus] /\ orphan \subseteq Host

\* A report that exists has a body.
ReportType ==
  /\ status \in [Report -> ReportStatus]
  /\ revisions \in [Report -> Seq(Body)]
  /\ \A r \in Report : Exists(r) => revisions[r] # <<>>
  /\ generated \in [Report -> 0..MaxGenerations]

\* Only operators ask for more than one.
RequestType == request \in Seq(Request) /\ Len(request) <= edits + 1

WorkerType ==
  worker \in [request : 1..Len(request), report : Report, results : Known] \cup {Resting}

\* The mailer holds a report that exists.
MailerType ==
  /\ mailer \in [report : Report, channel : Channel, failed : BOOLEAN] \cup {Idle}
  /\ mailer # Idle => Exists(mailer.report)
  /\ claimed \in [Report -> Nat] /\ mailed \subseteq Report \X Body

OtherType ==
  /\ sending \subseteq Report /\ deaths \in 0..MaxDeaths /\ edits \in 0..MaxEdits
  /\ early \in BOOLEAN /\ dropped \in BOOLEAN /\ silent \in BOOLEAN

Types == TaskType /\ ReportType /\ RequestType /\ WorkerType /\ MailerType /\ OtherType

\* Rows go only with a note, and the last result makes the report unless a poll stores it.
PresentInv ==
  ~dropped => /\ \A h \in Host : task[h] # "gone"
              /\ NoneOpen(task) /\ ~silent => Existing # {}

\* Reports are made when no task is open any more, and tell what the tasks ended with.
ContentInv ==
  ~early /\ ~dropped =>
    /\ Existing # {} => NoneOpen(task)
    /\ \A r \in Existing, h \in Host : task[h] \in {"Success", "Error"} =>
         Last(revisions[r]).results[h] = task[h]

\* What the model was given tells what the tasks ended with.
ReadInv ==
  ~early /\ ~dropped /\ worker # Resting =>
    /\ NoneOpen(task)
    /\ \A h \in Host : task[h] \in {"Success", "Error"} => worker.results[h] = task[h]

\* A report that waits for review was generated once more than it was taken.
ClaimInv ==
  \A r \in Report :
    /\ claimed[r] <= generated[r]
    /\ status[r] = "Waiting Review" => claimed[r] < generated[r]

IInv == Types /\ PresentInv /\ ContentInv /\ ReadInv /\ ClaimInv

-----------------------------------------------------------------------------
(* Numbers and sequences.                                                  *)

LEMMA ReportsAreNumbers == Report \subseteq Nat /\ NoReport \notin Report
BY PartAssumption DEF Report, Whole, NoReport

LEMMA Least ==
  ASSUME NEW T, T \subseteq Nat, T # {}
  PROVE  \E x \in T : \A y \in T : x <= y
<1> DEFINE R == OpToRel(<, Nat)
<1>1. \A x, y \in Nat : y < x => <<y, x>> \in R
  BY DEF OpToRel
<1>2. IsWellFoundedOn(R, Nat)
  BY NatLessThanWellFounded
<1> HIDE DEF R
<1>3. PICK x \in T : \A y \in T : ~ (<<y, x>> \in R)
  BY <1>2, WFMin
<1>4. x \in Nat /\ \A y \in T : y \in Nat /\ ~(y < x)
  BY <1>1, <1>3
<1> QED
  BY <1>4

LEMMA RevisedLast ==
  ASSUME NEW S, NEW list \in Seq(S), NEW body \in S, NEW same \in BOOLEAN
  PROVE  /\ Revised(list, body, same) \in Seq(S)
         /\ Revised(list, body, same) # <<>>
         /\ Last(Revised(list, body, same)) = body
BY AppendProperties DEF Revised, Last

LEMMA Mapped ==
  ASSUME NEW S, NEW s \in Seq(S), NEW f, DOMAIN f = DOMAIN s, f \in [DOMAIN s -> S]
  PROVE  f \in Seq(S) /\ Len(f) = Len(s)
OBVIOUS

LEMMA LastIn ==
  ASSUME NEW S, NEW s \in Seq(S), s # <<>>
  PROVE  Last(s) \in S
BY DEF Last

-----------------------------------------------------------------------------
(* Generation.                                                             *)

\* A generation within the bound leaves no report above it.
LEMMA GenerationBound ==
  ASSUME ReportType, NEW layout \in SUBSET Report, layout # {}, IsFiniteSet(layout),
         Generation + Cardinality(layout) <= MaxGenerations, NEW r \in Report
  PROVE  generated[r] + 1 <= MaxGenerations
<1> DEFINE made == {p \in Report \X (1..MaxGenerations) : p[2] <= generated[p[1]]}
           own == {r} \X (1..generated[r])
<1>1. generated[r] \in 0..MaxGenerations /\ MaxGenerations \in Nat
  BY BoundsAssumption DEF ReportType
<1>2. IsFiniteSet(made)
  <2>1. IsFiniteSet(Report)
    <3>1. Report = Part \cup {Whole}
      BY DEF Report
    <3> QED
      BY <3>1, FinitePartAssumption, FS_AddElement
  <2>2. IsFiniteSet(1..MaxGenerations)
    BY <1>1, FS_Interval
  <2>3. IsFiniteSet(Report \X (1..MaxGenerations))
    BY <2>1, <2>2, FS_Product
  <2> QED
    BY <2>3, FS_Subset
<1>3. own \in SUBSET made
  BY <1>1
<1>4. Cardinality(own) = generated[r]
  <2>1. IsFiniteSet({r}) /\ Cardinality({r}) = 1
    BY FS_Singleton
  <2>2. IsFiniteSet(1..generated[r]) /\ Cardinality(1..generated[r]) = generated[r]
    <3>1. /\ IsFiniteSet(1..generated[r])
          /\ Cardinality(1..generated[r]) =
               IF 1 > generated[r] THEN 0 ELSE generated[r] - 1 + 1
      <4>1. 1 \in Int /\ generated[r] \in Int
        BY <1>1
      <4> QED
        BY <4>1, FS_Interval
    <3> QED
      BY <1>1, <3>1
  <2>3. Cardinality(own) = Cardinality({r}) * Cardinality(1..generated[r])
    BY <2>1, <2>2, FS_Product
  <2> QED
    BY <1>1, <2>1, <2>2, <2>3
<1>5. Cardinality(own) <= Cardinality(made) /\ Cardinality(made) \in Nat
  BY <1>2, <1>3, FS_Subset, FS_CardinalityType
<1>6. Cardinality(layout) \in Nat /\ Cardinality(layout) # 0
  BY FS_EmptySet, FS_CardinalityType
<1>7. Generation = Cardinality(made)
  BY DEF Generation
<1> QED
  BY <1>1, <1>4, <1>5, <1>6, <1>7

LEMMA LayoutIsSet ==
  \A layout \in Layouts : layout \in SUBSET Report /\ layout # {} /\ IsFiniteSet(layout)
<1> SUFFICES ASSUME NEW layout \in Layouts
             PROVE  layout \in SUBSET Report /\ layout # {} /\ IsFiniteSet(layout)
  OBVIOUS
<1>1. CASE layout = {Whole}
  BY <1>1, FS_Singleton DEF Report
<1>2. ASSUME NEW n \in Part, layout = {p \in Part : p <= n}
      PROVE  layout \in SUBSET Report /\ layout # {} /\ IsFiniteSet(layout)
  <2>1. n \in layout /\ layout \in SUBSET Part
    BY <1>2, PartAssumption
  <2> QED
    BY <2>1, FinitePartAssumption, FS_Subset DEF Report
<1> QED
  BY <1>1, <1>2 DEF Layouts

LEMMA ReadyType ==
  ASSUME RequestType, NEW reports \in SUBSET Report, reports # {}
  PROVE  ReadyRequests(reports) \in Seq(Request)
           /\ Len(ReadyRequests(reports)) = Len(request)
<1> DEFINE parent == CHOOSE r \in reports : \A x \in reports : r <= x
<1>1. parent \in reports
  <2>1. \E r \in reports : \A x \in reports : r <= x
    BY Least, ReportsAreNumbers
  <2> QED
    BY <2>1
<1> HIDE DEF parent
<1>2. [report |-> parent, status |-> "Queued"] \in Request
  BY <1>1 DEF Request
<1>3. \A i \in DOMAIN request : request[i] \in Request
  BY DEF RequestType
<1>4. ReadyRequests(reports) =
        [i \in DOMAIN request |->
           IF request[i].status = "WaitingForTasks"
           THEN [report |-> parent, status |-> "Queued"] ELSE request[i]]
  BY DEF ReadyRequests, parent
<1>5. ReadyRequests(reports) \in [DOMAIN request -> Request]
  BY <1>2, <1>3, <1>4
<1> QED
  BY <1>5, Mapped DEF RequestType

LEMMA GenerateFacts ==
  ASSUME ReportType, RequestType, NEW tasks \in [Host -> TaskStatus],
         NEW included \in SUBSET Final, Generate(tasks, included)
  PROVE  /\ ReportType' /\ request' \in Seq(Request) /\ Len(request') = Len(request)
         /\ \E layout \in SUBSET Report :
              /\ layout # {} /\ request' = ReadyRequests(layout)
              /\ \A r \in layout : /\ status'[r] = "Waiting Review"
                                   /\ Last(revisions'[r]).results = Results(tasks, included)
                                   /\ generated'[r] = generated[r] + 1
              /\ \A r \in Report \ layout :
                   /\ status'[r] = IF Exists(r) THEN "Superseded" ELSE None
                   /\ revisions'[r] = revisions[r] /\ generated'[r] = generated[r]
<1> DEFINE body == [kind |-> "generated", results |-> Results(tasks, included)]
<1>1. PICK layout \in Layouts :
        /\ Generation + Cardinality(layout) <= MaxGenerations
        /\ status' = [r \in Report |->
             IF r \in layout THEN "Waiting Review"
             ELSE IF Exists(r) THEN "Superseded" ELSE None]
        /\ revisions' = [r \in Report |->
             IF r \in layout THEN Revised(revisions[r], body, FALSE) ELSE revisions[r]]
        /\ request' = ReadyRequests(layout)
        /\ generated' = [r \in Report |-> generated[r] + IF r \in layout THEN 1 ELSE 0]
  BY DEF Generate
<1>2. layout \in SUBSET Report /\ layout # {} /\ IsFiniteSet(layout)
  BY LayoutIsSet
<1>3. body \in Body
  BY DEF Body, Known, Results, TaskStatus
<1>4. body.results = Results(tasks, included)
  OBVIOUS
<1> HIDE DEF body
<1>5. ASSUME NEW r \in Report
      PROVE  /\ Revised(revisions[r], body, FALSE) \in Seq(Body)
             /\ Revised(revisions[r], body, FALSE) # <<>>
             /\ Last(Revised(revisions[r], body, FALSE)) = body
  <2>1. revisions[r] \in Seq(Body)
    BY DEF ReportType
  <2> QED
    BY <1>3, <2>1, RevisedLast
<1>6. \A r \in Report : generated[r] + 1 <= MaxGenerations /\ generated[r] \in 0..MaxGenerations
  BY <1>1, <1>2, GenerationBound DEF ReportType
<1>13. \A r \in Report : /\ r \in layout => generated'[r] = generated[r] + 1
                         /\ r \notin layout => generated'[r] = generated[r]
  <2>1. ASSUME NEW r \in Report
        PROVE  generated'[r] = generated[r] + IF r \in layout THEN 1 ELSE 0
    BY <1>1
  <2>2. ASSUME NEW r \in Report PROVE generated[r] + 0 = generated[r]
    BY <1>6
  <2> QED
    BY <2>1, <2>2
<1>7. generated' \in [Report -> 0..MaxGenerations]
  <2>1. ASSUME NEW r \in Report PROVE generated'[r] \in 0..MaxGenerations
    <3>1. /\ generated[r] \in 0..MaxGenerations /\ generated[r] + 1 <= MaxGenerations
          /\ generated'[r] = generated[r] \/ generated'[r] = generated[r] + 1
      BY <1>6, <1>13
    <3> QED
      BY <3>1, BoundsAssumption
  <2> QED
    BY <1>1, <2>1
<1>8. status' \in [Report -> ReportStatus]
  BY <1>1 DEF ReportStatus
<1>9. revisions' \in [Report -> Seq(Body)]
  BY <1>1, <1>5 DEF ReportType
<1>10. \A r \in Report : Exists(r)' => revisions'[r] # <<>>
  BY <1>1, <1>5 DEF ReportType, Exists
<1>11. ReportType'
  BY <1>7, <1>8, <1>9, <1>10 DEF ReportType
<1>12. request' \in Seq(Request) /\ Len(request') = Len(request)
  BY <1>1, <1>2, ReadyType
<1>14. /\ \A r \in layout : status'[r] = "Waiting Review"
       /\ \A r \in Report \ layout :
            status'[r] = IF Exists(r) THEN "Superseded" ELSE None
  BY <1>1, <1>2
<1>15. /\ \A r \in layout : Last(revisions'[r]).results = Results(tasks, included)
       /\ \A r \in Report \ layout : revisions'[r] = revisions[r]
  BY <1>1, <1>2, <1>4, <1>5
<1>16. \E l \in SUBSET Report :
         /\ l # {} /\ request' = ReadyRequests(l)
         /\ \A r \in l : /\ status'[r] = "Waiting Review"
                         /\ Last(revisions'[r]).results = Results(tasks, included)
                         /\ generated'[r] = generated[r] + 1
         /\ \A r \in Report \ l :
              /\ status'[r] = IF Exists(r) THEN "Superseded" ELSE None
              /\ revisions'[r] = revisions[r] /\ generated'[r] = generated[r]
  <2> USE <1>2
  <2> WITNESS layout \in SUBSET Report
  <2> QED
    BY <1>1, <1>13, <1>14, <1>15
<1> QED
  BY <1>11, <1>12, <1>16

\* What a completion may do to reports and requests.
LEMMA CompleteFacts ==
  ASSUME ReportType, RequestType, NEW tasks \in [Host -> TaskStatus],
         NEW included \in SUBSET Final, NEW force \in BOOLEAN,
         Complete(tasks, included, force)
  PROVE  /\ ReportType' /\ request' \in Seq(Request) /\ Len(request') = Len(request)
         /\ \/ UNCHANGED <<status, revisions, generated>>
                 /\ ((Existing # {} /\ ~force) \/ \A h \in Host : tasks[h] \notin included)
            \/ Generate(tasks, included) /\ (Existing = {} \/ force)
<1>1. CASE Existing # {} /\ ~force
  <2>1. request' = ReadyRequests(Existing) /\ UNCHANGED <<status, revisions, generated>>
    BY <1>1 DEF Complete
  <2>2. Existing \in SUBSET Report
    BY DEF Existing
  <2> QED
    BY <1>1, <2>1, <2>2, ReadyType DEF ReportType, Exists
<1>2. CASE ~(Existing # {} /\ ~force) /\ \E h \in Host : tasks[h] \in included
  <2>1. Generate(tasks, included)
    BY <1>2 DEF Complete
  <2> QED
    BY <1>2, <2>1, GenerateFacts
<1>3. CASE ~(Existing # {} /\ ~force) /\ ~(\E h \in Host : tasks[h] \in included)
  <2>1. UNCHANGED <<status, revisions, request, generated>>
    BY <1>3 DEF Complete
  <2> QED
    BY <1>3, <2>1 DEF ReportType, RequestType, Exists
<1> QED
  BY <1>1, <1>2, <1>3
-----------------------------------------------------------------------------
(* Steps that complete the job.                                            *)

\* A task that is final stays what it is.
Advanced(h) == task'[h] = task[h] \/ (task[h] = Open /\ task'[h] \in Final)

\* The job is completed, or the result was not the last one.
Completion ==
  /\ \A h \in Host : Advanced(h)
  /\ task' \in [Host -> TaskStatus]
  /\ early' \in BOOLEAN /\ (early => early') /\ edits' \in edits..MaxEdits
  /\ UNCHANGED <<orphan, activity, deaths, claimed, mailed, dropped, silent>>
  /\ \/ /\ ~NoneOpen(task') /\ UNCHANGED <<status, revisions, request, generated>>
     \/ /\ NoneOpen(task') \/ early'
        /\ \E included \in SUBSET Final, force \in BOOLEAN :
             /\ {"Success", "Error"} \subseteq included
             /\ Complete(task', included, force)
             /\ included = Final \/ \E h \in Host : task'[h] \in included

LEMMA CompleteIfDoneFacts ==
  ASSUME NEW force \in BOOLEAN, CompleteIfDone(task', force)
  PROVE  \/ ~NoneOpen(task') /\ UNCHANGED <<status, revisions, request, generated>>
         \/ /\ NoneOpen(task')
            /\ \E included \in SUBSET Final, f \in BOOLEAN :
                 /\ {"Success", "Error"} \subseteq included
                 /\ Complete(task', included, f)
                 /\ included = Final
<1>1. CASE NoneOpen(task')
  <2>1. Complete(task', Final, force)
    BY <1>1 DEF CompleteIfDone
  <2> QED
    BY <1>1, <2>1 DEF Final
<1>2. CASE ~NoneOpen(task')
  BY <1>2 DEF CompleteIfDone
<1> QED
  BY <1>1, <1>2

LEMMA CancelledFacts ==
  ASSUME TaskType, NEW allowed, task' = Cancelled(InScope(allowed))
  PROVE  task' \in [Host -> TaskStatus] /\ \A h \in Host : Advanced(h)
BY DEF TaskType, TaskStatus, Cancelled, InScope, Advanced, Final

LEMMA CompletionSteps ==
  ASSUME Types,
         \/ \E h \in Host : Result(h)
         \/ \E late \in SUBSET Host : TimeOut(late)
         \/ \E allowed \in SUBSET Host : CancelPending(allowed) \/ FinalizeReport(allowed)
  PROVE  Completion
<1> USE DEF Types
<1>1. ASSUME NEW h \in Host, Result(h) PROVE Completion
  <2>1. /\ UNCHANGED <<orphan, activity, bounds, claimed, mailed, early, dropped, silent>>
        /\ CompleteIfDone(task', FALSE)
    BY <1>1 DEF Result
  <2>2. task' \in [Host -> TaskStatus] /\ \A x \in Host : Advanced(x)
    BY <1>1 DEF Result, TaskType, TaskStatus, Advanced, Final, Open
  <2>3. edits' \in edits..MaxEdits /\ UNCHANGED deaths
    BY <2>1, BoundsAssumption DEF bounds, OtherType
  <2> QED
    BY <2>1, <2>2, <2>3, CompleteIfDoneFacts DEF Completion, OtherType
<1>2. ASSUME NEW late \in SUBSET Host, TimeOut(late) PROVE Completion
  <2>1. /\ UNCHANGED <<orphan, activity, bounds, claimed, mailed, early, dropped, silent>>
        /\ CompleteIfDone(task', TRUE)
    BY <1>2 DEF TimeOut
  <2>2. task' \in [Host -> TaskStatus] /\ \A x \in Host : Advanced(x)
    BY <1>2 DEF TimeOut, TaskType, TaskStatus, Advanced, Final, Open
  <2>3. edits' \in edits..MaxEdits /\ UNCHANGED deaths
    BY <2>1, BoundsAssumption DEF bounds, OtherType
  <2> QED
    BY <2>1, <2>2, <2>3, CompleteIfDoneFacts DEF Completion, OtherType
<1>3. ASSUME NEW allowed \in SUBSET Host, CancelPending(allowed) PROVE Completion
  <2>1. /\ UNCHANGED <<orphan, activity, deaths, claimed, mailed, early, dropped, silent>>
        /\ CompleteIfDone(task', TRUE) /\ Edit
    BY <1>3 DEF CancelPending
  <2>2. task' \in [Host -> TaskStatus] /\ \A x \in Host : Advanced(x)
    BY <1>3, CancelledFacts DEF CancelPending
  <2>3. edits' \in edits..MaxEdits
    BY <2>1, BoundsAssumption DEF Edit, OtherType
  <2> QED
    BY <2>1, <2>2, <2>3, CompleteIfDoneFacts DEF Completion, OtherType
<1>4. ASSUME NEW allowed \in SUBSET Host, FinalizeReport(allowed) PROVE Completion
  <2>1. /\ UNCHANGED <<orphan, activity, deaths, claimed, mailed, dropped, silent>>
        /\ Complete(task', {"Success", "Error"}, TRUE) /\ Edit
        /\ early' = (early \/ ~NoneOpen(task'))
        /\ \E h \in Host : task[h] \in {"Success", "Error"}
    BY <1>4 DEF FinalizeReport
  <2>2. task' \in [Host -> TaskStatus] /\ \A x \in Host : Advanced(x)
    BY <1>4, CancelledFacts DEF FinalizeReport
  <2>3. edits' \in edits..MaxEdits
    BY <2>1, BoundsAssumption DEF Edit, OtherType
  <2>4. \E h \in Host : task'[h] \in {"Success", "Error"}
    BY <2>1, <2>2 DEF Advanced, Open
  <2>5. {"Success", "Error"} \in SUBSET Final
    BY DEF Final
  <2>6. \E included \in SUBSET Final, force \in BOOLEAN :
          /\ {"Success", "Error"} \subseteq included
          /\ Complete(task', included, force)
          /\ included = Final \/ \E h \in Host : task'[h] \in included
    BY <2>1, <2>4, <2>5
  <2>7. early' \in BOOLEAN /\ (early => early') /\ (NoneOpen(task') \/ early')
    BY <2>1 DEF OtherType
  <2> QED
    BY <2>1, <2>2, <2>3, <2>6, <2>7 DEF Completion
<1> QED
  BY <1>1, <1>2, <1>3, <1>4

LEMMA CompletionInv == IInv /\ Completion => IInv'
<1> SUFFICES ASSUME IInv, Completion PROVE IInv'
  OBVIOUS
<1>1. Types /\ PresentInv /\ ContentInv /\ ReadInv /\ ClaimInv
  BY DEF IInv
<1>2. /\ TaskType /\ ReportType /\ RequestType /\ WorkerType /\ MailerType /\ OtherType
  BY <1>1 DEF Types
<1>3. /\ \A h \in Host : Advanced(h)
      /\ task' \in [Host -> TaskStatus]
      /\ early' \in BOOLEAN /\ (early => early') /\ edits' \in edits..MaxEdits
      /\ UNCHANGED <<orphan, activity, deaths, claimed, mailed, dropped, silent>>
  BY DEF Completion
<1>6. ReadInv'
  <2> SUFFICES ASSUME ~early', ~dropped', worker' # Resting
               PROVE  /\ NoneOpen(task')
                      /\ \A h \in Host : task'[h] \in {"Success", "Error"} =>
                           worker'.results[h] = task'[h]
    BY DEF ReadInv, NoneOpen
  <2>1. worker' = worker /\ ~early /\ ~dropped
    BY <1>3 DEF activity
  <2>2. \A h \in Host : task'[h] = task[h]
    BY <1>1, <1>3, <2>1 DEF ReadInv, NoneOpen, Advanced
  <2> QED
    BY <1>1, <2>1, <2>2 DEF ReadInv, NoneOpen
<1>4. CASE ~NoneOpen(task') /\ UNCHANGED <<status, revisions, request, generated>>
  <2>1. Types'
    BY <1>2, <1>3, <1>4 DEF Types, TaskType, ReportType, RequestType, WorkerType,
      MailerType, OtherType, activity, Exists
  <2>2. PresentInv'
    BY <1>1, <1>3, <1>4 DEF PresentInv, Advanced, Final
  <2>3. ContentInv'
    <3>1. ASSUME ~early', ~dropped' PROVE Existing' = {}
      <4>1. Existing = Existing'
        BY <1>4 DEF Existing, Exists
      <4>2. ~NoneOpen(task)
        BY <1>3, <1>4 DEF NoneOpen, Advanced
      <4> QED
        BY <1>1, <1>3, <3>1, <4>1, <4>2 DEF ContentInv
    <3> QED
      BY <3>1 DEF ContentInv
  <2>4. ClaimInv'
    BY <1>1, <1>3, <1>4 DEF ClaimInv
  <2> QED
    BY <1>6, <2>1, <2>2, <2>3, <2>4 DEF IInv
<1>5. ASSUME NoneOpen(task') \/ early',
             NEW included \in SUBSET Final, NEW force \in BOOLEAN,
             {"Success", "Error"} \subseteq included,
             Complete(task', included, force),
             included = Final \/ \E h \in Host : task'[h] \in included
      PROVE  IInv'
  <2>1. /\ ReportType' /\ request' \in Seq(Request) /\ Len(request') = Len(request)
        /\ \/ UNCHANGED <<status, revisions, generated>>
                /\ ((Existing # {} /\ ~force) \/ \A h \in Host : task'[h] \notin included)
           \/ Generate(task', included) /\ (Existing = {} \/ force)
    BY <1>2, <1>3, <1>5, CompleteFacts
  <2>2. CASE UNCHANGED <<status, revisions, generated>>
               /\ ((Existing # {} /\ ~force) \/ \A h \in Host : task'[h] \notin included)
    <3>1. MailerType'
      BY <1>2, <1>3, <2>2 DEF MailerType, activity, Exists
    <3>2. PresentInv'
      <4>1. ASSUME ~dropped' PROVE \A h \in Host : task'[h] # "gone"
        BY <1>1, <1>3, <4>1 DEF PresentInv, Advanced, Final
      <4>2. ASSUME ~dropped', NoneOpen(task'), Existing = {} PROVE FALSE
        <5>1. \A h \in Host : task'[h] \in Final
          BY <1>3, <4>1, <4>2 DEF TaskStatus, NoneOpen
        <5>2. \A h \in Host : task'[h] \notin included
          BY <2>2, <4>2
        <5> QED
          BY <1>5, <5>1, <5>2, HostAssumption
      <4>3. Existing' = Existing
        BY <2>2 DEF Existing, Exists
      <4> QED
        BY <4>1, <4>2, <4>3 DEF PresentInv, NoneOpen
    <3>3. ContentInv'
      <4>1. ASSUME ~early', ~dropped', Existing # {}
            PROVE  /\ NoneOpen(task) /\ \A h \in Host : task'[h] = task[h]
                   /\ ~early /\ ~dropped
        BY <1>1, <1>3, <4>1 DEF ContentInv, Advanced, NoneOpen
      <4>2. Existing' = Existing
        BY <2>2 DEF Existing, Exists
      <4>3. ASSUME ~early', ~dropped', Existing # {}
            PROVE  /\ NoneOpen(task')
                   /\ \A r \in Existing, h \in Host : task'[h] \in {"Success", "Error"} =>
                        Last(revisions[r]).results[h] = task'[h]
        BY <1>1, <4>1, <4>3 DEF ContentInv, NoneOpen
      <4> QED
        BY <2>2, <4>2, <4>3 DEF ContentInv, NoneOpen
    <3>4. ClaimInv'
      BY <1>1, <1>3, <2>2 DEF ClaimInv
    <3> QED
      BY <1>2, <1>3, <1>6, <2>1, <3>1, <3>2, <3>3, <3>4
      DEF IInv, Types, TaskType, RequestType, WorkerType, OtherType, activity
  <2>3. CASE Generate(task', included) /\ (Existing = {} \/ force)
    <3>1. PICK layout \in SUBSET Report :
            /\ layout # {} /\ request' = ReadyRequests(layout)
            /\ \A r \in layout : /\ status'[r] = "Waiting Review"
                                 /\ Last(revisions'[r]).results = Results(task', included)
                                 /\ generated'[r] = generated[r] + 1
            /\ \A r \in Report \ layout :
                 /\ status'[r] = IF Exists(r) THEN "Superseded" ELSE None
                 /\ revisions'[r] = revisions[r] /\ generated'[r] = generated[r]
      BY <1>2, <1>3, <1>5, <2>3, GenerateFacts
    <3>2. \A r \in Report : r \in Existing' <=> r \in Existing \/ r \in layout
      BY <3>1 DEF Existing, Exists, None
    <3>3. MailerType'
      <4>1. mailer # Idle => mailer.report \in Existing'
        BY <1>2, <3>2 DEF MailerType, Existing, Idle
      <4> QED
        BY <1>2, <1>3, <4>1 DEF MailerType, activity, Existing
    <3>4. PresentInv'
      <4>1. Existing' # {}
        BY <3>1, <3>2
      <4> QED
        BY <1>1, <1>3, <4>1 DEF PresentInv, Advanced, Final
    <3>5. ContentInv'
      <4>1. ASSUME ~early', ~dropped', Existing # {}
            PROVE  \A h \in Host : task'[h] = task[h]
        BY <1>1, <1>3, <4>1 DEF ContentInv, Advanced, NoneOpen
      <4>2. ASSUME ~early', ~dropped', NEW r \in Existing', NEW h \in Host,
                   task'[h] \in {"Success", "Error"}
            PROVE  Last(revisions'[r]).results[h] = task'[h]
        <5>1. CASE r \in layout
          BY <1>5, <3>1, <4>2, <5>1 DEF Results
        <5>2. CASE r \notin layout
          <6>1. r \in Existing /\ r \in Report /\ revisions'[r] = revisions[r]
            BY <3>1, <3>2, <4>2, <5>2 DEF Existing
          <6>2. task'[h] = task[h]
            BY <4>1, <4>2, <6>1
          <6> QED
            BY <1>1, <1>3, <4>2, <6>1, <6>2 DEF ContentInv
        <5> QED
          BY <5>1, <5>2
      <4>3. ~early' => NoneOpen(task')
        BY <1>5
      <4> QED
        BY <4>2, <4>3 DEF ContentInv, NoneOpen
    <3>6. ClaimInv'
      <4>1. ASSUME NEW r \in Report
            PROVE  /\ claimed'[r] <= generated'[r]
                   /\ status'[r] = "Waiting Review" => claimed'[r] < generated'[r]
        <5>1. /\ claimed'[r] = claimed[r] /\ claimed[r] \in Nat
              /\ generated[r] \in Nat /\ claimed[r] <= generated[r]
          <6>1. claimed[r] \in Nat
            BY <1>2 DEF MailerType
          <6>2. generated[r] \in Nat
            BY <1>2, BoundsAssumption DEF ReportType
          <6>3. claimed[r] <= generated[r]
            BY <1>1 DEF ClaimInv
          <6>4. claimed' = claimed
            BY <1>3
          <6> QED
            BY <6>1, <6>2, <6>3, <6>4
        <5>2. CASE r \in layout
          <6>1. generated'[r] = generated[r] + 1
            BY <3>1, <5>2
          <6>2. \A c, g \in Nat : c <= g => c <= g + 1 /\ c < g + 1
            OBVIOUS
          <6> QED
            BY <5>1, <6>1, <6>2
        <5>3. CASE r \notin layout
          <6>1. status'[r] # "Waiting Review" /\ generated'[r] = generated[r]
            BY <3>1, <5>3 DEF None
          <6> QED
            BY <5>1, <6>1
        <5> QED
          BY <5>2, <5>3
      <4> QED
        BY <4>1 DEF ClaimInv
    <3> QED
      BY <1>2, <1>3, <1>6, <2>1, <3>3, <3>4, <3>5, <3>6
      DEF IInv, Types, TaskType, RequestType, WorkerType, OtherType, activity
  <2> QED
    BY <2>1, <2>2, <2>3
<1> QED
  BY <1>4, <1>5 DEF Completion
-----------------------------------------------------------------------------
(* The other steps.                                                        *)

\* Results and reports stay as they are, but for how the text was made.
LEMMA KeptInv ==
  ASSUME PresentInv, ContentInv, UNCHANGED <<task, early, dropped, silent>>,
         \A r \in Report :
           /\ Exists(r)' <=> Exists(r)
           /\ Exists(r) => Last(revisions'[r]).results = Last(revisions[r]).results
  PROVE  PresentInv' /\ ContentInv'
<1>1. Existing' = Existing
  BY DEF Existing
<1>2. NoneOpen(task') <=> NoneOpen(task)
  BY DEF NoneOpen
<1>3. PresentInv'
  BY <1>1, <1>2 DEF PresentInv, NoneOpen
<1>4. ContentInv'
  BY <1>1, <1>2 DEF ContentInv, NoneOpen, Existing
<1> QED
  BY <1>3, <1>4

LEMMA DroppedInv == dropped' = TRUE => PresentInv' /\ ContentInv' /\ ReadInv'
BY DEF PresentInv, ContentInv, ReadInv

LEMMA ReadKept ==
  ASSUME ReadInv, UNCHANGED <<task, early, dropped>>, worker' \in {worker, Resting}
  PROVE  ReadInv'
BY DEF ReadInv, NoneOpen

LEMMA ClaimKept ==
  ASSUME ClaimInv, UNCHANGED <<claimed, generated>>,
         \A r \in Report : status'[r] = "Waiting Review" => status[r] = "Waiting Review"
  PROVE  ClaimInv'
BY DEF ClaimInv

\* The bounds and the notes of the past.
LEMMA OtherKept ==
  ASSUME OtherType, Edit \/ UNCHANGED edits, Dies \/ UNCHANGED deaths,
         sending' \subseteq Report, early' \in BOOLEAN, dropped' \in BOOLEAN,
         silent' \in BOOLEAN
  PROVE  OtherType' /\ edits' >= edits /\ edits' \in Nat /\ edits \in Nat
BY BoundsAssumption DEF OtherType, Edit, Dies

Settles(list, i, outcome) == [list EXCEPT ![i].status = outcome]

LEMMA RequestStatus ==
  ASSUME NEW list \in Seq(Request), NEW i \in 1..Len(list),
         NEW outcome \in {"WaitingForTasks", "Queued", "Running", "Success", "Error", "gone"}
  PROVE  /\ Settles(list, i, outcome) \in Seq(Request)
         /\ Len(Settles(list, i, outcome)) = Len(list)
<1>1. DOMAIN list = 1..Len(list) /\ list[i] \in Request
  OBVIOUS
<1>2. [list[i] EXCEPT !.status = outcome] \in Request
  BY <1>1 DEF Request
<1>3. [list EXCEPT ![i] = [list[i] EXCEPT !.status = outcome]] \in Seq(Request)
        /\ Len([list EXCEPT ![i] = [list[i] EXCEPT !.status = outcome]]) = Len(list)
  BY <1>2, ExceptSeq
<1>4. Settles(list, i, outcome) = [list EXCEPT ![i] = [list[i] EXCEPT !.status = outcome]]
  BY DEF Settles
<1> QED
  BY <1>3, <1>4

\* A status that an operator or the mailer sets.
LEMMA StatusKept ==
  ASSUME ReportType, MailerType, NEW r \in Report, NEW s \in ReportStatus,
         Exists(r) <=> s # None, s = "Waiting Review" => status[r] = s,
         status' = [status EXCEPT ![r] = s], UNCHANGED <<revisions, generated>>
  PROVE  /\ ReportType'
         /\ \A x \in Report : /\ Exists(x)' <=> Exists(x)
                              /\ Exists(x) => Last(revisions'[x]).results
                                                = Last(revisions[x]).results
         /\ \A x \in Report : status'[x] = "Waiting Review" => status[x] = "Waiting Review"
<1>1. /\ status' \in [Report -> ReportStatus]
      /\ status'[r] = s /\ \A x \in Report : x # r => status'[x] = status[x]
  BY DEF ReportType
<1>2. \A x \in Report : Exists(x)' <=> Exists(x)
  BY <1>1 DEF Exists
<1> QED
  BY <1>1, <1>2 DEF ReportType

LEMMA OperatorStatus ==
  ASSUME IInv, NEW r \in Report, Dismiss(r) \/ SendBegins(r) \/ SendEnds(r)
  PROVE  IInv'
<1>1. /\ TaskType /\ ReportType /\ RequestType /\ WorkerType /\ MailerType /\ OtherType
      /\ PresentInv /\ ContentInv /\ ReadInv /\ ClaimInv
  BY DEF IInv, Types
<1>2. PICK s \in ReportStatus :
        /\ Exists(r) <=> s # None
        /\ s = "Waiting Review" => status[r] = s
        /\ SetStatus(r, s)
  <2>1. ASSUME Dismiss(r) \/ SendBegins(r)
        PROVE  Exists(r) /\ \E s \in {"Dismissed", "Sending"} : SetStatus(r, s)
    BY <2>1 DEF Dismiss, SendBegins
  <2>2. ASSUME SendEnds(r)
        PROVE  \E s \in {"Delivered", "Error", status[r]} :
                 SetStatus(r, IF Exists(r) THEN s ELSE None)
    BY <2>2 DEF SendEnds
  <2>3. status[r] \in ReportStatus /\ (Exists(r) <=> status[r] # None)
    BY <1>1 DEF ReportType, Exists
  <2>4. /\ {"Dismissed", "Sending", "Delivered", "Error", None} \subseteq ReportStatus
        /\ None \notin {"Dismissed", "Sending", "Delivered", "Error", "Waiting Review"}
    BY DEF ReportStatus, None
  <2>5. CASE Dismiss(r) \/ SendBegins(r)
    BY <2>1, <2>4, <2>5
  <2>6. CASE SendEnds(r) /\ Exists(r)
    BY <2>2, <2>3, <2>4, <2>6
  <2>7. CASE SendEnds(r) /\ ~Exists(r)
    BY <2>2, <2>3, <2>4, <2>7
  <2> QED
    BY <2>5, <2>6, <2>7
<1>3. /\ status' = [status EXCEPT ![r] = s]
      /\ UNCHANGED <<task, orphan, revisions, request, deaths, history>>
  BY <1>2 DEF SetStatus
<1>4. /\ Edit \/ UNCHANGED edits
      /\ sending' \subseteq sending \cup {r}
      /\ UNCHANGED <<worker, mailer>>
  BY DEF Dismiss, SendBegins, SendEnds, activity, Recorded, Concluded
<1>5. /\ ReportType'
      /\ \A x \in Report : /\ Exists(x)' <=> Exists(x)
                           /\ Exists(x) => Last(revisions'[x]).results
                                             = Last(revisions[x]).results
      /\ \A x \in Report : status'[x] = "Waiting Review" => status[x] = "Waiting Review"
  BY <1>1, <1>2, <1>3, StatusKept DEF history
<1>6. PresentInv' /\ ContentInv' /\ ReadInv' /\ ClaimInv'
  BY <1>1, <1>3, <1>4, <1>5, KeptInv, ReadKept, ClaimKept DEF history
<1>7. OtherType' /\ edits' >= edits /\ edits' \in Nat /\ edits \in Nat
  BY <1>1, <1>3, <1>4, OtherKept DEF history, OtherType
<1>8. MailerType'
  <2>1. mailer' # Idle => Exists(mailer.report)'
    BY <1>1, <1>4, <1>5 DEF MailerType, Idle
  <2> QED
    BY <1>1, <1>3, <1>4, <2>1 DEF MailerType, history
<1>9. RequestType' /\ WorkerType' /\ TaskType'
  BY <1>1, <1>3, <1>4, <1>7 DEF RequestType, WorkerType, TaskType
<1> QED
  BY <1>5, <1>6, <1>7, <1>8, <1>9 DEF IInv, Types
\* A revision of a report that exists.
LEMMA RevisionKept ==
  ASSUME ReportType, NEW r \in Report, Exists(r), NEW kind \in {"edited", "ai_generated"},
         NEW results \in Known, NEW same \in BOOLEAN, UNCHANGED <<status, generated>>,
         revisions' = [revisions EXCEPT ![r] =
           Revised(revisions[r], [kind |-> kind, results |-> results], same)]
  PROVE  /\ ReportType'
         /\ \A x \in Report : Exists(x)' <=> Exists(x)
         /\ Last(revisions'[r]).results = results
         /\ \A x \in Report : x # r => revisions'[x] = revisions[x]
<1> DEFINE body == [kind |-> kind, results |-> results]
<1>1. revisions[r] \in Seq(Body) /\ revisions[r] # <<>>
  BY DEF ReportType
<1>3. body \in Body /\ body.results = results
  BY DEF Body
<1> HIDE DEF body
<1>4. /\ Revised(revisions[r], body, same) \in Seq(Body)
      /\ Revised(revisions[r], body, same) # <<>>
      /\ Last(Revised(revisions[r], body, same)) = body
  BY <1>1, <1>3, RevisedLast
<1>5. revisions' = [revisions EXCEPT ![r] = Revised(revisions[r], body, same)]
  BY DEF body
<1>6. /\ revisions' \in [Report -> Seq(Body)]
      /\ revisions'[r] = Revised(revisions[r], body, same)
      /\ \A x \in Report : x # r => revisions'[x] = revisions[x]
  BY <1>4, <1>5 DEF ReportType
<1> QED
  BY <1>3, <1>4, <1>6 DEF ReportType, Exists

\* The results that the body of a report tells.
LEMMA BodyResults ==
  ASSUME ReportType, NEW r \in Report, Exists(r)
  PROVE  Last(revisions[r]).results \in Known
<1>1. revisions[r] \in Seq(Body) /\ revisions[r] # <<>>
  BY DEF ReportType
<1>2. Last(revisions[r]) \in Body
  BY <1>1, LastIn
<1> QED
  BY <1>2 DEF Body

LEMMA SaveInv ==
  ASSUME IInv, NEW r \in Report, Save(r)
  PROVE  IInv'
<1>1. /\ TaskType /\ ReportType /\ RequestType /\ WorkerType /\ MailerType /\ OtherType
      /\ PresentInv /\ ContentInv /\ ReadInv /\ ClaimInv
  BY DEF IInv, Types
<1>2. /\ Edit /\ Exists(r)
      /\ UNCHANGED <<task, orphan, status, request, activity, deaths, history>>
      /\ revisions' = [revisions EXCEPT ![r] =
           Revised(revisions[r], [kind |-> "edited", results |-> Last(revisions[r]).results],
                   FALSE)]
  BY DEF Save
<1>3. /\ ReportType'
      /\ \A x \in Report : /\ Exists(x)' <=> Exists(x)
                           /\ Exists(x) => Last(revisions'[x]).results
                                             = Last(revisions[x]).results
  <2>1. PICK results \in Known : results = Last(revisions[r]).results
    BY <1>1, <1>2, BodyResults
  <2>2. revisions' = [revisions EXCEPT ![r] =
          Revised(revisions[r], [kind |-> "edited", results |-> results], FALSE)]
    BY <1>2, <2>1
  <2>3. /\ ReportType'
        /\ \A x \in Report : Exists(x)' <=> Exists(x)
        /\ Last(revisions'[r]).results = results
        /\ \A x \in Report : x # r => revisions'[x] = revisions[x]
    BY <1>1, <1>2, <2>2, RevisionKept DEF history
  <2> QED
    BY <2>1, <2>3
<1>4. PresentInv' /\ ContentInv' /\ ReadInv' /\ ClaimInv'
  BY <1>1, <1>2, <1>3, KeptInv, ReadKept, ClaimKept DEF history, activity
<1>5. OtherType' /\ edits' >= edits /\ edits' \in Nat /\ edits \in Nat
  BY <1>1, <1>2, OtherKept DEF history, activity, OtherType
<1> QED
  BY <1>1, <1>2, <1>3, <1>4, <1>5
  DEF IInv, Types, TaskType, RequestType, WorkerType, MailerType, activity, history, Exists

\* The worker takes a request, the stale ones are queued again.
Requeued(stale, first, outcome) ==
  [[i \in DOMAIN request |->
      IF i \in stale THEN [request[i] EXCEPT !.status = "Queued"] ELSE request[i]]
    EXCEPT ![first].status = outcome]

LEMMA RequeuedType ==
  ASSUME RequestType, NEW stale \in SUBSET (DOMAIN request), NEW first \in 1..Len(request),
         NEW outcome \in {"Running", "Error"}
  PROVE  /\ Requeued(stale, first, outcome) \in Seq(Request)
         /\ Len(Requeued(stale, first, outcome)) = Len(request)
<1>0. PICK next : next = Requeued(stale, first, outcome)
  OBVIOUS
<1>1. PICK requeued :
        requeued = [i \in DOMAIN request |->
          IF i \in stale THEN [request[i] EXCEPT !.status = "Queued"] ELSE request[i]]
  OBVIOUS
<1>2. DOMAIN request = 1..Len(request) /\ \A i \in DOMAIN request : request[i] \in Request
  BY DEF RequestType
<1>3. \A i \in DOMAIN request : [request[i] EXCEPT !.status = "Queued"] \in Request
  BY <1>2 DEF Request
<1>4. requeued \in [DOMAIN request -> Request]
  BY <1>1, <1>2, <1>3
<1>5. next = [requeued EXCEPT ![first] = [requeued[first] EXCEPT !.status = outcome]]
  BY <1>0, <1>1 DEF Requeued
<1>6. first \in DOMAIN request /\ requeued[first] \in Request
  BY <1>2, <1>4
<1>7. [requeued[first] EXCEPT !.status = outcome] \in Request
  BY <1>6 DEF Request
<1>8. next \in [DOMAIN request -> Request]
  <2> HIDE <1>1
  <2> QED
    BY <1>4, <1>5, <1>7
<1>9. request \in Seq(Request) /\ DOMAIN next = DOMAIN request
  BY <1>8 DEF RequestType
<1> QED
  BY <1>0, <1>8, <1>9, Mapped

LEMMA AiInv ==
  ASSUME IInv, AiWorker
  PROVE  IInv'
<1>1. /\ TaskType /\ ReportType /\ RequestType /\ WorkerType /\ MailerType /\ OtherType
      /\ PresentInv /\ ContentInv /\ ReadInv /\ ClaimInv
  BY DEF IInv, Types
<1>2. /\ UNCHANGED <<task, orphan, status, mailer, sending, bounds, history>>
      /\ ClaimInv'
  BY <1>1, ClaimKept DEF AiWorker, AiClaims, AiAnswers, AiFails, history
<1>3. request' \in Seq(Request) /\ Len(request') = Len(request) /\ WorkerType' /\ ReadInv'
  <2>1. CASE AiClaims
    <3> DEFINE queuedWith(stale) ==
                 stale \cup {i \in DOMAIN request : request[i].status = "Queued"}
               firstOf(stale) ==
                 CHOOSE i \in queuedWith(stale) : \A j \in queuedWith(stale) : i <= j
    <3>1. PICK stale \in SUBSET Stale, outcome \in {"Running", "Error"} :
            /\ queuedWith(stale) # {}
            /\ request' = [[i \in DOMAIN request |->
                 IF i \in stale THEN [request[i] EXCEPT !.status = "Queued"] ELSE request[i]]
                   EXCEPT ![firstOf(stale)].status = outcome]
            /\ \/ /\ Exists(Subject(firstOf(stale)))
                  /\ worker' = [request |-> firstOf(stale), report |-> Subject(firstOf(stale)),
                                results |-> Input(Subject(firstOf(stale)))]
               \/ UNCHANGED worker
      BY <2>1 DEF AiClaims
    <3> DEFINE first == firstOf(stale)
    <3>2. DOMAIN request = 1..Len(request) /\ \A i \in DOMAIN request : request[i] \in Request
      BY <1>1 DEF RequestType
    <3>6. first \in 1..Len(request)
      <4>1. queuedWith(stale) \subseteq 1..Len(request)
        BY <3>2 DEF Stale
      <4> HIDE DEF queuedWith
      <4>2. \E i \in queuedWith(stale) : \A j \in queuedWith(stale) : i <= j
        BY <3>1, <4>1, Least
      <4> QED
        BY <4>1, <4>2
    <3> HIDE DEF first, firstOf, queuedWith
    <3>7. /\ request' = Requeued(stale, first, outcome)
          /\ stale \in SUBSET (DOMAIN request)
      BY <3>1 DEF first, Stale, Requeued
    <3>8. request' \in Seq(Request) /\ Len(request') = Len(request)
      BY <1>1, <3>6, <3>7, RequeuedType
    <3>9. Subject(first) \in Report
      BY <3>2, <3>6 DEF Subject, Request, Report
    <3>10. \/ /\ Exists(Subject(first))
              /\ worker' = [request |-> first, report |-> Subject(first),
                            results |-> Input(Subject(first))]
           \/ UNCHANGED worker
      BY <3>1 DEF first
    <3>11. PICK r \in Report : r = Subject(first)
      BY <3>9
    <3>12. CASE Exists(r) /\ worker' = [request |-> first, report |-> r, results |-> Input(r)]
      <4>1. Last(revisions[r]).results \in Known
        BY <1>1, <3>12, BodyResults
      <4>2. PICK results \in Known :
              /\ results = Input(r)
              /\ \A h \in Host : task[h] \in Final => results[h] = task[h]
        <5>1. Input(r) \in Known
          BY <4>1 DEF Input, Known
        <5>2. \A h \in Host : task[h] \in Final => Input(r)[h] = task[h]
          BY DEF Input
        <5> QED
          BY <5>1, <5>2
      <4>3. worker' = [request |-> first, report |-> r, results |-> results]
        BY <3>12, <4>2
      <4>4. worker'.results = results
        BY <4>3
      <4>5. ~early /\ ~dropped => NoneOpen(task)
        BY <1>1, <3>12 DEF ContentInv, Existing
      <4>6. ReadInv'
        BY <1>2, <4>2, <4>4, <4>5 DEF ReadInv, NoneOpen, Final, history
      <4>7. WorkerType'
        BY <3>6, <3>8, <4>3 DEF WorkerType
      <4> QED
        BY <3>8, <4>6, <4>7
    <3>13. CASE UNCHANGED worker
      BY <1>1, <1>2, <3>8, <3>13, ReadKept DEF WorkerType, history
    <3> QED
      BY <3>10, <3>11, <3>12, <3>13
  <2>2. CASE AiAnswers \/ AiFails
    <3>1. worker # Resting /\ worker' = Resting
            /\ \E outcome \in {"Success", "Error"} : request' = Settled(outcome)
      BY <2>2 DEF AiAnswers, AiFails
    <3>2. worker.request \in 1..Len(request)
      BY <1>1, <3>1 DEF WorkerType
    <3>3. PICK outcome \in {"Success", "Error", "gone"} :
            request' = [request EXCEPT ![worker.request].status = outcome]
      BY <3>1 DEF Settled
    <3>4. request' \in Seq(Request) /\ Len(request') = Len(request)
      <4>1. request \in Seq(Request)
        BY <1>1 DEF RequestType
      <4>2. outcome \in {"WaitingForTasks", "Queued", "Running", "Success", "Error", "gone"}
        OBVIOUS
      <4>3. /\ Settles(request, worker.request, outcome) \in Seq(Request)
            /\ Len(Settles(request, worker.request, outcome)) = Len(request)
        BY <3>2, <4>1, <4>2, RequestStatus
      <4> QED
        BY <3>3, <4>3 DEF Settles
    <3> QED
      BY <1>1, <1>2, <3>1, <3>4, ReadKept DEF WorkerType, history
  <2> QED
    BY <2>1, <2>2 DEF AiWorker
<1>4. ReportType' /\ PresentInv' /\ ContentInv'
  <2>1. CASE UNCHANGED revisions
    <3>1. ReportType' /\ \A x \in Report : Exists(x)' <=> Exists(x)
      BY <1>1, <1>2, <2>1 DEF ReportType, Exists, history
    <3> QED
      BY <1>1, <1>2, <2>1, <3>1, KeptInv DEF history
  <2>2. CASE /\ AiAnswers /\ Exists(worker.report) /\ request[worker.request].status # "gone"
    <3>1. PICK r \in Report, results \in Known :
            r = worker.report /\ results = worker.results /\ worker # Resting
      BY <1>1, <2>2 DEF AiAnswers, WorkerType
    <3>2. revisions' = [revisions EXCEPT ![r] =
            Revised(revisions[r], [kind |-> "ai_generated", results |-> results], TRUE)]
      BY <2>2, <3>1 DEF AiAnswers
    <3>3. Exists(r)
      BY <2>2, <3>1
    <3>4. /\ ReportType'
          /\ \A x \in Report : Exists(x)' <=> Exists(x)
          /\ Last(revisions'[r]).results = results
          /\ \A x \in Report : x # r => revisions'[x] = revisions[x]
      BY <1>1, <1>2, <3>2, <3>3, RevisionKept DEF history
    <3>5. Existing' = Existing
      BY <3>4 DEF Existing
    <3>6. PresentInv'
      BY <1>1, <1>2, <3>5 DEF PresentInv, NoneOpen, history
    <3>7. ContentInv'
      <4>1. ~early /\ ~dropped =>
              \A h \in Host : task[h] \in {"Success", "Error"} => results[h] = task[h]
        BY <1>1, <3>1 DEF ReadInv
      <4> QED
        BY <1>1, <1>2, <3>4, <3>5, <4>1 DEF ContentInv, NoneOpen, Existing, history
    <3> QED
      BY <3>4, <3>6, <3>7
  <2> QED
    BY <2>1, <2>2 DEF AiWorker, AiClaims, AiAnswers, AiFails
<1> QED
  BY <1>1, <1>2, <1>3, <1>4
  DEF IInv, Types, TaskType, RequestType, MailerType, OtherType, bounds, history, Exists

LEMMA RequestAiInv ==
  ASSUME IInv, NEW r \in Report, RequestAi(r)
  PROVE  IInv'
<1>1. /\ TaskType /\ ReportType /\ RequestType /\ WorkerType /\ MailerType /\ OtherType
      /\ PresentInv /\ ContentInv /\ ReadInv /\ ClaimInv
  BY DEF IInv, Types
<1>2. /\ Edit /\ request' = Append(request, [report |-> r, status |-> "Queued"])
      /\ UNCHANGED <<task, orphan, status, revisions, activity, deaths, history>>
  BY DEF RequestAi
<1>3. [report |-> r, status |-> "Queued"] \in Request
  BY DEF Request
<1>4. request' \in Seq(Request) /\ Len(request') = Len(request) + 1
  BY <1>1, <1>2, <1>3, AppendProperties DEF RequestType
<1>5. Len(request) \in Nat /\ edits \in Nat /\ edits' = edits + 1
  BY <1>1, <1>2, BoundsAssumption DEF RequestType, OtherType, Edit
<1>6. RequestType'
  BY <1>1, <1>4, <1>5 DEF RequestType
<1>7. WorkerType'
  BY <1>1, <1>2, <1>4, <1>5 DEF WorkerType, activity
<1>8. OtherType'
  BY <1>1, <1>2, OtherKept DEF history, activity, OtherType
<1>9. ReportType' /\ PresentInv' /\ ContentInv' /\ ReadInv' /\ ClaimInv'
  <2>1. \A x \in Report : Exists(x)' <=> Exists(x)
    BY <1>2 DEF Exists
  <2> QED
    BY <1>1, <1>2, <2>1, KeptInv, ReadKept, ClaimKept DEF history, activity, ReportType, Exists
<1> QED
  BY <1>1, <1>2, <1>6, <1>7, <1>8, <1>9
  DEF IInv, Types, TaskType, MailerType, activity, history, Exists

LEMMA RemovalInv ==
  ASSUME IInv, NEW r \in Report, DeleteReport(r) \/ Expire(r)
  PROVE  IInv'
<1>1. /\ TaskType /\ ReportType /\ RequestType /\ WorkerType /\ MailerType /\ OtherType
      /\ PresentInv /\ ContentInv /\ ReadInv /\ ClaimInv
  BY DEF IInv, Types
<1>2. /\ Edit /\ Exists(r) /\ Removed(r) /\ UNCHANGED worker
      /\ \E i \in {1, 2} : request' = [j \in DOMAIN request |->
           IF request[j].report = r
           THEN IF i = 1 THEN [request[j] EXCEPT !.report = NoReport]
                ELSE [request[j] EXCEPT !.status = "gone"]
           ELSE request[j]]
  BY DEF DeleteReport, Expire
<1>3. /\ status' = [status EXCEPT ![r] = None]
      /\ revisions' = [revisions EXCEPT ![r] = <<>>]
      /\ mailer' = (IF mailer.report = r THEN Idle ELSE mailer)
      /\ dropped' = TRUE
      /\ UNCHANGED <<task, orphan, sending, deaths, generated, claimed, mailed, early, silent>>
  BY <1>2 DEF Removed
<1>4. request' \in Seq(Request) /\ Len(request') = Len(request)
  <2>1. \A j \in DOMAIN request :
          /\ request[j] \in Request
          /\ [request[j] EXCEPT !.report = NoReport] \in Request
          /\ [request[j] EXCEPT !.status = "gone"] \in Request
    <3>1. \A j \in DOMAIN request : request[j] \in Request
      BY <1>1 DEF RequestType
    <3> QED
      BY <3>1 DEF Request
  <2>2. request' \in [DOMAIN request -> Request]
    BY <1>2, <2>1
  <2> QED
    BY <1>1, <2>2, Mapped DEF RequestType
<1>5. /\ status' \in [Report -> ReportStatus] /\ revisions' \in [Report -> Seq(Body)]
      /\ status'[r] = None
      /\ \A x \in Report : x # r => status'[x] = status[x] /\ revisions'[x] = revisions[x]
  <2>1. None \in ReportStatus /\ <<>> \in Seq(Body)
    BY DEF ReportStatus
  <2>2. status \in [Report -> ReportStatus] /\ revisions \in [Report -> Seq(Body)]
    BY <1>1 DEF ReportType
  <2> QED
    BY <1>3, <2>1, <2>2
<1>6. ReportType' /\ ClaimInv'
  BY <1>1, <1>3, <1>5, ClaimKept DEF ReportType, Exists, None
<1>7. MailerType'
  <2>1. ASSUME mailer' # Idle PROVE mailer' = mailer /\ Exists(mailer.report)'
    <3>1. mailer' = mailer /\ mailer.report # r
      BY <1>3, <2>1
    <3>2. mailer.report \in Report /\ Exists(mailer.report)
      BY <1>1, <2>1, <3>1 DEF MailerType
    <3> QED
      BY <1>5, <3>1, <3>2 DEF Exists
  <2> QED
    BY <1>1, <1>3, <2>1 DEF MailerType
<1>8. OtherType' /\ edits' >= edits /\ edits' \in Nat /\ edits \in Nat
  BY <1>1, <1>2, <1>3, OtherKept DEF OtherType
<1> QED
  BY <1>1, <1>2, <1>3, <1>4, <1>6, <1>7, <1>8, DroppedInv
  DEF IInv, Types, TaskType, RequestType, WorkerType

\* Operators publish a report or delete an endpoint; the server restarts.
LEMMA QuietInv ==
  ASSUME IInv,
         \/ \E r \in Report : PublishBegins(r)
         \/ \E h \in Host : DeleteHost(h)
         \/ Restart
  PROVE  IInv'
<1>1. /\ TaskType /\ ReportType /\ RequestType /\ WorkerType /\ MailerType /\ OtherType
      /\ PresentInv /\ ContentInv /\ ReadInv /\ ClaimInv
  BY DEF IInv, Types
<1>2. /\ UNCHANGED <<task, status, revisions, request, history>>
      /\ Edit \/ UNCHANGED edits
      /\ Dies \/ UNCHANGED deaths
      /\ sending' \subseteq Report /\ orphan' \subseteq Host
      /\ worker' \in {worker, Resting} /\ mailer' \in {mailer, Idle}
  <2>1. CASE \E r \in Report : PublishBegins(r)
    BY <1>1, <2>1 DEF PublishBegins, rows, Recorded, OtherType, TaskType
  <2>2. CASE \E h \in Host : DeleteHost(h)
    BY <1>1, <2>2 DEF DeleteHost, activity, OtherType, TaskType
  <2>3. CASE Restart
    BY <1>1, <2>3 DEF Restart, Dies, rows, TaskType
  <2> QED
    BY <2>1, <2>2, <2>3
<1>3. \A x \in Report : Exists(x)' <=> Exists(x)
  BY <1>2 DEF Exists
<1>4. ReportType' /\ PresentInv' /\ ContentInv' /\ ReadInv' /\ ClaimInv'
  BY <1>1, <1>2, <1>3, KeptInv, ReadKept, ClaimKept DEF history, ReportType, Exists
<1>5. OtherType' /\ edits' >= edits /\ edits' \in Nat /\ edits \in Nat
  BY <1>1, <1>2, OtherKept DEF history, OtherType
<1>6. MailerType' /\ WorkerType'
  BY <1>1, <1>2, <1>3 DEF MailerType, WorkerType, history, Exists
<1>7. RequestType' /\ TaskType'
  BY <1>1, <1>2, <1>5 DEF RequestType, TaskType
<1> QED
  BY <1>4, <1>5, <1>6, <1>7 DEF IInv, Types

\* The rows of the tasks go, or a result is stored and the server dies.
LEMMA LostInv ==
  ASSUME IInv, DeleteJob \/ \E h \in Host : ResultCut(h)
  PROVE  IInv'
<1>1. /\ TaskType /\ ReportType /\ RequestType /\ WorkerType /\ MailerType /\ OtherType
      /\ PresentInv /\ ContentInv /\ ReadInv /\ ClaimInv
  BY DEF IInv, Types
<1>2. /\ UNCHANGED <<orphan, status, revisions, request, generated, claimed, mailed, early, silent>>
      /\ Edit \/ UNCHANGED edits
      /\ Dies \/ UNCHANGED deaths
      /\ dropped' = TRUE /\ task' \in [Host -> TaskStatus]
      /\ sending' \subseteq Report
      /\ worker' \in {worker, Resting} /\ mailer' \in {mailer, Idle}
  <2>1. CASE DeleteJob
    BY <1>1, <2>1 DEF DeleteJob, activity, OtherType, TaskType, TaskStatus
  <2>2. CASE \E h \in Host : ResultCut(h)
    <3>1. PICK h \in Host : ResultCut(h)
      BY <2>2
    <3>2. task' \in [Host -> TaskStatus]
      BY <1>1, <3>1 DEF ResultCut, TaskType, TaskStatus, Final
    <3> QED
      BY <3>1, <3>2 DEF ResultCut, Dies
  <2> QED
    BY <2>1, <2>2
<1>3. \A x \in Report : Exists(x)' <=> Exists(x)
  BY <1>2 DEF Exists
<1>4. ReportType' /\ ClaimInv' /\ PresentInv' /\ ContentInv' /\ ReadInv'
  BY <1>1, <1>2, <1>3, ClaimKept, DroppedInv DEF ReportType, Exists
<1>5. OtherType' /\ edits' >= edits /\ edits' \in Nat /\ edits \in Nat
  BY <1>1, <1>2, OtherKept DEF OtherType
<1>6. MailerType' /\ WorkerType'
  BY <1>1, <1>2, <1>3 DEF MailerType, WorkerType, Exists
<1>7. RequestType' /\ TaskType'
  BY <1>1, <1>2, <1>5 DEF RequestType, TaskType
<1> QED
  BY <1>4, <1>5, <1>6, <1>7 DEF IInv, Types

\* A poll ends a task and completes nothing.
LEMMA PollRejectsInv ==
  ASSUME IInv, NEW h \in Host, PollRejects(h)
  PROVE  IInv'
<1>1. /\ TaskType /\ ReportType /\ RequestType /\ WorkerType /\ MailerType /\ OtherType
      /\ PresentInv /\ ContentInv /\ ReadInv /\ ClaimInv
  BY DEF IInv, Types
<1>2. /\ UNCHANGED <<orphan, status, revisions, request, worker, mailer, sending, deaths, edits,
                     generated, claimed, mailed, early, dropped>>
      /\ silent' = (silent \/ NoneOpen(task'))
  BY DEF PollRejects, activity, bounds
<1>3. /\ task' \in [Host -> TaskStatus] /\ ~NoneOpen(task)
      /\ \A x \in Host : task[x] # "gone" => task'[x] # "gone"
  BY <1>1 DEF PollRejects, TaskType, TaskStatus, Final, NoneOpen
<1>4. Existing' = Existing
  BY <1>2 DEF Existing, Exists
<1>5. PresentInv'
  BY <1>1, <1>2, <1>3, <1>4 DEF PresentInv, NoneOpen
<1>6. ContentInv' /\ ReadInv'
  BY <1>1, <1>2, <1>3, <1>4 DEF ContentInv, ReadInv
<1>7. TaskType' /\ ReportType' /\ MailerType' /\ ClaimInv'
  BY <1>1, <1>2, <1>3 DEF TaskType, ReportType, MailerType, ClaimInv, Exists
<1>8. RequestType' /\ WorkerType' /\ OtherType'
  BY <1>1, <1>2 DEF RequestType, WorkerType, OtherType
<1> QED
  BY <1>5, <1>6, <1>7, <1>8 DEF IInv, Types

LEMMA MailedType ==
  ASSUME ReportType, mailed \subseteq Report \X Body, NEW r \in Report, Exists(r),
         NEW channel, Mail(r, channel)
  PROVE  mailed' \subseteq Report \X Body
<1>1. Last(revisions[r]) \in Body
  BY LastIn DEF ReportType
<1> QED
  BY <1>1 DEF Mail

LEMMA ClaimsInv ==
  ASSUME IInv, NEW r \in Report, MailerClaims(r)
  PROVE  IInv'
<1>1. /\ TaskType /\ ReportType /\ RequestType /\ WorkerType /\ MailerType /\ OtherType
      /\ PresentInv /\ ContentInv /\ ReadInv /\ ClaimInv
  BY DEF IInv, Types
<1>2. /\ status[r] = "Waiting Review" /\ Exists(r) /\ Channel # {}
      /\ status' = [status EXCEPT ![r] = "Delivering"]
      /\ claimed' = [claimed EXCEPT ![r] = claimed[r] + 1]
      /\ UNCHANGED <<task, orphan, revisions, request, worker, sending, bounds,
                     generated, early, dropped, silent>>
  BY DEF MailerClaims, Taken, Exists, None
<1>3. "Delivering" \in ReportStatus /\ "Delivering" # None /\ "Delivering" # "Waiting Review"
  BY DEF ReportStatus, None
<1>4. /\ ReportType'
      /\ \A x \in Report : /\ Exists(x)' <=> Exists(x)
                           /\ Exists(x) => Last(revisions'[x]).results
                                             = Last(revisions[x]).results
      /\ \A x \in Report : status'[x] = "Waiting Review" => status[x] = "Waiting Review"
  BY <1>1, <1>2, <1>3, StatusKept
<1>5. PresentInv' /\ ContentInv' /\ ReadInv'
  BY <1>1, <1>2, <1>4, KeptInv, ReadKept
<1>6. /\ claimed' \in [Report -> Nat] /\ claimed'[r] = claimed[r] + 1
      /\ \A x \in Report : x # r => claimed'[x] = claimed[x]
  <2>1. claimed \in [Report -> Nat] /\ claimed[r] + 1 \in Nat
    BY <1>1 DEF MailerType
  <2> QED
    BY <1>2, <2>1
<1>7. ClaimInv'
  <2>1. claimed[r] < generated[r] /\ claimed[r] \in Nat /\ generated[r] \in Nat
    <3>1. claimed[r] \in Nat
      BY <1>1 DEF MailerType
    <3>2. generated[r] \in Nat
      BY <1>1, BoundsAssumption DEF ReportType
    <3>3. claimed[r] < generated[r]
      BY <1>1, <1>2 DEF ClaimInv
    <3> QED
      BY <3>1, <3>2, <3>3
  <2>2. claimed'[r] <= generated[r] /\ status'[r] # "Waiting Review"
    <3>1. claimed'[r] <= generated[r]
      BY <1>6, <2>1
    <3>2. status'[r] = "Delivering"
      BY <1>1, <1>2 DEF ReportType
    <3> QED
      BY <3>1, <3>2
  <2> QED
    BY <1>1, <1>2, <1>4, <1>6, <2>2 DEF ClaimInv
<1>8. MailerType'
  <2>1. PICK channel \in Channel :
          /\ mailer' = [report |-> r, channel |-> channel, failed |-> FALSE]
          /\ Mail(r, channel)
    <3>1. (IF "email" \in Channel THEN "email" ELSE "confluence") \in Channel
      BY <1>2, ChannelAssumption
    <3> QED
      BY <3>1 DEF MailerClaims
  <2>2. mailed' \subseteq Report \X Body
    BY <1>1, <1>2, <2>1, MailedType DEF MailerType
  <2>3. mailer' \in [report : Report, channel : Channel, failed : BOOLEAN] /\ mailer'.report = r
    BY <2>1
  <2> QED
    BY <1>2, <1>4, <1>6, <2>2, <2>3 DEF MailerType
<1> QED
  BY <1>1, <1>2, <1>4, <1>5, <1>7, <1>8
  DEF IInv, Types, TaskType, RequestType, WorkerType, OtherType, bounds

LEMMA ServedInv ==
  ASSUME IInv, MailerServed
  PROVE  IInv'
<1>1. /\ TaskType /\ ReportType /\ RequestType /\ WorkerType /\ MailerType /\ OtherType
      /\ PresentInv /\ ContentInv /\ ReadInv /\ ClaimInv
  BY DEF IInv, Types
<1> DEFINE r == mailer.report
<1>2. /\ mailer # Idle /\ r \in Report /\ Exists(r)
      /\ UNCHANGED <<task, orphan, revisions, request, worker, sending, bounds,
                     generated, claimed, early, dropped, silent>>
  BY <1>1 DEF MailerServed, MailerType
<1>3. \/ /\ "confluence" \in Channel /\ Mail(r, "confluence") /\ UNCHANGED status
         /\ \E bad \in BOOLEAN :
              mailer' = [report |-> r, channel |-> "confluence", failed |-> bad]
      \/ /\ mailer' = Idle /\ UNCHANGED mailed
         /\ \E s \in {"Error", "Delivered"} : status' = [status EXCEPT ![r] = s]
  <2>1. mailer.failed \in BOOLEAN
    BY <1>1, <1>2 DEF MailerType
  <2> QED
    BY <2>1 DEF MailerServed
<1> HIDE DEF r
<1>4. /\ ReportType'
      /\ \A x \in Report : /\ Exists(x)' <=> Exists(x)
                           /\ Exists(x) => Last(revisions'[x]).results
                                             = Last(revisions[x]).results
      /\ \A x \in Report : status'[x] = "Waiting Review" => status[x] = "Waiting Review"
  <2>1. CASE UNCHANGED status
    BY <1>1, <1>2, <2>1 DEF ReportType, Exists
  <2>2. ASSUME NEW s \in {"Error", "Delivered"}, status' = [status EXCEPT ![r] = s]
        PROVE  /\ ReportType'
               /\ \A x \in Report : /\ Exists(x)' <=> Exists(x)
                                    /\ Exists(x) => Last(revisions'[x]).results
                                                      = Last(revisions[x]).results
               /\ \A x \in Report :
                    status'[x] = "Waiting Review" => status[x] = "Waiting Review"
    <3>1. s \in ReportStatus /\ s # None /\ s # "Waiting Review"
      BY DEF ReportStatus, None
    <3> QED
      BY <1>1, <1>2, <2>2, <3>1, StatusKept
  <2> QED
    BY <1>3, <2>1, <2>2
<1>5. PresentInv' /\ ContentInv' /\ ReadInv' /\ ClaimInv'
  BY <1>1, <1>2, <1>4, KeptInv, ReadKept, ClaimKept
<1>6. MailerType'
  <2>1. mailed' \subseteq Report \X Body
    BY <1>1, <1>2, <1>3, MailedType DEF MailerType
  <2>2. /\ mailer' \in [report : Report, channel : Channel, failed : BOOLEAN] \cup {Idle}
        /\ mailer' # Idle => mailer'.report = r
    BY <1>2, <1>3
  <2> QED
    BY <1>1, <1>2, <1>4, <2>1, <2>2 DEF MailerType
<1> QED
  BY <1>1, <1>2, <1>4, <1>5, <1>6
  DEF IInv, Types, TaskType, RequestType, WorkerType, OtherType, bounds

-----------------------------------------------------------------------------
(* The invariant and the theorems.                                         *)

LEMMA InitInv == Init => IInv
<1> SUFFICES ASSUME Init PROVE IInv
  OBVIOUS
<1>1. TaskType /\ WorkerType /\ OtherType
  <2>1. TaskType
    BY DEF Init, TaskType, TaskStatus
  <2>2. WorkerType
    BY DEF Init, WorkerType
  <2>3. OtherType
    <3>1. deaths \in 0..MaxDeaths /\ edits \in 0..MaxEdits
      BY BoundsAssumption DEF Init
    <3>2. /\ early \in BOOLEAN /\ dropped \in BOOLEAN /\ silent \in BOOLEAN
          /\ sending \subseteq Report
      BY DEF Init
    <3> QED
      BY <3>1, <3>2 DEF OtherType
  <2> QED
    BY <2>1, <2>2, <2>3
<1>2. Existing = {}
  BY DEF Init, Existing, Exists
<1>3. ReportType /\ MailerType /\ ClaimInv
  <2>1. <<>> \in Seq(Body)
    OBVIOUS
  <2> QED
    BY <1>2, <2>1, BoundsAssumption
    DEF Init, ReportType, ReportStatus, MailerType, ClaimInv, Exists, Existing, None
<1>4. RequestType
  <2>1. [report |-> NoReport, status |-> "WaitingForTasks"] \in Request
    BY DEF Request
  <2> QED
    BY <2>1 DEF Init, RequestType
<1>5. ~NoneOpen(task)
  BY HostAssumption DEF Init, NoneOpen
<1>6. PresentInv /\ ContentInv /\ ReadInv
  BY <1>2, <1>5 DEF Init, PresentInv, ContentInv, ReadInv, Open
<1> QED
  BY <1>1, <1>3, <1>4, <1>6 DEF IInv, Types

LEMMA NextInv == IInv /\ [Next]_vars => IInv'
<1> SUFFICES ASSUME IInv, [Next]_vars PROVE IInv'
  OBVIOUS
<1>1. CASE \/ \E h \in Host : Result(h)
           \/ \E late \in SUBSET Host : TimeOut(late)
           \/ \E allowed \in SUBSET Host : CancelPending(allowed) \/ FinalizeReport(allowed)
  BY <1>1, CompletionSteps, CompletionInv DEF IInv
<1>2. CASE DeleteJob \/ \E h \in Host : ResultCut(h)
  BY <1>2, LostInv
<1>10. ASSUME NEW h \in Host, PollRejects(h) PROVE IInv'
  BY <1>10, PollRejectsInv
<1>3. CASE \/ \E r \in Report : PublishBegins(r)
           \/ \E h \in Host : DeleteHost(h)
           \/ Restart
  BY <1>3, QuietInv
<1>4. ASSUME NEW r \in Report, Dismiss(r) \/ SendBegins(r) \/ SendEnds(r)
      PROVE  IInv'
  BY <1>4, OperatorStatus
<1>5. ASSUME NEW r \in Report, Save(r) \/ RequestAi(r) PROVE IInv'
  BY <1>5, SaveInv, RequestAiInv
<1>6. ASSUME NEW r \in Report, DeleteReport(r) \/ Expire(r) PROVE IInv'
  BY <1>6, RemovalInv
<1>7. CASE AiWorker
  BY <1>7, AiInv
<1>8. CASE Mailer
  BY <1>8, ClaimsInv, ServedInv DEF Mailer
<1>9. CASE UNCHANGED vars
  <2>1. UNCHANGED <<task, orphan, status, revisions, request, worker, mailer, sending,
                    deaths, edits, generated, claimed, mailed, early, dropped, silent>>
    BY <1>9 DEF vars, rows, activity, bounds, history
  <2> QED
    BY <2>1 DEF IInv, Types, TaskType, ReportType, RequestType, WorkerType, MailerType,
                OtherType, PresentInv, ContentInv, ReadInv, ClaimInv, Existing, Exists, NoneOpen
<1> QED
  BY <1>1, <1>2, <1>3, <1>4, <1>5, <1>6, <1>7, <1>8, <1>9, <1>10 DEF Next, Operator

LEMMA Invariant == Spec => []IInv
<1> QED
  BY InitInv, NextInv, PTL DEF Spec

\* Every variable keeps its type, whatever the operators, the agents, the model and the
\* mailer do and whenever the server dies.
THEOREM ReportsTypeCorrect == Spec => []TypeOK
<1>1. IInv => TypeOK
  <2> SUFFICES ASSUME IInv PROVE TypeOK
    OBVIOUS
  <2>1. Len(request) <= MaxEdits + 1
    <3>1. edits \in 0..MaxEdits /\ Len(request) <= edits + 1 /\ Len(request) \in Nat
      BY DEF IInv, Types, OtherType, RequestType
    <3> QED
      BY <3>1, BoundsAssumption
  <2> QED
    BY <2>1 DEF IInv, Types, TaskType, TaskStatus, ReportType, ReportStatus, RequestType,
                Request, WorkerType, MailerType, OtherType, TypeOK
<1> QED
  BY <1>1, Invariant, PTL

\* A job of which every task is final has a report unless a poll ended the last one, a row
\* was deleted or the server died before it made the report, for any number of tasks.
THEOREM ReportsFinishedIsReported == Spec => []FinishedIsReported
<1>1. IInv => FinishedIsReported
  BY DEF IInv, PresentInv, FinishedIsReported
<1> QED
  BY <1>1, Invariant, PTL

\* A report tells every endpoint's result, through edits, revisions of the model and
\* later generations, for any number of parts.
THEOREM ReportsAreWhole == Spec => []ReportIsWhole
<1>1. IInv => ReportIsWhole
  BY DEF IInv, ContentInv, ReportIsWhole
<1> QED
  BY <1>1, Invariant, PTL

\* No report goes out by itself more often than it was generated, for any number of
\* rounds of the mailer and deaths of the server.
THEOREM ReportsAutoOnce == Spec => []AutoOncePerGeneration
<1>1. IInv => AutoOncePerGeneration
  BY DEF IInv, ClaimInv, AutoOncePerGeneration
<1> QED
  BY <1>1, Invariant, PTL
-----------------------------------------------------------------------------
(* The text without the model is not mailed in place of the model's.       *)

\* A request knows its report from the moment it is queued, and the report was generated.
Asked ==
  \A i \in DOMAIN request :
    /\ request[i].status # "gone"
    /\ request[i].report = NoReport <=> request[i].status = "WaitingForTasks"
    /\ request[i].report # NoReport => generated[request[i].report] # 0

\* No request waits for the tasks once there is a report.
Readied == Existing # {} => \A i \in DOMAIN request : request[i].status # "WaitingForTasks"

\* The worker works on the report that its request is about.
Bound == worker # Resting => request[worker.request].report = worker.report

\* A report that was never generated is not there and was not mailed.
Unmade == \A r \in Report : generated[r] = 0 => ~Exists(r) /\ \A m \in mailed : m[1] # r

\* The model was asked about this report only, which was generated once.
Only(r) ==
  /\ request # <<>> /\ \A i \in DOMAIN request : request[i].report = r
  /\ generated[r] = 1

Answered == \E i \in DOMAIN request : request[i].status = "Success"

\* Somebody has replaced the text that was generated.
Replaced(r) == Last(revisions[r]).kind # "generated"

NoneMailed(r) == \A m \in mailed : m[1] = r => m[2].kind # "generated"

\* After the answer, and while the mailer holds the report, the text is replaced.
Rewritten(r) ==
  Only(r) => /\ Answered => Replaced(r)
             /\ mailer.report = r => Replaced(r)
             /\ NoneMailed(r)

FallbackInv ==
  /\ WithAi => request # <<>>
  /\ ~dropped => /\ Asked /\ Readied /\ Bound /\ Unmade
                 /\ WithAi => \A r \in Report : Rewritten(r)

LEMMA InitFallback == Init => FallbackInv
<1> SUFFICES ASSUME Init PROVE FallbackInv
  OBVIOUS
<1>1. Existing = {}
  BY DEF Init, Existing, Exists
<1>2. Asked /\ Readied
  BY <1>1 DEF Init, Asked, Readied, NoReport
<1>3. Bound /\ Unmade
  BY DEF Init, Bound, Unmade, Exists
<1>4. \A r \in Report : Rewritten(r)
  BY DEF Init, Rewritten, Only
<1>5. WithAi => request # <<>>
  BY DEF Init
<1> QED
  BY <1>2, <1>3, <1>4, <1>5 DEF FallbackInv

\* Steps that only forget what is under way, or replace a text.
LEMMA FallbackKept ==
  ASSUME FallbackInv, UNCHANGED <<request, generated, mailed, dropped>>,
         worker' \in {worker, Resting}, mailer' \in {mailer, Idle},
         \A r \in Report : /\ Exists(r)' <=> Exists(r)
                           /\ Replaced(r) => Replaced(r)'
  PROVE  FallbackInv'
<1>1. CASE dropped
  BY <1>1 DEF FallbackInv
<1>2. CASE ~dropped
  <2>1. Asked /\ Readied /\ Bound /\ Unmade /\ (WithAi => \A r \in Report : Rewritten(r))
    BY <1>2 DEF FallbackInv
  <2>2. Asked'
    BY <2>1 DEF Asked
  <2>3. Readied'
    BY <2>1 DEF Readied, Existing
  <2>4. Bound'
    BY <2>1 DEF Bound
  <2>5. Unmade'
    BY <2>1 DEF Unmade
  <2>6. ASSUME NEW r \in Report, Rewritten(r) PROVE Rewritten(r)'
    <3>1. Idle.report # r
      BY ReportsAreNumbers DEF Idle
    <3>2. (Only(r)' <=> Only(r)) /\ (Answered' <=> Answered) /\ (NoneMailed(r)' <=> NoneMailed(r))
      BY DEF Only, Answered, NoneMailed
    <3>3. mailer'.report = r => mailer.report = r
      BY <3>1
    <3> QED
      BY <2>6, <3>2, <3>3 DEF Rewritten
  <2> QED
    BY <2>1, <2>2, <2>3, <2>4, <2>5, <2>6 DEF FallbackInv
<1> QED
  BY <1>1, <1>2

\* Steps after which nothing is said of the job any more.
LEMMA FallbackDropped ==
  ASSUME FallbackInv, dropped' = TRUE, request' = <<>> => request = <<>>
  PROVE  FallbackInv'
BY DEF FallbackInv

-----------------------------------------------------------------------------
LEMMA OperatorFallback ==
  ASSUME IInv, FallbackInv, NEW r \in Report, Dismiss(r) \/ SendBegins(r) \/ SendEnds(r)
  PROVE  FallbackInv'
<1>1. ReportType
  BY DEF IInv, Types
<1>2. PICK s : (s # None <=> Exists(r)) /\ SetStatus(r, s)
  <2>1. CASE Dismiss(r)
    <3>1. Exists(r) /\ SetStatus(r, "Dismissed") /\ "Dismissed" # None
      BY <2>1 DEF Dismiss, None
    <3> QED
      BY <3>1
  <2>2. CASE SendBegins(r)
    <3>1. Exists(r) /\ SetStatus(r, "Sending") /\ "Sending" # None
      BY <2>2 DEF SendBegins, None
    <3> QED
      BY <3>1
  <2>3. CASE SendEnds(r)
    <3>1. PICK s \in {"Delivered", "Error", status[r]} :
            SetStatus(r, IF Exists(r) THEN s ELSE None)
      BY <2>3 DEF SendEnds
    <3>2. Exists(r) => s # None
      BY <3>1 DEF Exists, None
    <3> QED
      BY <3>1, <3>2
  <2> QED
    BY <2>1, <2>2, <2>3
<1>3. /\ status' = [status EXCEPT ![r] = s]
      /\ UNCHANGED <<revisions, request, generated, mailed, dropped, worker, mailer>>
  BY <1>2 DEF SetStatus, history, Dismiss, SendBegins, SendEnds, activity
<1>4. \A x \in Report : (Exists(x)' <=> Exists(x)) /\ (Replaced(x) => Replaced(x)')
  <2>1. status'[r] = s /\ \A x \in Report : x # r => status'[x] = status[x]
    BY <1>1, <1>3 DEF ReportType
  <2> QED
    BY <1>2, <1>3, <2>1 DEF Exists, Replaced
<1> QED
  BY <1>3, <1>4, FallbackKept

\* What an editor or the model writes replaces the text.
LEMMA Rewriting ==
  ASSUME ReportType, NEW r \in Report, Exists(r), NEW kind \in {"edited", "ai_generated"},
         NEW results \in Known, NEW same \in BOOLEAN,
         revisions' = [revisions EXCEPT ![r] =
           Revised(revisions[r], [kind |-> kind, results |-> results], same)]
  PROVE  /\ Last(revisions'[r]).kind # "generated"
         /\ \A x \in Report : Replaced(x) => Replaced(x)'
<1> DEFINE body == [kind |-> kind, results |-> results]
<1>1. revisions[r] \in Seq(Body) /\ revisions[r] # <<>>
  BY DEF ReportType
<1>2. body \in Body /\ body.kind # "generated"
  BY DEF Body
<1> HIDE DEF body
<1>3. revisions' = [revisions EXCEPT ![r] = Revised(revisions[r], body, same)]
  BY DEF body
<1>4. Last(Revised(revisions[r], body, same)) = body
  BY <1>1, <1>2, RevisedLast
<1>5. Last(revisions'[r]) = body /\ \A x \in Report : x # r => revisions'[x] = revisions[x]
  BY <1>3, <1>4 DEF ReportType
<1> QED
  BY <1>2, <1>5 DEF Replaced

LEMMA SaveFallback ==
  ASSUME IInv, FallbackInv, NEW r \in Report, Save(r)
  PROVE  FallbackInv'
<1>1. ReportType
  BY DEF IInv, Types
<1>2. /\ Exists(r)
      /\ UNCHANGED <<status, request, worker, mailer, generated, mailed, dropped>>
      /\ revisions' = [revisions EXCEPT ![r] =
           Revised(revisions[r], [kind |-> "edited", results |-> Last(revisions[r]).results],
                   FALSE)]
  BY DEF Save, activity, history
<1>3. \A x \in Report : Replaced(x) => Replaced(x)'
  <2>1. Last(revisions[r]).results \in Known
    BY <1>1, <1>2, BodyResults
  <2> QED
    BY <1>1, <1>2, <2>1, Rewriting
<1>4. \A x \in Report : Exists(x)' <=> Exists(x)
  BY <1>2 DEF Exists
<1> QED
  BY <1>2, <1>3, <1>4, FallbackKept

LEMMA QuietFallback ==
  ASSUME FallbackInv,
         \/ \E r \in Report : PublishBegins(r)
         \/ \E h \in Host : DeleteHost(h)
         \/ \E h \in Host : PollRejects(h)
         \/ Restart
         \/ UNCHANGED vars
  PROVE  FallbackInv'
<1>1. /\ UNCHANGED <<status, revisions, request, generated, mailed, dropped>>
      /\ worker' \in {worker, Resting} /\ mailer' \in {mailer, Idle}
  BY DEF PublishBegins, DeleteHost, PollRejects, Restart, rows, activity, history, vars
<1>2. \A x \in Report : (Exists(x)' <=> Exists(x)) /\ (Replaced(x) => Replaced(x)')
  BY <1>1 DEF Exists, Replaced
<1> QED
  BY <1>1, <1>2, FallbackKept

LEMMA LostFallback ==
  ASSUME IInv, FallbackInv,
         \/ DeleteJob
         \/ \E h \in Host : ResultCut(h)
         \/ \E r \in Report : DeleteReport(r) \/ Expire(r)
  PROVE  FallbackInv'
<1>1. request \in Seq(Request)
  BY DEF IInv, Types, RequestType
<1>2. dropped' = TRUE
  BY DEF DeleteJob, ResultCut, DeleteReport, Expire, Removed
<1>3. DOMAIN request' = DOMAIN request
  BY DEF DeleteJob, ResultCut, DeleteReport, Expire
<1>4. ASSUME request' = <<>> PROVE request = <<>>
  <2>1. DOMAIN request = 1..Len(request) /\ Len(request) \in Nat
    BY <1>1
  <2>2. DOMAIN request = {}
    BY <1>3, <1>4
  <2>3. Len(request) = 0
    BY <2>1, <2>2
  <2> QED
    BY <1>1, <2>3, EmptySeq
<1> QED
  BY <1>2, <1>4, FallbackDropped

-----------------------------------------------------------------------------
\* A request that nobody has answered is added.
LEMMA RequestAiFallback ==
  ASSUME IInv, FallbackInv, NEW r \in Report, RequestAi(r)
  PROVE  FallbackInv'
<1>1. request \in Seq(Request)
  BY DEF IInv, Types, RequestType
<1>2. /\ Exists(r) /\ request' = Append(request, [report |-> r, status |-> "Queued"])
      /\ UNCHANGED <<status, revisions, worker, mailer, generated, mailed, dropped>>
  BY DEF RequestAi, activity, history
<1> DEFINE asked == [report |-> r, status |-> "Queued"]
<1>3. /\ asked.report = r /\ asked.report # NoReport /\ asked.status = "Queued"
      /\ asked \in Request
  BY ReportsAreNumbers DEF Request
<1> HIDE DEF asked
<1>4. /\ Len(request) \in Nat /\ Len(request') = Len(request) + 1
      /\ DOMAIN request = 1..Len(request) /\ DOMAIN request' = 1..(Len(request) + 1)
      /\ request'[Len(request) + 1] = asked
      /\ \A i \in 1..Len(request) : request'[i] = request[i]
  BY <1>1, <1>2, <1>3, AppendProperties DEF asked
<1>5. /\ \A i \in DOMAIN request : i \in DOMAIN request' /\ request'[i] = request[i]
      /\ \A i \in DOMAIN request' :
           request'[i] = asked \/ (i \in DOMAIN request /\ request'[i] = request[i])
  BY <1>4
<1>6. request' # <<>>
  BY <1>4
<1>7. CASE dropped
  BY <1>2, <1>6, <1>7 DEF FallbackInv
<1>8. CASE ~dropped
  <2>1. Asked /\ Readied /\ Bound /\ Unmade /\ (WithAi => \A x \in Report : Rewritten(x))
    BY <1>8 DEF FallbackInv
  <2>2. generated[r] # 0
    BY <1>2, <2>1 DEF Unmade
  <2>3. Asked'
    <3> SUFFICES ASSUME NEW i \in DOMAIN request'
                 PROVE  /\ request'[i].status # "gone"
                        /\ request'[i].report = NoReport
                             <=> request'[i].status = "WaitingForTasks"
                        /\ request'[i].report # NoReport => generated[request'[i].report] # 0
      BY <1>2 DEF Asked
    <3> QED
      BY <1>3, <1>5, <2>1, <2>2 DEF Asked
  <2>4. Readied'
    <3>1. Existing' = Existing
      BY <1>2 DEF Existing, Exists
    <3> QED
      BY <1>3, <1>5, <2>1, <3>1 DEF Readied
  <2>5. Bound'
    <3>1. worker # Resting => worker.request \in DOMAIN request
      BY <1>4 DEF IInv, Types, WorkerType
    <3> QED
      BY <1>2, <1>5, <2>1, <3>1 DEF Bound
  <2>6. Unmade'
    BY <1>2, <2>1 DEF Unmade, Exists
  <2>7. ASSUME WithAi, NEW x \in Report PROVE Rewritten(x)'
    <3>1. request # <<>> /\ Rewritten(x)
      BY <2>1, <2>7 DEF FallbackInv
    <3>2. Only(x)' => Only(x)
      BY <1>2, <1>5, <3>1 DEF Only
    <3>3. Answered' => Answered
      BY <1>3, <1>5 DEF Answered
    <3>4. (Replaced(x)' <=> Replaced(x)) /\ (NoneMailed(x)' <=> NoneMailed(x))
      BY <1>2 DEF Replaced, NoneMailed
    <3> QED
      BY <1>2, <3>1, <3>2, <3>3, <3>4 DEF Rewritten
  <2> QED
    BY <1>6, <2>3, <2>4, <2>5, <2>6, <2>7 DEF FallbackInv
<1> QED
  BY <1>7, <1>8

\* The body of a report that the mailer holds goes out.
LEMMA MailFallback ==
  ASSUME FallbackInv, NEW r \in Report, Exists(r), NEW channel, Mail(r, channel),
         UNCHANGED <<revisions, request, worker, generated, dropped>>,
         mailer'.report = r,
         \A x \in Report : Exists(x)' <=> Exists(x),
         WithAi /\ ~dropped /\ Only(r) => Replaced(r)
  PROVE  FallbackInv'
<1>1. CASE dropped
  BY <1>1 DEF FallbackInv
<1>2. CASE ~dropped
  <2>1. Asked /\ Readied /\ Bound /\ Unmade /\ (WithAi => \A x \in Report : Rewritten(x))
    BY <1>2 DEF FallbackInv
  <2>2. Asked' /\ Bound'
    BY <2>1 DEF Asked, Bound
  <2>3. Readied'
    BY <2>1 DEF Readied, Existing
  <2>4. mailed' \subseteq mailed \cup {<<r, Last(revisions[r])>>}
    BY DEF Mail
  <2>5. Unmade'
    <3> SUFFICES ASSUME NEW x \in Report, generated[x] = 0
                 PROVE  ~Exists(x)' /\ \A m \in mailed' : m[1] # x
      BY DEF Unmade
    <3>1. ~Exists(x) /\ (\A m \in mailed : m[1] # x) /\ x # r
      BY <2>1 DEF Unmade
    <3> QED
      BY <2>4, <3>1
  <2>6. ASSUME WithAi, NEW x \in Report PROVE Rewritten(x)'
    <3>1. /\ Only(x)' <=> Only(x)
          /\ Answered' <=> Answered
          /\ Replaced(x)' <=> Replaced(x)
      BY DEF Only, Answered, Replaced
    <3>2. Rewritten(x)
      BY <2>1, <2>6
    <3>3. Only(x) /\ x = r => NoneMailed(x)' /\ Replaced(x)
      <4> SUFFICES ASSUME Only(x), x = r
                   PROVE  Replaced(r) /\ \A m \in mailed' : m[1] = r => m[2].kind # "generated"
        BY DEF NoneMailed
      <4>1. Replaced(r)
        BY <1>2, <2>6
      <4>2. \A m \in mailed : m[1] = r => m[2].kind # "generated"
        BY <3>2 DEF Rewritten, NoneMailed
      <4> QED
        BY <2>4, <4>1, <4>2 DEF Replaced
    <3>4. Only(x) /\ x # r => NoneMailed(x)' /\ mailer'.report # x
      BY <2>4, <3>2 DEF Rewritten, NoneMailed
    <3> QED
      BY <3>1, <3>2, <3>3, <3>4 DEF Rewritten
  <2> QED
    BY <2>2, <2>3, <2>5, <2>6 DEF FallbackInv
<1> QED
  BY <1>1, <1>2

\* What is not held is what the model has answered.
LEMMA NotHeld ==
  ASSUME request \in Seq(Request), request # <<>>, Asked, ~Held
  PROVE  Answered
<1>1. Len(request) \in Nat /\ Len(request) # 0 /\ DOMAIN request = 1..Len(request)
  BY EmptySeq
<1>2. Len(request) \in DOMAIN request /\ \A j \in DOMAIN request : ~ (j > Len(request))
  BY <1>1
<1>3. Latest(Len(request))
  BY <1>2 DEF Latest, Asked
<1>4. request[Len(request)].status = "Success"
  BY <1>2, <1>3 DEF Held
<1> QED
  BY <1>2, <1>4 DEF Answered

LEMMA ClaimsFallback ==
  ASSUME IInv, FallbackInv, NEW r \in Report, MailerClaims(r)
  PROVE  FallbackInv'
<1>1. /\ ReportType /\ request \in Seq(Request)
  BY DEF IInv, Types, RequestType
<1>2. /\ status[r] = "Waiting Review" /\ ~Held
      /\ status' = [status EXCEPT ![r] = "Delivering"]
      /\ UNCHANGED <<revisions, request, worker, generated, dropped>>
  BY DEF MailerClaims, Taken
<1>3. \E channel : /\ Mail(r, channel)
                   /\ mailer' = [report |-> r, channel |-> channel, failed |-> FALSE]
  BY DEF MailerClaims
<1>4. Exists(r) /\ \A x \in Report : Exists(x)' <=> Exists(x)
  <2>1. status'[r] = "Delivering" /\ \A x \in Report : x # r => status'[x] = status[x]
    BY <1>1, <1>2 DEF ReportType
  <2> QED
    BY <1>2, <2>1 DEF Exists, None
<1>5. ASSUME WithAi, ~dropped, Only(r) PROVE Replaced(r)
  <2>1. request # <<>> /\ Asked /\ Rewritten(r)
    BY <1>5 DEF FallbackInv
  <2> QED
    BY <1>1, <1>2, <1>5, <2>1, NotHeld DEF Rewritten
<1>6. mailer'.report = r
  BY <1>3
<1> QED
  BY <1>2, <1>3, <1>4, <1>5, <1>6, MailFallback

LEMMA ServedFallback ==
  ASSUME IInv, FallbackInv, MailerServed
  PROVE  FallbackInv'
<1> DEFINE r == mailer.report
<1>1. ReportType
  BY DEF IInv, Types
<1>2. /\ mailer # Idle /\ r \in Report /\ Exists(r)
      /\ UNCHANGED <<revisions, request, worker, generated, dropped>>
  BY DEF MailerServed, IInv, Types, MailerType
<1>3. \/ /\ Mail(r, "confluence") /\ UNCHANGED status /\ mailer'.report = r
      \/ /\ mailer' = Idle /\ UNCHANGED mailed
         /\ \E s \in {"Error", "Delivered"} : status' = [status EXCEPT ![r] = s]
  BY DEF MailerServed
<1> HIDE DEF r
<1>4. CASE Mail(r, "confluence") /\ UNCHANGED status /\ mailer'.report = r
  <2>1. \A x \in Report : Exists(x)' <=> Exists(x)
    BY <1>4 DEF Exists
  <2>2. ASSUME WithAi, ~dropped, Only(r) PROVE Replaced(r)
    <3>1. Rewritten(r) /\ mailer.report = r
      BY <1>2, <2>2 DEF FallbackInv, r
    <3> QED
      BY <2>2, <3>1 DEF Rewritten
  <2> QED
    BY <1>2, <1>4, <2>1, <2>2, MailFallback
<1>5. ASSUME mailer' = Idle, UNCHANGED mailed, NEW s \in {"Error", "Delivered"},
             status' = [status EXCEPT ![r] = s]
      PROVE  FallbackInv'
  <2>1. s # None
    BY DEF None
  <2>2. status'[r] = s /\ \A x \in Report : x # r => status'[x] = status[x]
    BY <1>1, <1>2, <1>5 DEF ReportType
  <2>3. \A x \in Report : (Exists(x)' <=> Exists(x)) /\ (Replaced(x) => Replaced(x)')
    BY <1>2, <2>1, <2>2 DEF Exists, Replaced
  <2> QED
    BY <1>2, <1>5, <2>3, FallbackKept
<1> QED
  BY <1>3, <1>4, <1>5

-----------------------------------------------------------------------------
LEMMA StatusSet ==
  ASSUME NEW list, NEW first \in DOMAIN list, NEW outcome,
         \A i \in DOMAIN list : list[i] \in Request
  PROVE  LET next == [list EXCEPT ![first].status = outcome]
         IN /\ DOMAIN next = DOMAIN list
            /\ \A i \in DOMAIN list :
                 /\ next[i].report = list[i].report
                 /\ next[i].status = IF i = first THEN outcome ELSE list[i].status
<1>1. PICK next : next = [list EXCEPT ![first].status = outcome]
  OBVIOUS
<1>2. PICK row : row = [list[first] EXCEPT !.status = outcome]
  OBVIOUS
<1>3. next = [list EXCEPT ![first] = row]
  BY <1>1, <1>2
<1>4. row.status = outcome /\ row.report = list[first].report
  BY <1>2 DEF Request
<1>5. /\ DOMAIN next = DOMAIN list
      /\ \A i \in DOMAIN list : next[i] = IF i = first THEN row ELSE list[i]
  BY <1>3
<1> QED
  BY <1>1, <1>4, <1>5

\* The requests keep their reports when the worker takes one.
RowsKept(next, stale, first, outcome) ==
  /\ DOMAIN next = DOMAIN request
  /\ \A i \in DOMAIN request :
       /\ next[i].report = request[i].report
       /\ next[i].status = IF i = first THEN outcome
                           ELSE IF i \in stale THEN "Queued" ELSE request[i].status

LEMMA RequeuedRows ==
  ASSUME request \in Seq(Request), NEW stale \in SUBSET (DOMAIN request),
         NEW first \in DOMAIN request, NEW outcome \in {"Running", "Error"}
  PROVE  RowsKept(Requeued(stale, first, outcome), stale, first, outcome)
<1>0. PICK next : next = Requeued(stale, first, outcome)
  OBVIOUS
<1>1. PICK requeued :
        requeued = [i \in DOMAIN request |->
          IF i \in stale THEN [request[i] EXCEPT !.status = "Queued"] ELSE request[i]]
  OBVIOUS
<1>2. \A i \in DOMAIN request : request[i] \in Request
  OBVIOUS
<1>3. \A i \in DOMAIN request :
        /\ [request[i] EXCEPT !.status = "Queued"] \in Request
        /\ [request[i] EXCEPT !.status = "Queued"].report = request[i].report
        /\ [request[i] EXCEPT !.status = "Queued"].status = "Queued"
  BY <1>2 DEF Request
<1>4. /\ DOMAIN requeued = DOMAIN request
      /\ \A i \in DOMAIN request :
           /\ requeued[i] \in Request
           /\ requeued[i].report = request[i].report
           /\ requeued[i].status = IF i \in stale THEN "Queued" ELSE request[i].status
  BY <1>1, <1>2, <1>3
<1>5. Requeued(stale, first, outcome) = [requeued EXCEPT ![first].status = outcome]
  BY <1>1 DEF Requeued
<1> HIDE <1>1
<1>6. next = [requeued EXCEPT ![first].status = outcome]
  BY <1>0, <1>5
<1>7. /\ DOMAIN next = DOMAIN requeued
      /\ \A i \in DOMAIN requeued :
           /\ next[i].report = requeued[i].report
           /\ next[i].status = IF i = first THEN outcome ELSE requeued[i].status
  BY <1>4, <1>6, StatusSet
<1>8. RowsKept(next, stale, first, outcome)
  BY <1>4, <1>7 DEF RowsKept
<1> QED
  BY <1>0, <1>8

\* The requests keep their reports; one that is answered then was answered before or is
\* about a report that is rewritten now.
LEMMA AskedKept ==
  ASSUME FallbackInv, UNCHANGED <<status, mailer, generated, mailed, dropped>>,
         DOMAIN request' = DOMAIN request, request' = <<>> => request = <<>>,
         \A i \in DOMAIN request :
           /\ request'[i].report = request[i].report
           /\ ~dropped /\ request'[i].status # request[i].status =>
                /\ request[i].report # NoReport
                /\ request'[i].status \notin {"WaitingForTasks", "gone"}
           /\ ~dropped /\ request'[i].status = "Success" =>
                request[i].status = "Success" \/ Replaced(request[i].report)',
         \A r \in Report : Replaced(r) => Replaced(r)',
         ~dropped => Bound'
  PROVE  FallbackInv'
<1>1. CASE dropped
  BY <1>1 DEF FallbackInv
<1>2. CASE ~dropped
  <2>1. Asked /\ Readied /\ Bound /\ Unmade /\ (WithAi => \A r \in Report : Rewritten(r))
    BY <1>2 DEF FallbackInv
  <2>2. Asked'
    <3> SUFFICES ASSUME NEW i \in DOMAIN request
                 PROVE  /\ request'[i].status # "gone"
                        /\ request'[i].report = NoReport
                             <=> request'[i].status = "WaitingForTasks"
                        /\ request'[i].report # NoReport => generated[request'[i].report] # 0
      BY DEF Asked
    <3>1. /\ request[i].status # "gone"
          /\ request[i].report = NoReport <=> request[i].status = "WaitingForTasks"
          /\ request[i].report # NoReport => generated[request[i].report] # 0
      BY <2>1 DEF Asked
    <3> QED
      BY <1>2, <3>1
  <2>3. Readied'
    BY <1>2, <2>1 DEF Readied, Existing, Exists
  <2>4. Unmade'
    BY <2>1 DEF Unmade, Exists
  <2>5. ASSUME WithAi, NEW r \in Report PROVE Rewritten(r)'
    <3>1. Rewritten(r) /\ request # <<>>
      BY <2>1, <2>5 DEF FallbackInv
    <3>2. Only(r)' => Only(r)
      BY <3>1 DEF Only
    <3>3. Only(r) /\ Answered' => Answered \/ Replaced(r)'
      <4> SUFFICES ASSUME Only(r), NEW i \in DOMAIN request, request'[i].status = "Success"
                   PROVE  Answered \/ Replaced(r)'
        BY DEF Answered
      <4>1. request[i].report = r
        BY DEF Only
      <4>2. request[i].status = "Success" \/ Replaced(request[i].report)'
        BY <1>2
      <4> QED
        BY <4>1, <4>2 DEF Answered, Replaced
    <3>4. (NoneMailed(r)' <=> NoneMailed(r)) /\ (Replaced(r) => Replaced(r)')
      BY DEF NoneMailed
    <3> QED
      BY <3>1, <3>2, <3>3, <3>4 DEF Rewritten
  <2> QED
    BY <1>2, <2>2, <2>3, <2>4, <2>5 DEF FallbackInv
<1> QED
  BY <1>1, <1>2

LEMMA AiClaimsFallback ==
  ASSUME IInv, FallbackInv, AiClaims
  PROVE  FallbackInv'
<1>1. request \in Seq(Request)
  BY DEF IInv, Types, RequestType
<1>2. UNCHANGED <<status, revisions, mailer, generated, mailed, dropped>> /\ worker = Resting
  BY DEF AiClaims, history
<1> DEFINE queuedWith(stale) ==
             stale \cup {i \in DOMAIN request : request[i].status = "Queued"}
           firstOf(stale) ==
             CHOOSE i \in queuedWith(stale) : \A j \in queuedWith(stale) : i <= j
<1>3. PICK stale \in SUBSET Stale, outcome \in {"Running", "Error"} :
        /\ queuedWith(stale) # {}
        /\ request' = [[i \in DOMAIN request |->
             IF i \in stale THEN [request[i] EXCEPT !.status = "Queued"] ELSE request[i]]
               EXCEPT ![firstOf(stale)].status = outcome]
        /\ \/ worker' = [request |-> firstOf(stale), report |-> Subject(firstOf(stale)),
                         results |-> Input(Subject(firstOf(stale)))]
           \/ UNCHANGED worker
  BY DEF AiClaims
<1> DEFINE first == firstOf(stale)
<1>4. DOMAIN request = 1..Len(request) /\ DOMAIN request \subseteq Nat
  BY <1>1
<1>5. first \in queuedWith(stale)
  <2>1. queuedWith(stale) \subseteq Nat
    BY <1>4 DEF Stale
  <2> HIDE DEF queuedWith
  <2>2. \E i \in queuedWith(stale) : \A j \in queuedWith(stale) : i <= j
    BY <1>3, <2>1, Least
  <2> QED
    BY <2>2
<1>6. \A i \in queuedWith(stale) : /\ i \in DOMAIN request
                                   /\ request[i].status \in {"Queued", "Running"}
  BY DEF Stale
<1>7. first \in DOMAIN request /\ request[first].status \in {"Queued", "Running"}
  <2> HIDE DEF first, queuedWith
  <2> QED
    BY <1>5, <1>6
<1>8. \A i \in stale : i \in DOMAIN request /\ request[i].status = "Running"
  BY DEF Stale
<1>9. \/ worker' = [request |-> first, report |-> Subject(first),
                    results |-> Input(Subject(first))]
      \/ worker' = Resting
  BY <1>2, <1>3
<1>10. request' = Requeued(stale, first, outcome) /\ stale \in SUBSET (DOMAIN request)
  BY <1>3 DEF first, Stale, Requeued
<1> HIDE DEF first, firstOf, queuedWith
<1>11. RowsKept(request', stale, first, outcome)
  <2>1. RowsKept(Requeued(stale, first, outcome), stale, first, outcome)
    BY <1>1, <1>7, <1>10, RequeuedRows
  <2> QED
    BY <1>10, <2>1
<1>12. /\ DOMAIN request' = DOMAIN request
       /\ \A i \in DOMAIN request :
            /\ request'[i].report = request[i].report
            /\ request'[i].status = IF i = first THEN outcome
                                    ELSE IF i \in stale THEN "Queued" ELSE request[i].status
  BY <1>11 DEF RowsKept
<1>14. ~dropped => Asked
  BY DEF FallbackInv
<1>15. \A i \in DOMAIN request : ~dropped /\ request[i].status \in {"Queued", "Running"}
         => request[i].report # NoReport
  BY <1>14 DEF Asked
<1>16. ~dropped => Bound'
  <2> SUFFICES ASSUME ~dropped, worker' # Resting
               PROVE  request'[worker'.request].report = worker'.report
    BY DEF Bound
  <2>1. worker'.request = first /\ worker'.report = Subject(first)
    BY <1>9
  <2>2. Subject(first) = request[first].report
    BY <1>7, <1>15 DEF Subject
  <2> QED
    BY <1>7, <1>12, <2>1, <2>2
<1>17. request' = <<>> => request = <<>>
  <2> SUFFICES ASSUME DOMAIN request = {} PROVE FALSE
    BY <1>12
  <2> QED
    BY <1>7
<1>18. \A i \in DOMAIN request :
         /\ request'[i].report = request[i].report
         /\ ~dropped /\ request'[i].status # request[i].status =>
              /\ request[i].report # NoReport
              /\ request'[i].status \notin {"WaitingForTasks", "gone"}
         /\ ~dropped /\ request'[i].status = "Success" =>
              request[i].status = "Success" \/ Replaced(request[i].report)'
  BY <1>7, <1>8, <1>12, <1>15
<1>19. \A r \in Report : Replaced(r) => Replaced(r)'
  BY <1>2 DEF Replaced
<1> QED
  BY <1>2, <1>12, <1>16, <1>17, <1>18, <1>19, AskedKept

LEMMA AiEndsFallback ==
  ASSUME IInv, FallbackInv, AiAnswers \/ AiFails
  PROVE  FallbackInv'
<1>1. /\ ReportType /\ request \in Seq(Request) /\ WorkerType
  BY DEF IInv, Types, RequestType
<1>2. /\ worker # Resting /\ worker' = Resting
      /\ UNCHANGED <<status, mailer, generated, mailed, dropped>>
  BY DEF AiAnswers, AiFails, history
<1> DEFINE w == worker.request
<1>3. PICK r \in Report : r = worker.report
  BY <1>1, <1>2 DEF WorkerType
<1>14. /\ w \in DOMAIN request
       /\ \A i \in DOMAIN request : request[i] \in Request
  BY <1>1, <1>2 DEF WorkerType
<1>4. \/ /\ request' = Settled("Error") /\ UNCHANGED revisions
      \/ /\ request' = Settled("Success") /\ Exists(worker.report)
         /\ revisions' = [revisions EXCEPT ![worker.report] =
              Revised(revisions[worker.report],
                      [kind |-> "ai_generated", results |-> worker.results], TRUE)]
  BY DEF AiAnswers, AiFails
<1>5. /\ \A x \in Report : Replaced(x) => Replaced(x)'
      /\ request' = Settled("Error") \/ (request' = Settled("Success") /\ Replaced(r)')
  <2>1. CASE request' = Settled("Error") /\ UNCHANGED revisions
    BY <2>1 DEF Replaced
  <2>2. CASE /\ request' = Settled("Success") /\ Exists(worker.report)
             /\ revisions' = [revisions EXCEPT ![worker.report] =
                  Revised(revisions[worker.report],
                          [kind |-> "ai_generated", results |-> worker.results], TRUE)]
    <3>1. worker.report \in Report /\ worker.results \in Known
      BY <1>1, <1>2, <1>3 DEF WorkerType
    <3>2. /\ Last(revisions'[worker.report]).kind # "generated"
          /\ \A x \in Report : Replaced(x) => Replaced(x)'
      BY <1>1, <2>2, <3>1, Rewriting
    <3>3. Replaced(r)'
      BY <1>3, <3>2 DEF Replaced
    <3> QED
      BY <2>2, <3>2, <3>3
  <2> QED
    BY <1>4, <2>1, <2>2
<1>6. PICK outcome \in {"Success", "Error"} :
        request' = Settled(outcome) /\ (outcome = "Success" => Replaced(r)')
  BY <1>5
<1> DEFINE settled == IF request[w].status = "gone" THEN request[w].status ELSE outcome
<1>7. request' = [request EXCEPT ![w].status = settled]
  BY <1>6 DEF Settled
<1> HIDE DEF w, settled
<1>8. /\ DOMAIN request' = DOMAIN request
      /\ \A i \in DOMAIN request :
           /\ request'[i].report = request[i].report
           /\ request'[i].status = IF i = w THEN settled ELSE request[i].status
  <2>1. PICK next : next = [request EXCEPT ![w].status = settled]
    OBVIOUS
  <2>2. /\ DOMAIN next = DOMAIN request
        /\ \A i \in DOMAIN request :
             /\ next[i].report = request[i].report
             /\ next[i].status = IF i = w THEN settled ELSE request[i].status
    BY <1>14, <2>1, StatusSet
  <2> QED
    BY <1>7, <2>1, <2>2
<1>9. ~dropped => request[w].status # "gone" /\ request[w].report = r
  <2> SUFFICES ASSUME ~dropped PROVE request[w].status # "gone" /\ request[w].report = r
    OBVIOUS
  <2>1. Asked /\ Bound
    BY DEF FallbackInv
  <2>2. request[w].report = r
    BY <1>2, <1>3, <2>1 DEF Bound, w
  <2> QED
    BY <1>14, <2>1, <2>2 DEF Asked
<1>10. ~dropped => settled = outcome
  BY <1>9 DEF settled
<1>11. ~dropped => Bound'
  BY <1>2 DEF Bound
<1>12. request' = <<>> => request = <<>>
  <2> SUFFICES ASSUME DOMAIN request = {} PROVE FALSE
    BY <1>8
  <2> QED
    BY <1>14
<1>13. \A i \in DOMAIN request :
         /\ request'[i].report = request[i].report
         /\ ~dropped /\ request'[i].status # request[i].status =>
              /\ request[i].report # NoReport
              /\ request'[i].status \notin {"WaitingForTasks", "gone"}
         /\ ~dropped /\ request'[i].status = "Success" =>
              request[i].status = "Success" \/ Replaced(request[i].report)'
  <2> SUFFICES ASSUME NEW i \in DOMAIN request, ~dropped
               PROVE  /\ request'[i].status # request[i].status =>
                           /\ request[i].report # NoReport
                           /\ request'[i].status \notin {"WaitingForTasks", "gone"}
                      /\ request'[i].status = "Success" =>
                           request[i].status = "Success" \/ Replaced(request[i].report)'
    BY <1>8
  <2>1. CASE i # w
    BY <1>8, <2>1
  <2>2. CASE i = w
    <3>1. request'[i].status = outcome /\ request[i].report = r
      BY <1>8, <1>9, <1>10, <2>2
    <3>2. request[i].report # NoReport
      BY <1>3, <3>1, ReportsAreNumbers
    <3>3. outcome = "Success" => Replaced(request[i].report)'
      BY <1>6, <1>8, <3>1 DEF Replaced
    <3> QED
      BY <3>1, <3>2, <3>3
  <2> QED
    BY <2>1, <2>2
<1> QED
  BY <1>2, <1>5, <1>8, <1>11, <1>12, <1>13, AskedKept

-----------------------------------------------------------------------------
LEMMA ReadyRows ==
  ASSUME request \in Seq(Request), NEW reports \in SUBSET Report, reports # {},
         request' = ReadyRequests(reports)
  PROVE  /\ DOMAIN request' = DOMAIN request
         /\ \A i \in DOMAIN request :
              IF request[i].status = "WaitingForTasks"
              THEN request'[i].report \in reports /\ request'[i].status = "Queued"
              ELSE request'[i] = request[i]
<1> DEFINE parent == CHOOSE r \in reports : \A x \in reports : r <= x
<1>1. parent \in reports
  <2>1. \E r \in reports : \A x \in reports : r <= x
    BY Least, ReportsAreNumbers
  <2> QED
    BY <2>1
<1> HIDE DEF parent
<1>2. request' = [i \in DOMAIN request |->
        IF request[i].status = "WaitingForTasks"
        THEN [report |-> parent, status |-> "Queued"] ELSE request[i]]
  BY DEF ReadyRequests, parent
<1> QED
  BY <1>1, <1>2

\* A first generation makes requests about reports that nobody was asked for or mailed
\* before; a second one ends the promise.
LEMMA GenerateFallback ==
  ASSUME IInv, FallbackInv, NEW tasks \in [Host -> TaskStatus], NEW included \in SUBSET Final,
         Generate(tasks, included), UNCHANGED <<mailed, mailer, worker, dropped>>
  PROVE  FallbackInv'
<1>1. /\ ReportType /\ RequestType /\ request \in Seq(Request) /\ WorkerType /\ MailerType
  BY DEF IInv, Types, RequestType
<1>2. PICK layout \in SUBSET Report :
        /\ layout # {} /\ request' = ReadyRequests(layout)
        /\ \A r \in layout : generated'[r] = generated[r] + 1
        /\ \A r \in Report \ layout :
             /\ status'[r] = IF Exists(r) THEN "Superseded" ELSE None
             /\ revisions'[r] = revisions[r] /\ generated'[r] = generated[r]
  BY <1>1, GenerateFacts
<1>3. /\ DOMAIN request' = DOMAIN request
      /\ \A i \in DOMAIN request :
           IF request[i].status = "WaitingForTasks"
           THEN request'[i].report \in layout /\ request'[i].status = "Queued"
           ELSE request'[i] = request[i]
  BY <1>1, <1>2, ReadyRows
<1>4. \A r \in Report : generated[r] \in Nat
  BY <1>1, BoundsAssumption DEF ReportType
<1>5. \A r \in Report : /\ generated'[r] = 0 => generated[r] = 0 /\ r \notin layout
                        /\ r \in layout => generated'[r] # 0
                        /\ generated'[r] = 1 /\ r \in layout => generated[r] = 0
  <2> SUFFICES ASSUME NEW r \in Report
               PROVE  /\ generated'[r] = 0 => generated[r] = 0 /\ r \notin layout
                      /\ r \in layout => generated'[r] # 0
                      /\ generated'[r] = 1 /\ r \in layout => generated[r] = 0
    OBVIOUS
  <2>1. generated[r] \in Nat
    BY <1>4
  <2>2. CASE r \in layout
    <3>1. generated'[r] = generated[r] + 1
      BY <1>2, <2>2
    <3> QED
      BY <2>1, <2>2, <3>1
  <2>3. CASE r \notin layout
    <3>1. generated'[r] = generated[r]
      BY <1>2, <2>3
    <3> QED
      BY <2>3, <3>1
  <2> QED
    BY <2>2, <2>3
<1>6. request' = <<>> => request = <<>>
  <2> SUFFICES ASSUME DOMAIN request = {} PROVE request = <<>>
    BY <1>3
  <2>1. DOMAIN request = 1..Len(request) /\ Len(request) \in Nat
    BY <1>1
  <2>2. Len(request) = 0
    BY <2>1
  <2> QED
    BY <1>1, <2>2, EmptySeq
<1>7. CASE dropped
  BY <1>6, <1>7 DEF FallbackInv
<1>8. CASE ~dropped
  <2>1. Asked /\ Readied /\ Bound /\ Unmade /\ (WithAi => \A r \in Report : Rewritten(r))
    BY <1>8 DEF FallbackInv
  <2>2. \A i \in DOMAIN request : request[i].report \in Report \cup {NoReport}
    <3>1. \A i \in DOMAIN request : request[i] \in Request
      BY <1>1
    <3> QED
      BY <3>1 DEF Request
  <2>3. Asked'
    <3> SUFFICES ASSUME NEW i \in DOMAIN request
                 PROVE  /\ request'[i].status # "gone"
                        /\ request'[i].report = NoReport
                             <=> request'[i].status = "WaitingForTasks"
                        /\ request'[i].report # NoReport => generated'[request'[i].report] # 0
      BY <1>3 DEF Asked
    <3>1. /\ request[i].status # "gone"
          /\ request[i].report = NoReport <=> request[i].status = "WaitingForTasks"
          /\ request[i].report # NoReport => generated[request[i].report] # 0
      BY <2>1 DEF Asked
    <3>2. CASE request[i].status = "WaitingForTasks"
      <4>1. request'[i].report \in layout /\ request'[i].status = "Queued"
        BY <1>3, <3>2
      <4>2. generated'[request'[i].report] # 0 /\ request'[i].report # NoReport
        BY <1>5, <4>1, ReportsAreNumbers
      <4> QED
        BY <4>1, <4>2
    <3>3. CASE request[i].status # "WaitingForTasks"
      <4>1. request'[i] = request[i]
        BY <1>3, <3>3
      <4>2. request[i].report \in Report
        BY <2>2, <3>1, <3>3
      <4>3. generated'[request[i].report] # 0
        BY <1>5, <3>1, <3>3, <4>2
      <4> QED
        BY <3>1, <4>1, <4>3
    <3> QED
      BY <3>2, <3>3
  <2>4. Readied'
    BY <1>3 DEF Readied
  <2>5. Bound'
    <3> SUFFICES ASSUME worker # Resting
                 PROVE  request'[worker.request].report = worker.report
      BY DEF Bound
    <3>1. /\ worker.request \in DOMAIN request /\ worker.report \in Report
      BY <1>1 DEF WorkerType
    <3>2. request[worker.request].report = worker.report
      BY <2>1 DEF Bound
    <3>3. request[worker.request].status # "WaitingForTasks"
      BY <2>1, <3>1, <3>2, ReportsAreNumbers DEF Asked
    <3> QED
      BY <1>3, <3>1, <3>2, <3>3
  <2>6. Unmade'
    <3> SUFFICES ASSUME NEW r \in Report, generated'[r] = 0
                 PROVE  ~Exists(r)' /\ \A m \in mailed : m[1] # r
      BY DEF Unmade
    <3>1. generated[r] = 0 /\ r \notin layout
      BY <1>5
    <3>2. ~Exists(r) /\ \A m \in mailed : m[1] # r
      BY <2>1, <3>1 DEF Unmade
    <3> QED
      BY <1>2, <3>1, <3>2 DEF Exists
  <2>7. ASSUME WithAi, NEW r \in Report, Only(r)'
        PROVE  (Answered' => Replaced(r)') /\ (mailer.report = r => Replaced(r)') /\ NoneMailed(r)'
    <3>1. \A i \in DOMAIN request : request'[i].report = r
      BY <1>3, <2>7 DEF Only
    <3>2. generated'[r] = 1
      BY <2>7 DEF Only
    <3>3. CASE r \in layout
      <4>1. ~Exists(r) /\ \A m \in mailed : m[1] # r
        BY <1>5, <2>1, <3>2, <3>3 DEF Unmade
      <4>2. mailer.report # r
        BY <1>1, <4>1, ReportsAreNumbers DEF MailerType, Idle
      <4>3. ~Answered'
        <5> SUFFICES ASSUME NEW i \in DOMAIN request, request'[i].status = "Success"
                     PROVE  FALSE
          BY <1>3 DEF Answered
        <5>1. request[i].status # "WaitingForTasks" /\ request[i].report = r
          BY <1>3, <3>1
        <5>2. generated[r] # 0
          BY <2>1, <5>1, ReportsAreNumbers DEF Asked
        <5> QED
          BY <1>5, <3>2, <3>3, <5>2
      <4> QED
        BY <4>1, <4>2, <4>3 DEF NoneMailed
    <3>4. CASE r \notin layout
      <4>1. \A i \in DOMAIN request : request'[i] = request[i]
        BY <1>3, <3>1, <3>4
      <4>2. generated[r] = 1 /\ revisions'[r] = revisions[r]
        BY <1>2, <3>2, <3>4
      <4>3. request # <<>>
        BY <2>7 DEF FallbackInv
      <4>4. Only(r)
        BY <3>1, <4>1, <4>2, <4>3 DEF Only
      <4>5. Answered' => Answered
        BY <1>3, <4>1 DEF Answered
      <4> QED
        BY <2>1, <2>7, <4>2, <4>4, <4>5 DEF Rewritten, Replaced, NoneMailed
    <3> QED
      BY <3>3, <3>4
  <2>8. ASSUME WithAi, NEW r \in Report PROVE Rewritten(r)'
    BY <2>7, <2>8 DEF Rewritten
  <2> QED
    BY <1>6, <2>1, <2>3, <2>4, <2>5, <2>6, <2>8 DEF FallbackInv
<1> QED
  BY <1>7, <1>8

LEMMA CompletionFallback ==
  ASSUME IInv, FallbackInv, Completion
  PROVE  FallbackInv'
<1>1. /\ UNCHANGED <<worker, mailer, mailed, dropped>> /\ task' \in [Host -> TaskStatus]
  BY DEF Completion, activity
<1>2. CASE UNCHANGED <<status, revisions, request, generated>>
  <2>1. \A r \in Report : (Exists(r)' <=> Exists(r)) /\ (Replaced(r) => Replaced(r)')
    BY <1>2 DEF Exists, Replaced
  <2> QED
    BY <1>1, <1>2, <2>1, FallbackKept
<1>3. ASSUME NEW included \in SUBSET Final, Generate(task', included)
      PROVE  FallbackInv'
  BY <1>1, <1>3, GenerateFallback
<1>4. CASE Existing # {} /\ request' = ReadyRequests(Existing)
           /\ UNCHANGED <<status, revisions, generated>>
  <2>1. request \in Seq(Request) /\ Existing \in SUBSET Report
    BY DEF IInv, Types, RequestType, Existing
  <2>2. /\ DOMAIN request' = DOMAIN request
        /\ \A i \in DOMAIN request :
             request[i].status # "WaitingForTasks" => request'[i] = request[i]
    BY <1>4, <2>1, ReadyRows
  <2>3. request' = <<>> => request = <<>>
    <3> SUFFICES ASSUME DOMAIN request = {} PROVE request = <<>>
      BY <2>2
    <3>1. DOMAIN request = 1..Len(request) /\ Len(request) \in Nat
      BY <2>1
    <3>2. Len(request) = 0
      BY <3>1
    <3> QED
      BY <2>1, <3>2, EmptySeq
  <2>4. ASSUME ~dropped PROVE Asked /\ Bound /\ \A i \in DOMAIN request : request'[i] = request[i]
    BY <1>4, <2>2, <2>4 DEF FallbackInv, Readied
  <2>5. ASSUME ~dropped PROVE Bound'
    <3> SUFFICES ASSUME worker # Resting
                 PROVE  request'[worker.request].report = worker.report
      BY <1>1 DEF Bound
    <3>1. worker.request \in DOMAIN request
      BY <2>1 DEF IInv, Types, WorkerType
    <3> QED
      BY <2>4, <2>5, <3>1 DEF Bound
  <2>6. CASE dropped
    BY <1>1, <2>3, <2>6 DEF FallbackInv
  <2>7. CASE ~dropped
    <3>1. \A i \in DOMAIN request :
            /\ request'[i].report = request[i].report
            /\ ~dropped /\ request'[i].status # request[i].status =>
                 /\ request[i].report # NoReport
                 /\ request'[i].status \notin {"WaitingForTasks", "gone"}
            /\ ~dropped /\ request'[i].status = "Success" =>
                 request[i].status = "Success" \/ Replaced(request[i].report)'
      BY <2>4, <2>7
    <3>2. \A r \in Report : Replaced(r) => Replaced(r)'
      BY <1>4 DEF Replaced
    <3> QED
      BY <1>1, <1>4, <2>2, <2>3, <2>5, <3>1, <3>2, AskedKept
  <2> QED
    BY <2>6, <2>7
<1>5. ASSUME NEW included \in SUBSET Final, NEW force \in BOOLEAN,
             Complete(task', included, force)
      PROVE  FallbackInv'
  BY <1>2, <1>3, <1>4, <1>5 DEF Complete
<1> QED
  BY <1>2, <1>5 DEF Completion

LEMMA NextFallback == IInv /\ FallbackInv /\ [Next]_vars => FallbackInv'
<1> SUFFICES ASSUME IInv, FallbackInv, [Next]_vars PROVE FallbackInv'
  OBVIOUS
<1>1. CASE \/ \E h \in Host : Result(h)
           \/ \E late \in SUBSET Host : TimeOut(late)
           \/ \E allowed \in SUBSET Host : CancelPending(allowed) \/ FinalizeReport(allowed)
  BY <1>1, CompletionSteps, CompletionFallback DEF IInv
<1>2. CASE \/ DeleteJob
           \/ \E h \in Host : ResultCut(h)
           \/ \E r \in Report : DeleteReport(r) \/ Expire(r)
  BY <1>2, LostFallback
<1>3. CASE \/ \E r \in Report : PublishBegins(r)
           \/ \E h \in Host : DeleteHost(h)
           \/ \E h \in Host : PollRejects(h)
           \/ Restart
           \/ UNCHANGED vars
  BY <1>3, QuietFallback
<1>4. ASSUME NEW r \in Report, Dismiss(r) \/ SendBegins(r) \/ SendEnds(r)
      PROVE  FallbackInv'
  BY <1>4, OperatorFallback
<1>5. ASSUME NEW r \in Report, Save(r) \/ RequestAi(r) PROVE FallbackInv'
  BY <1>5, SaveFallback, RequestAiFallback
<1>6. CASE AiWorker
  BY <1>6, AiClaimsFallback, AiEndsFallback DEF AiWorker
<1>7. CASE Mailer
  BY <1>7, ClaimsFallback, ServedFallback DEF Mailer
<1> QED
  BY <1>1, <1>2, <1>3, <1>4, <1>5, <1>6, <1>7 DEF Next, Operator

\* A job with an AI report does not get the text without the model mailed by itself,
\* whatever restarts, failures of the model, repeated requests, edits and rounds of the
\* mailer come in between.
THEOREM ReportsNoFallbackMailed == Spec => []NoFallbackMailed
<1>1. FallbackInv => NoFallbackMailed
  <2> SUFFICES ASSUME FallbackInv, WithAi, ~dropped, NEW r \in Report, NEW i \in DOMAIN request,
                      request[i].report = r, generated[r] = 1,
                      \A j \in DOMAIN request : request[j].report = r
               PROVE  \A m \in mailed : m[1] = r => m[2].kind # "generated"
    BY DEF NoFallbackMailed
  <2>1. request # <<>> /\ Rewritten(r)
    BY DEF FallbackInv
  <2> QED
    BY <2>1 DEF Rewritten, Only, NoneMailed
<1> QED
  BY <1>1, Invariant, InitFallback, NextFallback, PTL DEF Spec
=============================================================================
