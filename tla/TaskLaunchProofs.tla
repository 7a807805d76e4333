-------------------------- MODULE TaskLaunchProofs ---------------------------
(***************************************************************************)
(* Proofs about TaskLaunch: types, that what runs for a schedule, a        *)
(* trigger or a key was approved, that tasks stay in scope, that a date is *)
(* not run for twice, and that no active date is forgotten; for any        *)
(* templates, schedules, rules, rights and number of changes.              *)
(***************************************************************************)
EXTENDS TaskLaunch, TLAPS

SealsType == templates \in [Template -> Row] /\ endorsed \subseteq Template \X Content

PlansType ==
  /\ schedules \in [Schedule -> Plan]
  /\ armed \subseteq Schedule /\ due \subseteq Schedule /\ running \subseteq Schedule
  /\ runs \in [Schedule -> 0..2]

MetricsType ==
  /\ rules \in [Rule -> Trigger]
  /\ waiting \subseteq Host \X Rule \X BOOLEAN /\ stored \subseteq Host \X Rule

AccessType == fleet \in Fleet /\ rights \in [{"operator", "key"} -> Scope]

\* A seal is one of the content at hand, and of one that was endorsed.
SealInv ==
  \A t \in Template : templates[t].approved =>
    templates[t].seal = templates[t].content
      /\ (templates[t].content # None => <<t, templates[t].content>> \in endorsed)

\* A date that is past is not armed, and once it was run for nothing is left that would
\* run again.
DateInv ==
  \A s \in Schedule : Planned(s) /\ schedules[s].once =>
    /\ schedules[s].past => s \notin armed
    /\ runs[s] > 0 => runs[s] = 1 /\ schedules[s].past /\ s \notin due

\* The operator and the key stay what they are.
RightsInv == ~Superadmin(rights["operator"]) /\ ~Superadmin(rights["key"])

IInv == TypeOK /\ SealInv /\ OnlyEndorsed /\ DateInv /\ ActiveIsArmed /\ RightsInv /\ LaunchInScope

-----------------------------------------------------------------------------
(* Templates and their seals.                                              *)

LEMMA RowType ==
  ASSUME NEW c \in Content, NEW author \in Person \cup {None}, NEW approved \in BOOLEAN,
         NEW seal \in Content \cup {None}
  PROVE  [content |-> c, author |-> author, approved |-> approved, seal |-> seal] \in Row
BY DEF Row

LEMMA NameType == \A a \in Actor : NameOf(a) \in Person
BY DEF NameOf, Actor, Person

LEMMA ResealedType ==
  ASSUME NEW a, NEW row \in Row, NEW c \in Content, NEW say
  PROVE  Resealed(a, row, c, say) \in Row
BY DEF Resealed, Row

LEMMA SealsTypeHolds == SealsType /\ TemplateStep => SealsType'
<1> SUFFICES ASSUME SealsType, TemplateStep PROVE SealsType'
  OBVIOUS
<1> USE DEF SealsType
<1>1. ASSUME NEW a \in Actor, NEW t \in Template, CreateTemplate(a, t) PROVE SealsType'
  BY <1>1, NameType, RowType DEF CreateTemplate
<1>2. ASSUME NEW a \in Actor, NEW t \in Template, EditTemplate(a, t) PROVE SealsType'
  <2>1. PICK c \in Content, say \in {"yes", "no", "nothing"} :
          /\ templates' = [templates EXCEPT ![t] = Resealed(a, templates[t], c, say)]
          /\ endorsed' \subseteq endorsed \cup {<<t, c>>}
    <3>1. templates[t].content \in Content
      BY <1>2 DEF EditTemplate, Exists, Row
    <3> QED
      BY <1>2, <3>1 DEF EditTemplate, Content
  <2> QED
    BY <2>1, ResealedType
<1>3. ASSUME NEW a \in Actor, NEW t \in Template, ImportTemplate(a, t) PROVE SealsType'
  <2>1. templates[t].author \in Person \cup {None} /\ NameOf(a) \in Person
    BY NameType DEF Row
  <2>2. PICK c \in Content, approve \in BOOLEAN :
          /\ templates' = [templates EXCEPT ![t] =
               [content |-> c, author |-> IF Exists(t) THEN templates[t].author ELSE NameOf(a),
                approved |-> approve, seal |-> IF approve THEN c ELSE None]]
          /\ endorsed' \subseteq endorsed \cup {<<t, c>>}
    BY <1>3 DEF ImportTemplate
  <2> QED
    BY <2>1, <2>2, RowType
<1>4. ASSUME NEW a \in Actor, NEW t \in Template, NEW source \in Template,
             CloneTemplate(a, t, source)
      PROVE  SealsType'
  <2>1. [templates[source].content EXCEPT !.policy = {}] \in Content
    BY <1>4 DEF CloneTemplate, InLibrary, Exists, Row, Content
  <2> QED
    BY <1>4, <2>1, NameType, RowType DEF CloneTemplate
<1>5. ASSUME NEW t \in Template, DeleteTemplate(t) PROVE SealsType'
  BY <1>5 DEF DeleteTemplate, NoRow, Row
<1> QED
  BY <1>1, <1>2, <1>3, <1>4, <1>5 DEF TemplateStep

LEMMA SealInvHolds == SealsType /\ SealInv /\ TemplateStep => SealInv'
<1> SUFFICES ASSUME SealsType, SealInv, TemplateStep PROVE SealInv'
  OBVIOUS
<1> USE DEF SealsType, SealInv
<1>1. ASSUME NEW a \in Actor, NEW t \in Template, CreateTemplate(a, t) PROVE SealInv'
  BY <1>1 DEF CreateTemplate
<1>2. ASSUME NEW a \in Actor, NEW t \in Template, EditTemplate(a, t) PROVE SealInv'
  <2>1. PICK c, say :
          /\ templates' = [templates EXCEPT ![t] = Resealed(a, templates[t], c, say)]
          /\ endorsed' = CASE a = "admin" /\ say = "yes" -> endorsed \cup {<<t, c>>}
                           [] a = "admin" /\ say = "no" -> endorsed \ {<<t, c>>}
                           [] OTHER -> endorsed
    BY <1>2 DEF EditTemplate
  <2>2. ASSUME NEW u \in Template, u # t, templates'[u].approved
        PROVE  /\ templates'[u].seal = templates'[u].content
               /\ templates'[u].content # None => <<u, templates'[u].content>> \in endorsed'
    <3>1. templates'[u] = templates[u]
      BY <2>1, <2>2
    <3>2. <<u, templates[u].content>> # <<t, c>>
      BY <2>2
    <3> QED
      BY <2>1, <2>2, <3>1, <3>2
  <2>3. ASSUME templates'[t].approved
        PROVE  /\ templates'[t].seal = templates'[t].content
               /\ templates'[t].content # None => <<t, templates'[t].content>> \in endorsed'
    <3>1. templates'[t] = Resealed(a, templates[t], c, say)
      BY <2>1
    <3>2. templates'[t].content = c
      BY <3>1 DEF Resealed, Row
    <3>3. CASE a = "admin" /\ say = "yes"
      BY <2>1, <3>1, <3>2, <3>3 DEF Resealed, Row
    <3>4. CASE ~(a = "admin" /\ say = "yes")
      <4>1. templates[t].approved /\ templates[t].seal = c /\ ~(a = "admin" /\ say = "no")
        BY <2>3, <3>1, <3>4 DEF Resealed, Row
      <4>2. templates'[t].seal = c
        BY <3>1, <3>4, <4>1 DEF Resealed, Row
      <4> QED
        BY <2>1, <3>2, <3>4, <4>1, <4>2
    <3> QED
      BY <3>3, <3>4
  <2> QED
    BY <2>2, <2>3
<1>3. ASSUME NEW a \in Actor, NEW t \in Template, ImportTemplate(a, t) PROVE SealInv'
  <2>1. PICK c \in Content, approve \in BOOLEAN :
          /\ templates' = [templates EXCEPT ![t] =
               [content |-> c, author |-> IF Exists(t) THEN templates[t].author ELSE NameOf(a),
                approved |-> approve, seal |-> IF approve THEN c ELSE None]]
          /\ endorsed' = IF approve THEN endorsed \cup {<<t, c>>} ELSE endorsed
    BY <1>3 DEF ImportTemplate
  <2>2. ASSUME NEW u \in Template, u # t, templates'[u].approved
        PROVE  /\ templates'[u].seal = templates'[u].content
               /\ templates'[u].content # None => <<u, templates'[u].content>> \in endorsed'
    BY <2>1, <2>2
  <2>3. templates'[t].approved => templates'[t].seal = templates'[t].content
                                    /\ <<t, templates'[t].content>> \in endorsed'
    BY <2>1
  <2> QED
    BY <2>2, <2>3
<1>4. ASSUME NEW a \in Actor, NEW t \in Template, NEW source \in Template,
             CloneTemplate(a, t, source)
      PROVE  SealInv'
  BY <1>4 DEF CloneTemplate
<1>5. ASSUME NEW t \in Template, DeleteTemplate(t) PROVE SealInv'
  BY <1>5 DEF DeleteTemplate, NoRow
<1> QED
  BY <1>1, <1>2, <1>3, <1>4, <1>5 DEF TemplateStep

-----------------------------------------------------------------------------
(* What each group of steps leaves alone.                                  *)

LEMMA Frames ==
  /\ TemplateStep => UNCHANGED <<job, waiting, stored, access, armed, due, running, runs>>
  /\ ScheduleStep => UNCHANGED <<seals, metrics, access>>
  /\ TriggerStep => UNCHANGED <<seals, plans, access>>
  /\ LaunchStep => UNCHANGED <<seals, plans, metrics, access, edits>>
  /\ FleetStep => UNCHANGED <<job, seals, plans, rules>>
<1>1. TemplateStep => UNCHANGED <<job, waiting, stored, access, armed, due, running, runs>>
  BY DEF TemplateStep, CreateTemplate, EditTemplate, ImportTemplate, CloneTemplate,
         DeleteTemplate, plans, metrics
<1>2. ScheduleStep => UNCHANGED <<seals, metrics, access>>
  BY DEF ScheduleStep, SaveSchedule, RunNow, DeleteSchedule, Fire, Missed, RunDue,
         RunNoted, Restart
<1>3. TriggerStep => UNCHANGED <<seals, plans, access>>
  BY DEF TriggerStep, SaveTrigger, DeleteTrigger, Measure, MetricReport, ReportMetric,
         TriggerUnapproved, TriggerFires, TriggerFails, Taken, vars
<1>4. LaunchStep => UNCHANGED <<seals, plans, metrics, access, edits>>
  BY DEF LaunchStep, CreateTask, RunTemplate, SendScript
<1>5. FleetStep => UNCHANGED <<job, seals, plans, rules>>
  BY DEF FleetStep, SetApproval, SetBlocked, RemoveMembers, CreateGroup, DeleteGroup,
         AddMember, DeleteHost, SetUserRights, SetKeyRights, FleetEdited, metrics
<1> QED
  BY <1>1, <1>2, <1>3, <1>4, <1>5

LEMMA EditsType == edits \in 0..MaxEdits /\ Step => edits' \in 0..MaxEdits
<1> SUFFICES ASSUME edits \in 0..MaxEdits, Step PROVE edits' \in 0..MaxEdits
  OBVIOUS
<1>1. Edited => edits' \in 0..MaxEdits
  BY EditsAssumption DEF Edited
<1>2. TemplateStep => Edited
  BY DEF TemplateStep, CreateTemplate, EditTemplate, ImportTemplate, CloneTemplate,
         DeleteTemplate
<1>3. ScheduleStep => Edited \/ UNCHANGED edits
  BY DEF ScheduleStep, SaveSchedule, RunNow, DeleteSchedule, Fire, Missed, RunDue,
         RunNoted, Restart
<1>4. TriggerStep => Edited \/ UNCHANGED edits
  BY DEF TriggerStep, SaveTrigger, DeleteTrigger, Measure, MetricReport, ReportMetric,
         TriggerUnapproved, TriggerFires, TriggerFails, Taken, vars
<1>5. FleetStep => Edited
  BY DEF FleetStep, SetApproval, SetBlocked, RemoveMembers, CreateGroup, DeleteGroup,
         AddMember, DeleteHost, SetUserRights, SetKeyRights, FleetEdited
<1> QED
  BY <1>1, <1>2, <1>3, <1>4, <1>5, Frames DEF Step

-----------------------------------------------------------------------------
(* Schedules.                                                              *)

LEMMA NoPlanType == NoPlan \in Plan
BY SetsAssumption DEF NoPlan, Plan

LEMMA PlanParts ==
  ASSUME NEW row \in Plan, NEW b \in BOOLEAN
  PROVE  [row EXCEPT !.active = b] \in Plan /\ [row EXCEPT !.past = b] \in Plan
BY DEF Plan

LEMMA ReloadedFacts ==
  ASSUME NEW rows \in [Schedule -> Plan], Reloaded(rows)
  PROVE  /\ schedules' \in [Schedule -> Plan]
         /\ armed' \subseteq Schedule
         /\ \A s \in Schedule :
              /\ schedules'[s].template = rows[s].template
              /\ schedules'[s].once = rows[s].once
              /\ schedules'[s].past = rows[s].past
              /\ schedules'[s].once /\ schedules'[s].past => s \notin armed'
              /\ schedules'[s].template # None /\ schedules'[s].active
                   /\ ~schedules'[s].past => s \in armed'
<1> DEFINE live == {s \in Schedule : rows[s].template # None /\ rows[s].active}
           expired == {s \in live : rows[s].once /\ rows[s].past}
<1>1. /\ armed' = live \ expired
      /\ schedules' = [s \in Schedule |->
           IF s \in expired THEN [rows[s] EXCEPT !.active = FALSE] ELSE rows[s]]
  BY DEF Reloaded
<1>2. ASSUME NEW s \in Schedule
      PROVE  /\ rows[s] \in Plan /\ schedules'[s] \in Plan
             /\ schedules'[s] = IF s \in expired THEN [rows[s] EXCEPT !.active = FALSE]
                                ELSE rows[s]
  BY <1>1 DEF Plan
<1>3. schedules' \in [Schedule -> Plan] /\ armed' \subseteq Schedule
  BY <1>1, <1>2
<1>4. ASSUME NEW s \in Schedule
      PROVE  /\ schedules'[s].template = rows[s].template
             /\ schedules'[s].once = rows[s].once
             /\ schedules'[s].past = rows[s].past
             /\ schedules'[s].active => rows[s].active
  BY <1>2 DEF Plan
<1>5. ASSUME NEW s \in Schedule, s \in expired PROVE ~schedules'[s].active
  BY <1>2, <1>5 DEF Plan
<1> HIDE DEF expired
<1>6. \A s \in live : s \in expired <=> rows[s].once /\ rows[s].past
  BY DEF expired
<1> QED
  BY <1>1, <1>3, <1>4, <1>5, <1>6

\* The rows that a request or a restart loads.
LEMMA SaveRows ==
  ASSUME PlansType, NEW s \in Schedule, NEW a \in Actor, SaveSchedule(a, s)
  PROVE  \E rows \in [Schedule -> Plan] :
           Reloaded(rows) /\ \A u \in Schedule : u # s => rows[u] = schedules[u]
<1>1. PICK t \in Template, target \in Host \cup Group, once \in BOOLEAN,
           active \in BOOLEAN, filled \in BOOLEAN :
        Reloaded([schedules EXCEPT ![s] =
          [template |-> t, target |-> target, once |-> once, past |-> FALSE,
           active |-> active, filled |-> filled]])
  BY DEF SaveSchedule
<1>2. [template |-> t, target |-> target, once |-> once, past |-> FALSE,
       active |-> active, filled |-> filled] \in Plan
  BY DEF Plan
<1> QED
  BY <1>1, <1>2 DEF PlansType

LEMMA RestartRows ==
  ASSUME PlansType, Restart
  PROVE  \E rows \in [Schedule -> Plan] :
           /\ Reloaded(rows)
           /\ \A s \in Schedule : /\ rows[s].template = schedules[s].template
                                  /\ rows[s].once = schedules[s].once
                                  /\ schedules[s].past => rows[s].past
<1>1. PICK late \in SUBSET Schedule :
        Reloaded([s \in Schedule |-> [schedules[s] EXCEPT !.past = @ \/ s \in late]])
  BY DEF Restart
<1> DEFINE rows == [s \in Schedule |-> [schedules[s] EXCEPT !.past = @ \/ s \in late]]
<1>2. ASSUME NEW s \in Schedule
      PROVE  /\ rows[s] \in Plan
             /\ rows[s].template = schedules[s].template /\ rows[s].once = schedules[s].once
             /\ schedules[s].past => rows[s].past
  BY DEF PlansType, Plan
<1> QED
  BY <1>1, <1>2

LEMMA PlansTypeHolds == PlansType /\ Step => PlansType'
<1> SUFFICES ASSUME PlansType, Step PROVE PlansType'
  OBVIOUS
<1> USE DEF PlansType
<1>1. CASE TemplateStep
  <2>1. UNCHANGED <<armed, due, running, runs>>
    BY <1>1, Frames
  <2>2. ASSUME NEW t \in Template, DeleteTemplate(t)
        PROVE  schedules' \in [Schedule -> Plan]
    <3>1. \A s \in Schedule : [NoPlan EXCEPT !.once = schedules[s].once] \in Plan
      BY NoPlanType DEF Plan
    <3> QED
      BY <2>2, <3>1 DEF DeleteTemplate
  <2>3. UNCHANGED schedules \/ \E t \in Template : DeleteTemplate(t)
    BY <1>1 DEF TemplateStep, CreateTemplate, EditTemplate, ImportTemplate,
                CloneTemplate, plans
  <2> QED
    BY <2>1, <2>2, <2>3
<1>2. CASE ScheduleStep
  <2>1. ASSUME NEW a \in Actor, NEW s \in Schedule, SaveSchedule(a, s) PROVE PlansType'
    <3>1. UNCHANGED <<due, running>> /\ runs' = [runs EXCEPT ![s] = 0]
      BY <2>1 DEF SaveSchedule
    <3> QED
      BY <2>1, <3>1, SaveRows, ReloadedFacts
  <2>2. ASSUME NEW s \in Schedule, DeleteSchedule(s) PROVE PlansType'
    <3>1. UNCHANGED <<due, running, runs>> /\ Reloaded([schedules EXCEPT ![s] = NoPlan])
      BY <2>2 DEF DeleteSchedule
    <3>2. [schedules EXCEPT ![s] = NoPlan] \in [Schedule -> Plan]
      BY NoPlanType
    <3> QED
      BY <3>1, <3>2, ReloadedFacts
  <2>3. ASSUME NEW s \in Schedule, Fire(s) \/ Missed(s) \/ RunNoted(s) PROVE PlansType'
    <3>1. UNCHANGED runs /\ armed' \subseteq Schedule /\ due' \subseteq Schedule
            /\ running' \subseteq Schedule
      BY <2>3 DEF Fire, Missed, RunNoted
    <3>2. \/ UNCHANGED schedules
          \/ schedules' = [schedules EXCEPT ![s].past = TRUE]
          \/ schedules' = [schedules EXCEPT ![s].active = @ /\ ~schedules[s].once]
      BY <2>3 DEF Fire, Missed, RunNoted, Noted
    <3>3. /\ [schedules[s] EXCEPT !.past = TRUE] \in Plan
          /\ [schedules[s] EXCEPT !.active = @ /\ ~schedules[s].once] \in Plan
      <4>1. schedules[s] \in Plan
        OBVIOUS
      <4>2. (schedules[s].active /\ ~schedules[s].once) \in BOOLEAN
        OBVIOUS
      <4> QED
        BY <4>1, <4>2, PlanParts
    <3>4. schedules' \in [Schedule -> Plan]
      BY <3>2, <3>3
    <3> QED
      BY <3>1, <3>4
  <2>4. ASSUME NEW s \in Schedule, RunDue(s) PROVE PlansType'
    <3>1. UNCHANGED <<schedules, armed>> /\ due' \subseteq Schedule /\ running' \subseteq Schedule
      BY <2>4 DEF RunDue
    <3>2. UNCHANGED runs
            \/ runs' = [runs EXCEPT ![s] = IF Counts(s) /\ @ < 2 THEN @ + 1 ELSE @]
      BY <2>4 DEF RunDue
    <3>3. runs' \in [Schedule -> 0..2]
      BY <3>2
    <3> QED
      BY <3>1, <3>3
  <2>5. ASSUME Restart PROVE PlansType'
    <3>1. due' = {} /\ running' = {} /\ UNCHANGED runs
      BY <2>5 DEF Restart
    <3> QED
      BY <2>5, <3>1, RestartRows, ReloadedFacts
  <2>6. ASSUME NEW a \in Actor, NEW s \in Schedule, RunNow(a, s) PROVE PlansType'
    BY <2>6 DEF RunNow, plans
  <2> QED
    BY <1>2, <2>1, <2>2, <2>3, <2>4, <2>5, <2>6 DEF ScheduleStep
<1>3. CASE TriggerStep \/ LaunchStep \/ FleetStep
  BY <1>3, Frames DEF plans
<1> QED
  BY <1>1, <1>2, <1>3 DEF Step

LEMMA DateInvHolds == PlansType /\ DateInv /\ Step => DateInv'
<1> SUFFICES ASSUME PlansType, DateInv, Step PROVE DateInv'
  OBVIOUS
<1> USE DEF DateInv, Planned
<1>1. CASE TemplateStep
  <2>1. UNCHANGED <<armed, due, running, runs>>
    BY <1>1, Frames
  <2>2. ASSUME NEW t \in Template, DeleteTemplate(t) PROVE DateInv'
    <3>1. \A s \in Schedule : schedules'[s] = schedules[s] \/ schedules'[s].template = None
      BY <2>2 DEF DeleteTemplate, NoPlan
    <3> QED
      BY <2>1, <3>1
  <2>3. UNCHANGED schedules \/ \E t \in Template : DeleteTemplate(t)
    BY <1>1 DEF TemplateStep, CreateTemplate, EditTemplate, ImportTemplate,
                CloneTemplate, plans
  <2> QED
    BY <2>1, <2>2, <2>3
<1>2. CASE ScheduleStep
  <2>1. ASSUME NEW a \in Actor, NEW s \in Schedule, SaveSchedule(a, s) PROVE DateInv'
    <3>1. UNCHANGED due /\ runs' = [runs EXCEPT ![s] = 0]
      BY <2>1 DEF SaveSchedule
    <3>2. runs'[s] = 0 /\ \A u \in Schedule : u # s => runs'[u] = runs[u]
      BY <3>1 DEF PlansType
    <3> QED
      BY <2>1, <3>1, <3>2, SaveRows, ReloadedFacts
  <2>2. ASSUME NEW s \in Schedule, DeleteSchedule(s) PROVE DateInv'
    <3>1. UNCHANGED <<due, runs>> /\ Reloaded([schedules EXCEPT ![s] = NoPlan])
      BY <2>2 DEF DeleteSchedule
    <3>2. [schedules EXCEPT ![s] = NoPlan] \in [Schedule -> Plan]
      BY NoPlanType DEF PlansType
    <3>3. \A u \in Schedule : schedules'[u].template = None
                                \/ (schedules'[u].once = schedules[u].once
                                      /\ schedules'[u].past = schedules[u].past
                                      /\ schedules'[u].template = schedules[u].template)
      BY <3>1, <3>2, ReloadedFacts DEF PlansType, NoPlan
    <3> QED
      BY <3>1, <3>2, <3>3, ReloadedFacts
  <2>3. ASSUME NEW s \in Schedule, Fire(s) \/ Missed(s) PROVE DateInv'
    <3>1. s \in armed /\ UNCHANGED runs /\ due' \subseteq due \cup {s}
      BY <2>3 DEF Fire, Missed
    <3>2. CASE schedules[s].once
      <4>1. armed' = armed \ {s} /\ schedules' = [schedules EXCEPT ![s].past = TRUE]
        BY <2>3, <3>2 DEF Fire, Missed
      <4>2. \A u \in Schedule : /\ schedules'[u].template = schedules[u].template
                                /\ schedules'[u].once = schedules[u].once
                                /\ u # s => schedules'[u] = schedules[u]
        BY <4>1 DEF PlansType, Plan
      <4>3. Planned(s) => ~(runs[s] > 0)
        BY <3>1, <3>2
      <4> QED
        BY <3>1, <3>2, <4>1, <4>2, <4>3
    <3>3. CASE ~schedules[s].once
      <4>1. UNCHANGED <<armed, schedules>>
        BY <2>3, <3>3 DEF Fire, Missed
      <4> QED
        BY <3>1, <3>3, <4>1
    <3> QED
      BY <3>2, <3>3
  <2>4. ASSUME NEW s \in Schedule, RunDue(s) PROVE DateInv'
    <3>1. s \in due /\ due' = due \ {s} /\ UNCHANGED <<schedules, armed>>
      BY <2>4 DEF RunDue
    <3>2. UNCHANGED runs
            \/ runs' = [runs EXCEPT ![s] = IF Counts(s) /\ @ < 2 THEN @ + 1 ELSE @]
      BY <2>4 DEF RunDue
    <3>3. \A u \in Schedule : u # s => runs'[u] = runs[u]
      BY <3>2 DEF PlansType
    <3>4. runs'[s] = runs[s] \/ (Counts(s) /\ runs'[s] = runs[s] + 1)
      BY <3>2 DEF PlansType
    <3>5. runs[s] \in 0..2 /\ (Planned(s) /\ schedules[s].once => ~(runs[s] > 0))
      BY <3>1 DEF PlansType
    <3>6. Planned(s) /\ schedules[s].once /\ runs'[s] > 0 =>
            runs'[s] = 1 /\ schedules[s].past
      BY <3>4, <3>5 DEF Counts
    <3> QED
      BY <3>1, <3>3, <3>6
  <2>5. ASSUME Restart PROVE DateInv'
    <3>1. due' = {} /\ running' = {} /\ UNCHANGED runs
      BY <2>5 DEF Restart
    <3> QED
      BY <2>5, <3>1, RestartRows, ReloadedFacts
  <2>6. ASSUME NEW s \in Schedule, RunNoted(s) PROVE DateInv'
    <3>1. /\ UNCHANGED <<armed, due, runs>>
          /\ schedules' = [schedules EXCEPT ![s].active = @ /\ ~schedules[s].once]
      BY <2>6 DEF RunNoted, Noted
    <3>2. \A u \in Schedule : /\ schedules'[u].template = schedules[u].template
                              /\ schedules'[u].once = schedules[u].once
                              /\ schedules'[u].past = schedules[u].past
      BY <3>1 DEF PlansType, Plan
    <3> QED
      BY <3>1, <3>2
  <2>7. ASSUME NEW a \in Actor, NEW s \in Schedule, RunNow(a, s) PROVE DateInv'
    BY <2>7 DEF RunNow, plans
  <2> QED
    BY <1>2, <2>1, <2>2, <2>3, <2>4, <2>5, <2>6, <2>7 DEF ScheduleStep
<1>3. CASE TriggerStep \/ LaunchStep \/ FleetStep
  BY <1>3, Frames DEF plans
<1> QED
  BY <1>1, <1>2, <1>3 DEF Step

LEMMA ActiveIsArmedHolds == PlansType /\ ActiveIsArmed /\ Step => ActiveIsArmed'
<1> SUFFICES ASSUME PlansType, ActiveIsArmed, Step PROVE ActiveIsArmed'
  OBVIOUS
<1> USE DEF ActiveIsArmed, Planned
<1>1. CASE TemplateStep
  <2>1. UNCHANGED armed
    BY <1>1, Frames
  <2>2. ASSUME NEW t \in Template, DeleteTemplate(t) PROVE ActiveIsArmed'
    <3>1. \A s \in Schedule : schedules'[s] = schedules[s] \/ schedules'[s].template = None
      BY <2>2 DEF DeleteTemplate, NoPlan
    <3> QED
      BY <2>1, <3>1
  <2>3. UNCHANGED schedules \/ \E t \in Template : DeleteTemplate(t)
    BY <1>1 DEF TemplateStep, CreateTemplate, EditTemplate, ImportTemplate,
                CloneTemplate, plans
  <2> QED
    BY <2>1, <2>2, <2>3
<1>2. CASE ScheduleStep
  <2>1. ASSUME NEW rows \in [Schedule -> Plan], Reloaded(rows) PROVE ActiveIsArmed'
    BY <2>1, ReloadedFacts
  <2>2. ASSUME NEW s \in Schedule, DeleteSchedule(s) PROVE ActiveIsArmed'
    <3>1. [schedules EXCEPT ![s] = NoPlan] \in [Schedule -> Plan]
      BY NoPlanType DEF PlansType
    <3> QED
      BY <2>1, <2>2, <3>1 DEF DeleteSchedule
  <2>3. ASSUME NEW s \in Schedule, Fire(s) \/ Missed(s) PROVE ActiveIsArmed'
    <3>1. CASE schedules[s].once
      <4>1. armed' = armed \ {s} /\ schedules' = [schedules EXCEPT ![s].past = TRUE]
        BY <2>3, <3>1 DEF Fire, Missed
      <4>2. \A u \in Schedule : u # s => schedules'[u] = schedules[u]
        BY <4>1 DEF PlansType
      <4>3. schedules'[s].past
        BY <4>1 DEF PlansType, Plan
      <4> QED
        BY <4>1, <4>2, <4>3
    <3>2. CASE ~schedules[s].once
      BY <2>3, <3>2 DEF Fire, Missed
    <3> QED
      BY <3>1, <3>2
  <2>4. ASSUME NEW s \in Schedule, RunDue(s) PROVE ActiveIsArmed'
    BY <2>4 DEF RunDue
  <2>5. ASSUME NEW s \in Schedule, RunNoted(s) PROVE ActiveIsArmed'
    <3>1. /\ UNCHANGED armed
          /\ schedules' = [schedules EXCEPT ![s].active = @ /\ ~schedules[s].once]
      BY <2>5 DEF RunNoted, Noted
    <3>2. \A u \in Schedule : /\ schedules'[u].template = schedules[u].template
                              /\ schedules'[u].past = schedules[u].past
                              /\ schedules'[u].active => schedules[u].active
      BY <3>1 DEF PlansType, Plan
    <3> QED
      BY <3>1, <3>2
  <2>6. ASSUME NEW a \in Actor, NEW s \in Schedule, RunNow(a, s) PROVE ActiveIsArmed'
    BY <2>6 DEF RunNow, plans
  <2> QED
    BY <1>2, <2>1, <2>2, <2>3, <2>4, <2>5, <2>6, SaveRows, RestartRows DEF ScheduleStep
<1>3. CASE TriggerStep \/ LaunchStep \/ FleetStep
  BY <1>3, Frames DEF plans
<1> QED
  BY <1>1, <1>2, <1>3 DEF Step
-----------------------------------------------------------------------------
(* Rules and measured values.                                              *)

LEMMA MetricsTypeHolds == MetricsType /\ Step => MetricsType'
<1> SUFFICES ASSUME MetricsType, Step PROVE MetricsType'
  OBVIOUS
<1> USE DEF MetricsType
<1>1. CASE TemplateStep
  <2>1. UNCHANGED <<waiting, stored>>
    BY <1>1, Frames
  <2>2. ASSUME NEW t \in Template, DeleteTemplate(t) PROVE rules' \in [Rule -> Trigger]
    <3>1. \A r \in Rule : [rules[r] EXCEPT !.template = None] \in Trigger
      BY DEF Trigger
    <3> QED
      BY <2>2, <3>1 DEF DeleteTemplate
  <2>3. UNCHANGED rules \/ \E t \in Template : DeleteTemplate(t)
    BY <1>1 DEF TemplateStep, CreateTemplate, EditTemplate, ImportTemplate,
                CloneTemplate, metrics
  <2> QED
    BY <2>1, <2>2, <2>3
<1>2. CASE TriggerStep
  <2>1. ASSUME NEW a \in Actor, NEW r \in Rule, SaveTrigger(a, r) PROVE MetricsType'
    BY <2>1 DEF SaveTrigger, Trigger
  <2>2. ASSUME NEW r \in Rule, DeleteTrigger(r) PROVE MetricsType'
    BY <2>2 DEF DeleteTrigger, NoTrigger, Trigger
  <2>3. ASSUME NEW h \in Host, NEW r \in Rule, Measure(h, r) PROVE MetricsType'
    BY <2>3 DEF Measure
  <2>4. ASSUME NEW h \in Host, NEW r \in Rule, MetricReport(h, r) PROVE MetricsType'
    <3>1. /\ UNCHANGED rules /\ waiting' \subseteq waiting
          /\ stored' \subseteq stored \cup {<<h, r>>}
      BY <2>4 DEF MetricReport, ReportMetric, TriggerUnapproved,
                  TriggerFires, TriggerFails, Taken, vars, metrics
    <3> QED
      BY <3>1
  <2> QED
    BY <1>2, <2>1, <2>2, <2>3, <2>4 DEF TriggerStep
<1>3. CASE FleetStep
  <2>1. UNCHANGED rules
    BY <1>3, Frames
  <2>2. UNCHANGED metrics \/ \E h \in Host : DeleteHost(h)
    BY <1>3 DEF FleetStep, SetApproval, SetBlocked, RemoveMembers, CreateGroup,
                DeleteGroup, AddMember, SetUserRights, SetKeyRights, FleetEdited
  <2>3. waiting' \subseteq waiting /\ stored' \subseteq stored
    BY <2>2 DEF DeleteHost, metrics
  <2> QED
    BY <2>1, <2>3
<1>4. CASE ScheduleStep \/ LaunchStep
  BY <1>4, Frames DEF metrics
<1> QED
  BY <1>1, <1>2, <1>3, <1>4 DEF Step

-----------------------------------------------------------------------------
(* Hosts, groups and rights.                                               *)

LEMMA Regrouped ==
  ASSUME NEW scope \in Scope, NEW g \in Group, NEW actions \in SUBSET GroupAction
  PROVE  /\ [scope EXCEPT !.groups[g] = actions] \in Scope
         /\ Superadmin([scope EXCEPT !.groups[g] = actions]) <=> Superadmin(scope)
BY DEF Scope, Superadmin

LEMMA AllowedExist ==
  ASSUME NEW scope, NEW action PROVE AllowedHosts(scope, fleet, action) \subseteq Host
BY DEF AllowedHosts, HostsGranted, Approved

LEMMA FleetHolds == AccessType /\ FleetStep => fleet' \in Fleet
<1> SUFFICES ASSUME AccessType, FleetStep PROVE fleet' \in Fleet
  OBVIOUS
<1> USE DEF AccessType, Fleet
<1>1. ASSUME NEW a \in Actor, NEW hosts \in SUBSET Host,
             NEW status \in {"Pending", "Approved", "Rejected"}, SetApproval(a, hosts, status)
      PROVE  fleet' \in Fleet
  <2>1. PICK blocked \in SUBSET Host, groups \in SUBSET Group, members \in SUBSET Host :
          fleet' = [fleet EXCEPT
            !.status = [h \in Host |-> IF h \in hosts THEN status ELSE fleet.status[h]],
            !.blocked = blocked, !.groups = groups, !.member[Default] = members]
    <3> DEFINE blocked == CASE status = "Rejected" -> fleet.blocked \cup hosts
                            [] status = "Approved" -> fleet.blocked \ hosts
                            [] OTHER -> fleet.blocked
               groups == IF status = "Approved" THEN fleet.groups \cup {Default}
                         ELSE fleet.groups
               members == IF status = "Approved" THEN fleet.member[Default] \cup hosts
                          ELSE fleet.member[Default]
    <3>1. blocked \in SUBSET Host /\ groups \in SUBSET Group /\ members \in SUBSET Host
      BY SetsAssumption
    <3>2. fleet' = [fleet EXCEPT
            !.status = [h \in Host |-> IF h \in hosts THEN status ELSE fleet.status[h]],
            !.blocked = blocked, !.groups = groups, !.member[Default] = members]
      BY <1>1, SetsAssumption DEF SetApproval
    <3> QED
      BY <3>1, <3>2
  <2>2. [h \in Host |-> IF h \in hosts THEN status ELSE fleet.status[h]]
          \in [Host -> {"none", "Pending", "Approved", "Rejected"}]
    OBVIOUS
  <2>3. [fleet.member EXCEPT ![Default] = members] \in [Group -> SUBSET Host]
    OBVIOUS
  <2> QED
    BY <2>1, <2>2, <2>3
<1>2. ASSUME NEW a \in Actor, NEW hosts \in SUBSET Host, NEW block \in BOOLEAN,
             SetBlocked(a, hosts, block)
      PROVE  fleet' \in Fleet
  BY <1>2 DEF SetBlocked
<1>3. ASSUME NEW a \in Actor, NEW hosts \in SUBSET Host, NEW g \in Group,
             RemoveMembers(a, g, hosts)
      PROVE  fleet' \in Fleet
  BY <1>3 DEF RemoveMembers
<1>4. ASSUME NEW a \in Actor, NEW g \in Group, CreateGroup(a, g) \/ DeleteGroup(a, g)
      PROVE  fleet' \in Fleet
  <2>1. \/ fleet' = [fleet EXCEPT !.groups = @ \cup {g}]
        \/ fleet' = [fleet EXCEPT !.groups = @ \ {g}, !.member[g] = {}]
    BY <1>4 DEF CreateGroup, DeleteGroup
  <2>2. [fleet.member EXCEPT ![g] = {}] \in [Group -> SUBSET Host]
    OBVIOUS
  <2>3. fleet.groups \cup {g} \in SUBSET Group /\ fleet.groups \ {g} \in SUBSET Group
    OBVIOUS
  <2>4. CASE fleet' = [fleet EXCEPT !.groups = @ \cup {g}]
    BY <2>3, <2>4
  <2>5. CASE fleet' = [fleet EXCEPT !.groups = @ \ {g}, !.member[g] = {}]
    <3>1. fleet' = [fleet EXCEPT !.groups = fleet.groups \ {g},
                                 !.member = [fleet.member EXCEPT ![g] = {}]]
      BY <2>5
    <3> QED
      BY <2>2, <2>3, <3>1
  <2> QED
    BY <2>1, <2>4, <2>5
<1>5. ASSUME NEW a \in Actor, NEW g \in Group, NEW h \in Host, AddMember(a, g, h)
      PROVE  fleet' \in Fleet
  BY <1>5 DEF AddMember
<1>6. ASSUME NEW h \in Host, DeleteHost(h) PROVE fleet' \in Fleet
  BY <1>6 DEF DeleteHost
<1>7. ASSUME NEW scope, SetUserRights(scope) \/ SetKeyRights(scope) PROVE fleet' \in Fleet
  BY <1>7 DEF SetUserRights, SetKeyRights
<1> QED
  BY <1>1, <1>2, <1>3, <1>4, <1>5, <1>6, <1>7 DEF FleetStep

LEMMA RightsHold ==
  AccessType /\ RightsInv /\ FleetStep
    => rights' \in [{"operator", "key"} -> Scope] /\ RightsInv'
<1> SUFFICES ASSUME AccessType, RightsInv, FleetStep
             PROVE  rights' \in [{"operator", "key"} -> Scope] /\ RightsInv'
  OBVIOUS
<1> USE DEF AccessType, RightsInv
<1>1. ASSUME NEW a \in Actor, NEW g \in Group, CreateGroup(a, g)
      PROVE  rights' \in [{"operator", "key"} -> Scope] /\ RightsInv'
  <2>1. \/ UNCHANGED rights
        \/ rights' = [rights EXCEPT !["operator"] =
             [rights["operator"] EXCEPT !.groups[g] = GroupAction]]
    BY <1>1 DEF CreateGroup
  <2>2. rights["operator"] \in Scope
    OBVIOUS
  <2> QED
    BY <2>1, <2>2, Regrouped
<1>2. ASSUME NEW a \in Actor, NEW g \in Group, DeleteGroup(a, g)
      PROVE  rights' \in [{"operator", "key"} -> Scope] /\ RightsInv'
  <2>1. rights' = [b \in {"operator", "key"} |-> [rights[b] EXCEPT !.groups[g] = {}]]
    BY <1>2 DEF DeleteGroup
  <2>2. \A b \in {"operator", "key"} : rights[b] \in Scope
    OBVIOUS
  <2> QED
    BY <2>1, <2>2, Regrouped
<1>3. ASSUME NEW scope \in OperatorScopes, SetUserRights(scope)
      PROVE  rights' \in [{"operator", "key"} -> Scope] /\ RightsInv'
  <2>1. scope \in Scope /\ ~scope.admin
    BY ScopesAssumption
  <2>2. UserGroups(fleet, scope.groups) \in [Group -> SUBSET GroupAction]
    BY <2>1 DEF UserGroups, Scope
  <2>3. /\ [scope EXCEPT !.groups = UserGroups(fleet, scope.groups)] \in Scope
        /\ ~Superadmin([scope EXCEPT !.groups = UserGroups(fleet, scope.groups)])
    BY <2>1, <2>2 DEF Scope, Superadmin
  <2>4. rights' = [rights EXCEPT !["operator"] =
          [scope EXCEPT !.groups = UserGroups(fleet, scope.groups)]]
    BY <1>3 DEF SetUserRights
  <2> QED
    BY <2>3, <2>4
<1>4. ASSUME NEW scope \in KeyScopes, SetKeyRights(scope)
      PROVE  rights' \in [{"operator", "key"} -> Scope] /\ RightsInv'
  <2>1. scope \in Scope /\ ~Superadmin(scope)
    BY ScopesAssumption DEF Superadmin
  <2> QED
    BY <1>4, <2>1 DEF SetKeyRights
<1>5. ASSUME UNCHANGED rights PROVE rights' \in [{"operator", "key"} -> Scope] /\ RightsInv'
  BY <1>5
<1> QED
  BY <1>1, <1>2, <1>3, <1>4, <1>5
  DEF FleetStep, SetApproval, SetBlocked, RemoveMembers, AddMember, DeleteHost

LEMMA AccessHolds == AccessType /\ RightsInv /\ Step => AccessType' /\ RightsInv'
BY FleetHolds, RightsHold, Frames DEF Step, AccessType, RightsInv, access
-----------------------------------------------------------------------------
(* Jobs.                                                                   *)

\* The steps that create a job.
Launches ==
  \/ \E a \in Actor, s \in Schedule : RunNow(a, s)
  \/ \E s \in Schedule : RunDue(s) /\ Started(s)
  \/ \E h \in Host, r \in Rule : TriggerFires(h, r)
  \/ \E a \in Actor, t \in Template : CreateTask(a, t) \/ RunTemplate(a, t)
  \/ \E hosts \in SUBSET Host : SendScript(hosts)

LEMMA JobFrame == Step => UNCHANGED job \/ (Launches /\ UNCHANGED <<seals, access>>)
<1>1. TemplateStep \/ FleetStep => UNCHANGED job
  BY Frames
<1>2. ScheduleStep => UNCHANGED job \/ (Launches /\ UNCHANGED <<seals, access>>)
  <2>1. ASSUME NEW s \in Schedule, RunDue(s), ~Started(s) PROVE UNCHANGED job
    BY <2>1 DEF RunDue
  <2> QED
    BY <2>1, Frames DEF ScheduleStep, Launches, SaveSchedule, DeleteSchedule, Fire, Missed,
                        RunNoted, Restart
<1>3. TriggerStep => UNCHANGED job \/ (Launches /\ UNCHANGED <<seals, access>>)
  BY Frames DEF TriggerStep, Launches, SaveTrigger, DeleteTrigger, Measure, MetricReport,
                ReportMetric, TriggerUnapproved, TriggerFails, vars
<1>4. LaunchStep => Launches /\ UNCHANGED <<seals, access>>
  BY Frames DEF LaunchStep, Launches
<1> QED
  BY <1>1, <1>2, <1>3, <1>4 DEF Step

LEMMA SealedExists ==
  ASSUME SealsType, NEW t \in Template \cup {None}, Sealed(t)
  PROVE  /\ t \in Template /\ templates[t].content \in Content
         /\ SealInv => <<t, templates[t].content>> \in endorsed
<1>1. t \in Template /\ templates[t].approved /\ templates[t].content # None
  BY DEF Sealed, Exists
<1> QED
  BY <1>1 DEF SealsType, Row, SealInv

LEMMA CreatedType ==
  ASSUME SealsType, NEW by \in Actor \cup {"scheduler", "trigger"}, NEW t \in Template,
         NEW hosts \in SUBSET Host, Created(by, t, hosts)
  PROVE  job' \in Job
BY DEF Created, Job, SealsType, Row

LEMMA JobTypeHolds ==
  ASSUME SealsType, PlansType, MetricsType, Launches
  PROVE  job' \in Job
<1>1. ASSUME NEW s \in Schedule, Runs(s)
      PROVE  /\ schedules[s].template \in Template /\ schedules[s].filled \in BOOLEAN
             /\ Reached(s) \in SUBSET Host
  <2>1. schedules[s].template \in Template \cup {None} /\ schedules[s].filled \in BOOLEAN
    BY DEF PlansType, Plan
  <2> QED
    BY <1>1, <2>1, SealedExists DEF Runs, Reached, AuthorizedTargets, Approved
<1>2. ASSUME NEW a \in Actor, NEW s \in Schedule, RunNow(a, s) PROVE job' \in Job
  BY <1>1, <1>2, CreatedType DEF RunNow
<1>3. ASSUME NEW s \in Schedule, RunDue(s), Started(s) PROVE job' \in Job
  BY <1>1, <1>3, CreatedType DEF RunDue, Started
<1>4. ASSUME NEW h \in Host, NEW r \in Rule, TriggerFires(h, r) PROVE job' \in Job
  <2>1. rules[r].template \in Template \cup {None}
    BY DEF MetricsType, Trigger
  <2>2. rules[r].template \in Template /\ Created("trigger", rules[r].template, {h})
    BY <1>4, <2>1, SealedExists DEF TriggerFires
  <2> QED
    BY <2>2, CreatedType
<1>5. ASSUME NEW a \in Actor, NEW t \in Template, CreateTask(a, t) \/ RunTemplate(a, t)
      PROVE  job' \in Job
  <2>1. PICK hosts \in SUBSET Host : Created(a, t, hosts)
    BY <1>5 DEF CreateTask, RunTemplate, AuthorizedTargets
  <2> QED
    BY <2>1, CreatedType
<1>6. ASSUME NEW hosts \in SUBSET Host, SendScript(hosts) PROVE job' \in Job
  BY <1>6 DEF SendScript, Job, Actor, Person, AuthorizedTargets
<1> QED
  BY <1>2, <1>3, <1>4, <1>5, <1>6 DEF Launches

LEMMA JobEndorsed ==
  ASSUME SealsType, PlansType, MetricsType, SealInv, Launches, UNCHANGED seals
  PROVE  OnlyEndorsed'
<1> USE DEF OnlyEndorsed, Created, seals
<1>1. ASSUME NEW s \in Schedule, Runs(s)
      PROVE  <<schedules[s].template, templates[schedules[s].template].content>> \in endorsed
  <2>1. schedules[s].template \in Template \cup {None}
    BY DEF PlansType, Plan
  <2> QED
    BY <1>1, <2>1, SealedExists DEF Runs
<1>2. ASSUME NEW a \in Actor, NEW s \in Schedule, RunNow(a, s) PROVE OnlyEndorsed'
  BY <1>1, <1>2 DEF RunNow
<1>3. ASSUME NEW s \in Schedule, RunDue(s), Started(s) PROVE OnlyEndorsed'
  BY <1>1, <1>3 DEF RunDue, Started
<1>4. ASSUME NEW h \in Host, NEW r \in Rule, TriggerFires(h, r) PROVE OnlyEndorsed'
  <2>1. rules[r].template \in Template \cup {None}
    BY DEF MetricsType, Trigger
  <2> QED
    BY <1>4, <2>1, SealedExists DEF TriggerFires
<1>5. ASSUME NEW a \in Actor, NEW t \in Template, CreateTask(a, t) \/ RunTemplate(a, t)
      PROVE  OnlyEndorsed'
  <2>1. PICK hosts : Created(a, t, hosts)
    BY <1>5 DEF CreateTask, RunTemplate
  <2>2. \/ Sealed(t) \/ a = "admin"
        \/ a = "operator" /\ templates[t].author = "operator"
    BY <1>5 DEF CreateTask, RunTemplate, CanRun, Author, NameOf
  <2> QED
    BY <2>1, <2>2, SealedExists DEF Person
<1>6. ASSUME NEW hosts \in SUBSET Host, SendScript(hosts) PROVE OnlyEndorsed'
  BY <1>6 DEF SendScript
<1> QED
  BY <1>2, <1>3, <1>4, <1>5, <1>6 DEF Launches

LEMMA ReachedApproved ==
  ASSUME NEW scope, NEW hosts
  PROVE  AuthorizedTargets(scope, fleet, hosts) \subseteq Approved(fleet)
BY DEF AuthorizedTargets

\* Whoever is not an administrator reaches hosts through groups.
LEMMA ThroughGroups ==
  ASSUME NEW scope, ~Superadmin(scope)
  PROVE  \A h \in AllowedHosts(scope, fleet, "run_tasks") : \E g \in fleet.groups :
           h \in fleet.member[g] /\ "run_tasks" \in scope.groups[g]
BY DEF AllowedHosts, HostsGranted, MembersOf, GroupsGranted, GroupPermissions

LEMMA JobInScope ==
  ASSUME AccessType, RightsInv, Launches, UNCHANGED access
  PROVE  LaunchInScope'
<1> USE DEF LaunchInScope, Created, access
<1>1. ASSUME NEW a \in {"operator", "key"}
      PROVE  ScopeOf(a) = rights[a] /\ ~Superadmin(ScopeOf(a))
  BY DEF ScopeOf, RightsInv
<1>2. ASSUME NEW a \in Actor, NEW s \in Schedule, RunNow(a, s) PROVE LaunchInScope'
  <2>1. /\ job'.by = a /\ job'.hosts = Reached(s)
        /\ TargetValid(a, schedules[s].target)
    BY <1>2 DEF RunNow
  <2>2. Reached(s) \subseteq Approved(fleet) \cap Targets(schedules[s].target)
    BY DEF Reached, AuthorizedTargets
  <2>3. ASSUME a \in {"operator", "key"}, NEW h \in Reached(s)
        PROVE  \E g \in fleet.groups :
                 h \in fleet.member[g] /\ "run_tasks" \in rights[a].groups[g]
    <3>1. CASE schedules[s].target \in Host
      <4>1. h = schedules[s].target
        BY <2>2, <3>1, SetsAssumption DEF Targets, MembersOf, AccessType, Fleet
      <4>2. h \in AllowedHosts(ScopeOf(a), fleet, "run_tasks")
        BY <2>1, <3>1, <4>1, SetsAssumption DEF TargetValid, AccessType, Fleet
      <4> QED
        BY <1>1, <2>3, <4>2, ThroughGroups
    <3>2. CASE schedules[s].target \notin Host
      <4>1. /\ schedules[s].target \in fleet.groups
            /\ "run_tasks" \in rights[a].groups[schedules[s].target]
        BY <1>1, <2>1, <2>3, <3>2
        DEF TargetValid, Approved, GroupActionAllowed, GroupsGranted, GroupPermissions
      <4>2. h \in fleet.member[schedules[s].target]
        BY <2>2, <3>2, <4>1 DEF Targets, MembersOf
      <4> QED
        BY <4>1, <4>2
    <3> QED
      BY <3>1, <3>2
  <2> QED
    BY <2>1, <2>2, <2>3 DEF Approved
<1>3. ASSUME NEW s \in Schedule, RunDue(s), Started(s) PROVE LaunchInScope'
  BY <1>3, ReachedApproved DEF RunDue, Reached, Approved
<1>4. ASSUME NEW h \in Host, NEW r \in Rule, TriggerFires(h, r) PROVE LaunchInScope'
  BY <1>4 DEF TriggerFires, Approved
<1>5. ASSUME NEW a \in Actor, NEW t \in Template, CreateTask(a, t) \/ RunTemplate(a, t)
      PROVE  LaunchInScope'
  <2>1. PICK hosts, wanted : /\ hosts \subseteq AuthorizedTargets(ScopeOf(a), fleet, wanted)
                             /\ job'.by = a /\ job'.hosts = hosts
    BY <1>5 DEF CreateTask, RunTemplate
  <2>2. hosts \subseteq Approved(fleet) \cap AllowedHosts(ScopeOf(a), fleet, "run_tasks")
    BY <2>1 DEF AuthorizedTargets
  <2> QED
    BY <1>1, <2>1, <2>2, ThroughGroups DEF Approved
<1>6. ASSUME NEW hosts \in SUBSET Host, SendScript(hosts) PROVE LaunchInScope'
  BY <1>6, ReachedApproved DEF SendScript, Approved
<1> QED
  BY <1>2, <1>3, <1>4, <1>5, <1>6 DEF Launches

-----------------------------------------------------------------------------
(* The inductive invariant.                                                *)

LEMMA InitInv == Init => IInv
<1> SUFFICES ASSUME Init PROVE IInv
  OBVIOUS
<1>1. PICK stock \in Stock :
        templates = [t \in Template |-> IF stock[t] = None THEN NoRow ELSE
          [content |-> stock[t], author |-> "admin", approved |-> TRUE, seal |-> stock[t]]]
  BY DEF Init
<1>2. \A t \in Template : stock[t] \in Content \cup {None}
  BY StockAssumption
<1>3. SealsType
  <2>1. templates \in [Template -> Row]
    BY <1>1, <1>2 DEF NoRow, Row, Person
  <2>2. \A t \in Template : Exists(t) => templates[t].content \in Content
    BY <2>1 DEF Exists, Row
  <2>3. endorsed \subseteq Template \X Content
    BY <2>2 DEF Init
  <2> QED
    BY <2>1, <2>3 DEF SealsType
<1>4. SealInv
  <2>1. \A t \in Template : templates[t].approved =>
          templates[t].seal = templates[t].content /\ templates[t].content = stock[t]
    BY <1>1 DEF NoRow
  <2>2. \A t \in Template : templates[t].content # None =>
          <<t, templates[t].content>> \in endorsed
    <3>1. \A t \in Template : templates[t].content # None <=> Exists(t)
      BY NoneAssumption DEF Exists
    <3> QED
      BY <3>1 DEF Init
  <2> QED
    BY <2>1, <2>2 DEF SealInv
<1>5. PlansType
  BY NoPlanType DEF Init, PlansType
<1>6. MetricsType
  <2>1. NoTrigger \in Trigger
    BY DEF NoTrigger, Trigger
  <2>2. [template : {t \in Template : Exists(t)}, active : {TRUE}, reason : BOOLEAN]
          \subseteq Trigger
    BY DEF Trigger
  <2>3. rules \in [Rule -> Trigger]
    BY <2>1, <2>2 DEF Init
  <2> QED
    BY <2>3 DEF Init, MetricsType
<1>7. PICK operator \in OperatorScopes, key \in KeyScopes :
        rights = [a \in {"operator", "key"} |-> IF a = "key" THEN key ELSE operator]
  BY DEF Init
<1>8. AccessType /\ RightsInv
  BY <1>7, ScopesAssumption, SetsAssumption
  DEF Init, AccessType, Fleet, RightsInv, Superadmin
<1>9. DateInv /\ ActiveIsArmed
  BY DEF Init, DateInv, ActiveIsArmed, Planned, NoPlan
<1>10. job = NoJob /\ edits \in 0..MaxEdits
  BY EditsAssumption DEF Init
<1> QED
  BY <1>3, <1>4, <1>5, <1>6, <1>8, <1>9, <1>10
  DEF IInv, TypeOK, SealsType, PlansType, MetricsType, AccessType, OnlyEndorsed, LaunchInScope

LEMMA NextInv == IInv /\ [Next]_vars => IInv'
<1> SUFFICES ASSUME IInv, [Next]_vars PROVE IInv'
  OBVIOUS
<1>1. /\ SealsType /\ PlansType /\ MetricsType /\ AccessType
      /\ job \in Job \cup {NoJob} /\ edits \in 0..MaxEdits
  BY DEF IInv, TypeOK, SealsType, PlansType, MetricsType, AccessType
<1>2. SealInv /\ OnlyEndorsed /\ DateInv /\ ActiveIsArmed /\ RightsInv /\ LaunchInScope
  BY DEF IInv
<1>3. CASE job = NoJob /\ Step
  <2>1. SealsType' /\ SealInv'
    BY <1>1, <1>2, <1>3, SealsTypeHolds, SealInvHolds, Frames
    DEF Step, seals, SealsType, SealInv
  <2>2. PlansType' /\ MetricsType' /\ AccessType' /\ RightsInv' /\ edits' \in 0..MaxEdits
    BY <1>1, <1>2, <1>3, PlansTypeHolds, MetricsTypeHolds, AccessHolds, EditsType
  <2>3. DateInv' /\ ActiveIsArmed'
    BY <1>1, <1>2, <1>3, DateInvHolds, ActiveIsArmedHolds
  <2>4. job' \in Job \cup {NoJob} /\ OnlyEndorsed' /\ LaunchInScope'
    <3>1. CASE UNCHANGED job
      BY <1>3, <3>1 DEF OnlyEndorsed, LaunchInScope
    <3>2. CASE Launches /\ UNCHANGED <<seals, access>>
      BY <1>1, <1>2, <3>2, JobTypeHolds, JobEndorsed, JobInScope
    <3> QED
      BY <1>3, <3>1, <3>2, JobFrame
  <2> QED
    BY <2>1, <2>2, <2>3, <2>4
    DEF IInv, TypeOK, SealsType, PlansType, MetricsType, AccessType
<1>4. CASE Forget
  BY <1>1, <1>2, <1>4
  DEF Forget, IInv, TypeOK, SealsType, PlansType, MetricsType, AccessType, seals, plans,
      metrics, access, SealInv, OnlyEndorsed, DateInv, ActiveIsArmed, RightsInv,
      LaunchInScope, Planned
<1>5. CASE UNCHANGED vars
  BY <1>1, <1>2, <1>5
  DEF vars, IInv, TypeOK, SealsType, PlansType, MetricsType, AccessType, seals, plans,
      metrics, access, SealInv, OnlyEndorsed, DateInv, ActiveIsArmed, RightsInv,
      LaunchInScope, Planned
<1> QED
  BY <1>3, <1>4, <1>5 DEF Next

LEMMA AlwaysInv == Spec => []IInv
BY InitInv, NextInv, PTL DEF Spec

-----------------------------------------------------------------------------
(* Theorems.                                                               *)

\* The rows, the scheduler's memory, the values and the rights have their types whatever
\* handlers of modules/Infrastructure/routes.py run.
THEOREM LaunchTypeCorrect == Spec => []TypeOK
BY AlwaysInv, PTL DEF IInv

\* What schedules, triggers and keys run, and people run of others, an administrator
\* approved and did not withdraw (core/template_security.py).
THEOREM LaunchOnlyEndorsed == Spec => []OnlyEndorsed
BY AlwaysInv, PTL DEF IInv

\* A schedule for one date runs at most once for it, across any number of restarts, saves
\* and late runs (run_scheduled_job, reload_scheduler_jobs).
THEOREM LaunchOneShotOnce == Spec => []OneShotOnce
<1>1. IInv => OneShotOnce
  <2> SUFFICES ASSUME IInv, NEW s \in Schedule, Planned(s), schedules[s].once
               PROVE  runs[s] <= 1
    BY DEF OneShotOnce
  <2>1. runs[s] \in 0..2 /\ (runs[s] > 0 => runs[s] = 1)
    BY DEF IInv, DateInv, TypeOK
  <2> QED
    BY <2>1
<1> QED
  BY <1>1, AlwaysInv, PTL

\* The scheduler's memory never falls behind the table of schedules
\* (reload_scheduler_jobs).
THEOREM LaunchActiveIsArmed == Spec => []ActiveIsArmed
BY AlwaysInv, PTL DEF IInv

\* Tasks go to approved hosts only, and those of operators and keys to groups on which
\* they may run tasks (core/group_access.py, validate_schedule_target).
THEOREM LaunchStaysInScope == Spec => []LaunchInScope
BY AlwaysInv, PTL DEF IInv
=============================================================================
