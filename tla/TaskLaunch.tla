----------------------------- MODULE TaskLaunch ------------------------------
(***************************************************************************)
(* How a script gets to hosts: templates and their approval seals,         *)
(* schedules and the jobs that the scheduler holds in memory for them,     *)
(* triggers on metrics, and launches by people and by API keys             *)
(* (modules/Infrastructure/routes.py, core/__init__.py,                    *)
(* core/agent_gateway.py, core/template_security.py, core/sdk.py).         *)
(*                                                                         *)
(* A request is one step, as its handler reads, checks and commits in one  *)
(* transaction; an automatic run takes two, since it dispatches its tasks  *)
(* in one commit and notes that it ran in another.  What a template        *)
(* contains is a script, a policy and where the script came from; the hash *)
(* of a seal is the content it was made of.                                *)
(***************************************************************************)
EXTENDS AccessScope

CONSTANTS
  Schedule,       \* ids of schedules
  Rule,           \* ids of trigger rules, each for a metric of its own
  Legacy,         \* the rules made before a launch reason was asked for
  Script,         \* what templates run
  Asking,         \* the scripts that ask for values of variables
  Validated,      \* the scripts that an AI wrote, as the validator accepted them
  Changed,        \* the scripts that an AI wrote and somebody changed since
  Stock,          \* what the templates that the server starts with may contain
  Policy,         \* the policies in use, sets of restrictions
  OperatorScopes, \* the rights an operator may be given
  KeyScopes,      \* the rights an API key of this operator may be given
  Default,        \* the group of all hosts of an operating system
  MaxEdits,       \* how often people change, agents measure and the server restarts
  None            \* no template, no content, no user

Content == [script : Script, policy : Policy]

ASSUME EditsAssumption == MaxEdits \in Nat
ASSUME SetsAssumption ==
  Legacy \subseteq Rule /\ Default \in Group /\ Host \cap Group = {}
ASSUME StockAssumption == Stock \subseteq [Template -> Content \cup {None}]
ASSUME NoneAssumption == None \notin Template

\* disabled: nobody but administrators runs it.  reserved: only users do that are not
\* modelled here.  locked, hidden: only administrators change it, see its code.
ASSUME PolicyAssumption == Policy \subseteq SUBSET {"disabled", "reserved", "locked", "hidden"}

\* Neither is an administrator's, and neither lacks a field.
ASSUME ScopesAssumption ==
  /\ OperatorScopes \subseteq {scope \in Scope : ~scope.admin /\ ~scope.api}
  /\ KeyScopes \subseteq {scope \in Scope : scope.api}

ASSUME ScriptAssumption == Validated \cup Changed \subseteq Script /\ Validated \cap Changed = {}

VARIABLES
  templates, \* the template rows
  endorsed,  \* history: <<t, c>>: an administrator approved c as content of t
  schedules, \* the schedule rows
  armed,     \* schedules that the scheduler holds a job for
  due,       \* schedules whose job was submitted and did not start yet
  running,   \* schedules whose run dispatched its tasks and did not note it yet
  runs,      \* history: automatic runs of a schedule for what it was saved as, two at most
  rules,     \* the trigger rules
  waiting,   \* <<h, r, met>>: the agent of h has a value of the metric of r to report,
             \* which meets the threshold of r or not
  stored,    \* <<h, r>>: such a value was stored
  fleet,     \* hosts and groups
  rights,    \* the scopes of the operator and of the key
  job,       \* history: the job that the last step created, forgotten by the next one
  edits      \* how often that happened so far

seals == <<templates, endorsed>>
plans == <<schedules, armed, due, running, runs>>
metrics == <<rules, waiting, stored>>
access == <<fleet, rights>>
vars == <<seals, plans, metrics, access, job, edits>>

Person == {"admin", "operator"}
Actor == Person \cup {"key"}

\* content = None: there is no such template.
Row == [content : Content \cup {None}, author : Person \cup {None}, approved : BOOLEAN,
        seal : Content \cup {None}]

\* filled: values for all variables are given.  once: for one date, which is past or not.
Plan == [template : Template \cup {None}, target : Host \cup Group,
         once : BOOLEAN, past : BOOLEAN, active : BOOLEAN, filled : BOOLEAN]

Trigger == [template : Template \cup {None}, active : BOOLEAN, reason : BOOLEAN]

Job == [by : Actor \cup {"scheduler", "trigger"}, template : Template \cup {None},
        content : Content \cup {None}, author : Person \cup {None}, hosts : SUBSET Host]

NoRow == [content |-> None, author |-> None, approved |-> FALSE, seal |-> None]
NoJob == [by |-> None]
NoTrigger == [template |-> None, active |-> FALSE, reason |-> TRUE]
NoPlan == [template |-> None, target |-> Default,
           once |-> FALSE, past |-> FALSE, active |-> FALSE, filled |-> FALSE]

TypeOK ==
  /\ templates \in [Template -> Row]
  /\ endorsed \subseteq Template \X Content
  /\ schedules \in [Schedule -> Plan]
  /\ armed \subseteq Schedule /\ due \subseteq Schedule /\ running \subseteq Schedule
  /\ runs \in [Schedule -> 0..2]
  /\ rules \in [Rule -> Trigger]
  /\ waiting \subseteq Host \X Rule \X BOOLEAN /\ stored \subseteq Host \X Rule
  /\ fleet \in Fleet
  /\ rights \in [{"operator", "key"} -> Scope]
  /\ job \in Job \cup {NoJob}
  /\ edits \in 0..MaxEdits

Exists(t) == t # None /\ templates[t].content # None
Planned(s) == schedules[s].template # None

Init ==
  /\ \E stock \in Stock :
       templates = [t \in Template |-> IF stock[t] = None THEN NoRow ELSE
         [content |-> stock[t], author |-> "admin", approved |-> TRUE, seal |-> stock[t]]]
  /\ endorsed = {<<t, templates[t].content>> : t \in {u \in Template : Exists(u)}}
  /\ schedules = [s \in Schedule |-> NoPlan]
  /\ armed = {} /\ due = {} /\ running = {} /\ runs = [s \in Schedule |-> 0]
  /\ rules \in [Rule -> {NoTrigger} \cup
       [template : {t \in Template : Exists(t)}, active : {TRUE}, reason : BOOLEAN]]
  /\ \A r \in Rule : ~rules[r].reason => r \in Legacy
  /\ waiting = {} /\ stored = {}
  /\ fleet = [status |-> [h \in Host |-> "Approved"], blocked |-> {}, groups |-> {Default},
              member |-> [g \in Group |-> IF g = Default THEN Host ELSE {}]]
  /\ \E operator \in OperatorScopes, key \in KeyScopes :
       rights = [a \in {"operator", "key"} |-> IF a = "key" THEN key ELSE operator]
  /\ job = NoJob /\ edits = 0

-----------------------------------------------------------------------------
(* What requests may do.                                                   *)

AdminScope == [api |-> FALSE, admin |-> TRUE, tokens |-> {}, groups |-> [g \in Group |-> {}],
               templates |-> Template, limit |-> 0]

ScopeOf(a) == IF a = "admin" THEN AdminScope ELSE rights[a]

Can(a, p) == HasPermission(ScopeOf(a), p)

\* A key acts under the name of its owner.
NameOf(a) == IF a = "key" THEN "operator" ELSE a

Policed(t) == templates[t].content.policy

\* template_approval_valid
Sealed(t) == Exists(t) /\ templates[t].approved /\ templates[t].seal = templates[t].content

Author(a, t) == templates[t].author = NameOf(a) /\ Can(a, "manage_templates")

CanUse(a, t) ==
  \/ a = "admin"
  \/ /\ TemplateAllowed(ScopeOf(a), t)
     /\ "disabled" \notin Policed(t)
     /\ Author(a, t) \/ "reserved" \notin Policed(t)

\* An approved template, or a draft that administrators and its author may try.
CanRun(a, t) ==
  /\ Exists(t) /\ Can(a, "run_tasks")
  /\ IF Sealed(t) THEN CanUse(a, t)
     ELSE /\ templates[t].content.script \notin Changed
          /\ \/ a = "admin"
             \/ /\ a = "operator" /\ Author(a, t)
                /\ Can(a, "run_own_draft_templates") /\ CanUse(a, t)
                /\ templates[t].content.script \in Validated => Can(a, "use_ai_templates")

InLibrary(a, t) ==
  Exists(t) /\ (a = "admin" \/ Author(a, t) \/ (templates[t].approved /\ CanUse(a, t)))

CanEdit(a, t) == a = "admin" \/ (Can(a, "manage_templates") /\ "locked" \notin Policed(t))

CanViewCode(a, t) == a = "admin" \/ "hidden" \notin Policed(t)

\* validate_schedule_target
TargetValid(a, target) ==
  \/ target \in Approved(fleet) \cap AllowedHosts(ScopeOf(a), fleet, "run_tasks")
  \/ target \in fleet.groups /\ GroupActionAllowed(ScopeOf(a), fleet, target, "run_tasks")

\* apply_template_variables leaves nothing open; in the work of an AI nothing may be.
Renders(c, filled) ==
  c.script \in Asking => filled /\ c.script \notin Validated \cup Changed

\* validate_api_template_variables: a key gives values for all variables of the script
\* and for no others.
ValuesAccepted(a, c, filled) == a = "key" => (filled <=> c.script \in Asking)

\* The hosts of a target.
Targets(target) ==
  ({target} \cap Host) \cup MembersOf(fleet, {target} \cap fleet.groups)

Created(by, t, hosts) ==
  job' = [by |-> by, template |-> t, content |-> templates[t].content,
          author |-> templates[t].author, hosts |-> hosts]

\* The bound on what people do.
Edited == edits < MaxEdits /\ edits' = edits + 1

-----------------------------------------------------------------------------
(* Templates.                                                              *)

\* A script that is taken over from a draft that the validator accepted; it is not
\* approved by the same request.
FromDraft(a, script) == script \in Validated /\ a # "key" /\ Can(a, "use_ai_templates")

\* What a script may be replaced by: the work of an AI stays one, and counts as changed if
\* it is not the very script that was validated.
Replaces(old, script) ==
  \/ script = old
  \/ IF old \in Validated \cup Changed THEN script \in Changed
     ELSE script \notin Validated \cup Changed

\* create_template without an id.
CreateTemplate(a, t) ==
  /\ Can(a, "manage_templates") /\ ~Exists(t)
  /\ \E c \in Content, approve \in BOOLEAN :
       /\ \/ c.script \notin Validated \cup Changed
          \/ FromDraft(a, c.script) /\ ~approve
       /\ approve => a = "admin"
       /\ templates' = [templates EXCEPT ![t] =
            [content |-> c, author |-> NameOf(a), approved |-> approve,
             seal |-> IF approve THEN c ELSE None]]
       /\ endorsed' = IF approve THEN endorsed \cup {<<t, c>>} ELSE endorsed
  /\ Edited /\ UNCHANGED <<job, plans, metrics, access>>

\* Mutant of Resealed: who edits an approved template approves the edit.
SealedByEdit(a, row, c, say) ==
  LET approve == a = "admin" /\ say = "yes"
      keep == a = "operator" \/ say # "no"
  IN [row EXCEPT !.content = c,
        !.approved = approve \/ (keep /\ row.approved),
        !.seal = IF approve \/ (keep /\ row.approved) THEN c ELSE None]

\* The row after an edit: approved by an administrator who says so, and still approved
\* only if nothing changed and no administrator took the approval away.
Resealed(a, row, c, say) ==
  LET approve == a = "admin" /\ say = "yes"
      keep == row.seal = c /\ ~(a = "admin" /\ say = "no")
  IN [row EXCEPT !.content = c,
        !.approved = approve \/ (keep /\ row.approved),
        !.seal = IF approve THEN c ELSE IF keep THEN @ ELSE None]

\* create_template with an id.  Only administrators change the policy.
EditTemplate(a, t) ==
  /\ Can(a, "manage_templates") /\ Exists(t) /\ CanEdit(a, t)
  /\ \E script \in Script, policy \in Policy, say \in {"yes", "no", "nothing"} :
       LET old == templates[t].content
           c == [script |-> script, policy |-> IF a = "admin" THEN policy ELSE old.policy]
       IN /\ say = "yes" => a = "admin"
          /\ Replaces(old.script, script) \/ (FromDraft(a, script) /\ say = "no")
          /\ templates' = [templates EXCEPT ![t] = Resealed(a, @, c, say)]
          /\ endorsed' =
               CASE a = "admin" /\ say = "yes" -> endorsed \cup {<<t, c>>}
                 [] a = "admin" /\ say = "no" -> endorsed \ {<<t, c>>}
                 [] OTHER -> endorsed
  /\ Edited /\ UNCHANGED <<job, plans, metrics, access>>

\* clone_template: without the policy, and not approved.
CloneTemplate(a, t, source) ==
  /\ Can(a, "manage_templates") /\ ~Exists(t)
  /\ InLibrary(a, source) /\ CanViewCode(a, source) /\ CanEdit(a, source)
  /\ {} \in Policy
  /\ templates' = [templates EXCEPT ![t] =
       [content |-> [templates[source].content EXCEPT !.policy = {}],
        author |-> NameOf(a), approved |-> FALSE, seal |-> None]]
  /\ Edited /\ UNCHANGED <<job, endorsed, plans, metrics, access>>

\* import_templates: one entry of the file.  An existing template is found by its id or
\* its name and keeps its author.
ImportTemplate(a, t) ==
  /\ Can(a, "manage_templates")
  /\ \E c \in Content, flagged \in BOOLEAN :
       LET approve == flagged /\ a = "admin"
       IN /\ templates' = [templates EXCEPT ![t] =
               [content |-> c, author |-> IF Exists(t) THEN @.author ELSE NameOf(a),
                approved |-> approve, seal |-> IF approve THEN c ELSE None]]
          /\ endorsed' = IF approve THEN endorsed \cup {<<t, c>>} ELSE endorsed
  /\ Edited /\ UNCHANGED <<job, plans, metrics, access>>

\* delete_template: with its schedules, whose jobs stay in the scheduler; rules lose it.
DeleteTemplate(t) ==
  /\ Exists(t)
  /\ templates' = [templates EXCEPT ![t] = NoRow]
  /\ endorsed' = {p \in endorsed : p[1] # t}
  /\ schedules' = [s \in Schedule |->
       IF schedules[s].template = t
       THEN [NoPlan EXCEPT !.once = schedules[s].once] ELSE schedules[s]]
  /\ rules' = [r \in Rule |->
       IF rules[r].template = t THEN [rules[r] EXCEPT !.template = None] ELSE rules[r]]
  /\ Edited
  /\ UNCHANGED <<job, armed, due, running, runs, waiting, stored, access>>

-----------------------------------------------------------------------------
(* Schedules.                                                              *)

\* Mutant of Reloaded: a date that is past is armed again.
ReloadedWithPast(rows) ==
  /\ armed' = {s \in Schedule : rows[s].template # None /\ rows[s].active}
  /\ schedules' = rows

\* Mutant of Reloaded: the jobs are made before the change is committed.
ReloadedEarly(rows) ==
  LET live == {s \in Schedule : Planned(s) /\ schedules[s].active}
      expired == {s \in live : schedules[s].once /\ schedules[s].past}
  IN /\ armed' = live \ expired
     /\ schedules' = [s \in Schedule |->
          IF s \in expired THEN [rows[s] EXCEPT !.active = FALSE] ELSE rows[s]]

\* reload_scheduler_jobs: the scheduler's jobs are made anew from the rows.  A date that
\* has come in the meantime is not caught up with.
Reloaded(rows) ==
  LET live == {s \in Schedule : rows[s].template # None /\ rows[s].active}
      expired == {s \in live : rows[s].once /\ rows[s].past}
  IN /\ armed' = live \ expired
     /\ schedules' = [s \in Schedule |->
          IF s \in expired THEN [rows[s] EXCEPT !.active = FALSE] ELSE rows[s]]

\* manage_schedule: a schedule is made or changed, and all are loaded anew.  Whoever is not
\* an administrator must also be allowed to use the target it had before.  The date of an
\* active schedule is not past; that of another one does not matter.
SaveSchedule(a, s) ==
  /\ Can(a, "manage_scheduler")
  /\ Planned(s) /\ a # "admin" => TargetValid(a, schedules[s].target)
  /\ \E t \in {u \in Template : Sealed(u)}, target \in Host \cup Group,
        once \in BOOLEAN, active \in BOOLEAN, filled \in BOOLEAN :
       /\ InLibrary(a, t) /\ CanUse(a, t) /\ TargetValid(a, target)
       /\ templates[t].content.script \in Asking => filled
       /\ Reloaded([schedules EXCEPT ![s] =
            [template |-> t, target |-> target, once |-> once, past |-> FALSE,
             active |-> active, filled |-> filled]])
  /\ runs' = [runs EXCEPT ![s] = 0]
  /\ Edited /\ UNCHANGED <<job, seals, due, running, metrics, access>>

\* delete_schedule
DeleteSchedule(s) ==
  /\ Planned(s)
  /\ Reloaded([schedules EXCEPT ![s] = NoPlan])
  /\ Edited /\ UNCHANGED <<job, seals, due, running, runs, metrics, access>>

\* The hosts that a run for the first administrator may use.
Reached(s) == AuthorizedTargets(AdminScope, fleet, Targets(schedules[s].target))

\* What run_scheduled_job asks before it dispatches.
Runs(s) ==
  /\ Planned(s) /\ Sealed(schedules[s].template)
  /\ Renders(templates[schedules[s].template].content, schedules[s].filled)
  /\ Reached(s) # {}

\* run_schedule_now: a person or a key runs a schedule, active or not.
RunNow(a, s) ==
  /\ Can(a, "manage_scheduler") /\ Runs(s)
  /\ InLibrary(a, schedules[s].template) /\ CanUse(a, schedules[s].template)
  /\ TargetValid(a, schedules[s].target)
  /\ Created(a, schedules[s].template, Reached(s))
  /\ UNCHANGED <<seals, plans, metrics, access, edits>>

\* The time of a schedule has come.  Its run is not submitted when another one of it was
\* and did not end yet.
Fire(s) ==
  /\ s \in armed
  /\ due' = IF s \in running THEN due ELSE due \cup {s}
  /\ IF schedules[s].once
     THEN /\ armed' = armed \ {s}
          /\ schedules' = [schedules EXCEPT ![s].past = TRUE]
     ELSE UNCHANGED <<armed, schedules>>
  /\ UNCHANGED <<job, seals, running, runs, metrics, access, edits>>

\* The scheduler woke up too late for a date.
Missed(s) ==
  /\ s \in armed /\ schedules[s].once
  /\ armed' = armed \ {s}
  /\ schedules' = [schedules EXCEPT ![s].past = TRUE]
  /\ UNCHANGED <<job, seals, due, running, runs, metrics, access, edits>>

Started(s) == s \in due /\ Runs(s) /\ schedules[s].active

\* A run that was submitted for an older date is not one for the date to come.
Counts(s) == schedules[s].once => schedules[s].past

\* run_scheduled_job up to the commit of its tasks.
RunDue(s) ==
  /\ s \in due /\ due' = due \ {s}
  /\ IF Started(s)
     THEN /\ Created("scheduler", schedules[s].template, Reached(s))
          /\ running' = running \cup {s}
          /\ runs' = [runs EXCEPT ![s] = IF Counts(s) /\ @ < 2 THEN @ + 1 ELSE @]
     ELSE UNCHANGED <<running, runs, job>>
  /\ UNCHANGED <<seals, schedules, armed, metrics, access, edits>>

\* ... and the rest of it: a schedule for one date is switched off.  The row is read again
\* after the commit.
Noted(s) == [schedules EXCEPT ![s].active = @ /\ ~schedules[s].once]

\* Mutant of RunNoted: the scheduler is not told that the run has ended.
NotedStillRunning(s) ==
  /\ s \in running /\ schedules' = Noted(s)
  /\ UNCHANGED <<job, seals, armed, due, running, runs, metrics, access, edits>>

RunNoted(s) ==
  /\ s \in running /\ running' = running \ {s}
  /\ schedules' = Noted(s)
  /\ UNCHANGED <<job, seals, armed, due, runs, metrics, access, edits>>

\* The server is restarted; dates may pass while it is off.
Restart ==
  \E late \in SUBSET {s \in Schedule : Planned(s) /\ schedules[s].once} :
    /\ Reloaded([s \in Schedule |->
         [schedules[s] EXCEPT !.past = @ \/ s \in late]])
    /\ due' = {} /\ running' = {}
    /\ Edited /\ UNCHANGED <<job, seals, runs, metrics, access>>

-----------------------------------------------------------------------------
(* Triggers on metrics.                                                    *)

\* manage_trigger
SaveTrigger(a, r) ==
  /\ Can(a, "manage_triggers")
  /\ \E t \in Template, active \in BOOLEAN :
       /\ Sealed(t)
       /\ rules' = [rules EXCEPT ![r] = [template |-> t, active |-> active, reason |-> TRUE]]
  /\ Edited /\ UNCHANGED <<job, seals, plans, waiting, stored, access>>

\* delete_trigger
DeleteTrigger(r) ==
  /\ rules[r].active
  /\ rules' = [rules EXCEPT ![r] = NoTrigger]
  /\ Edited /\ UNCHANGED <<job, seals, plans, waiting, stored, access>>

\* An agent has measured.
Measure(h, r) ==
  /\ fleet.status[h] # "none" /\ <<h, r>> \notin stored
  /\ \A met \in BOOLEAN : <<h, r, met>> \notin waiting
  /\ \E met \in BOOLEAN : waiting' = waiting \cup {<<h, r, met>>}
  /\ Edited /\ UNCHANGED <<job, seals, plans, rules, stored, access>>

Reports(h, r, met) ==
  <<h, r, met>> \in waiting /\ h \notin fleet.blocked /\ fleet.status[h] # "none"

\* The agent has its answer and forgets the value; kept: the server has it.
Taken(h, r, met, kept) ==
  /\ waiting' = waiting \ {<<h, r, met>>}
  /\ stored' = IF kept THEN stored \cup {<<h, r>>} ELSE stored
  /\ UNCHANGED <<seals, plans, rules, access, edits>>

\* agent_result of a metric task when no rule fires.
ReportMetric(h, r) ==
  \E met \in BOOLEAN :
    /\ Reports(h, r, met) /\ ~(met /\ rules[r].active)
    /\ Taken(h, r, met, TRUE) /\ UNCHANGED job

\* evaluate_and_fire_triggers: the rule's template is not there or not approved.  The note
\* about it is longer than its column and the database refuses the commit, that of the
\* value too: the agent gets an error for an answer and keeps the result.
TriggerUnapproved(h, r) ==
  /\ Reports(h, r, TRUE) /\ rules[r].active /\ ~Sealed(rules[r].template)
  /\ UNCHANGED vars

\* ... the rule dispatches its template, without asking for values of variables ...
TriggerFires(h, r) ==
  /\ Reports(h, r, TRUE) /\ rules[r].active /\ Sealed(rules[r].template)
  /\ rules[r].reason /\ h \in Approved(fleet)
  /\ Created("trigger", rules[r].template, {h})
  /\ Taken(h, r, TRUE, TRUE)

\* ... or cannot: what was done so far is undone, for the value too, and the agent is
\* told that all is well.
TriggerFails(h, r) ==
  /\ Reports(h, r, TRUE) /\ rules[r].active /\ Sealed(rules[r].template)
  /\ ~(rules[r].reason /\ h \in Approved(fleet))
  /\ Taken(h, r, TRUE, FALSE) /\ UNCHANGED job

-----------------------------------------------------------------------------
(* Launches by people and keys.  A group of hosts stands for its hosts.    *)

\* A key is served only if it may use all the hosts it asks for.
KeyServed(a, hosts) ==
  a = "key" => /\ TargetCountAllowed(ScopeOf(a), hosts)
               /\ hosts \subseteq AuthorizedTargets(ScopeOf(a), fleet, hosts)

\* create_task with a template: hosts that may not be used are left out.
CreateTask(a, t) ==
  \E hosts \in SUBSET Host, filled \in BOOLEAN :
    LET reached == AuthorizedTargets(ScopeOf(a), fleet, hosts)
    IN /\ CanRun(a, t) /\ Renders(templates[t].content, filled)
       /\ ValuesAccepted(a, templates[t].content, filled)
       /\ KeyServed(a, hosts) /\ reached # {}
       /\ Created(a, t, reached)
       /\ UNCHANGED <<seals, plans, metrics, access, edits>>

\* create_task of an administrator: the script is the one on the page.
SendScript(hosts) ==
  /\ AuthorizedTargets(AdminScope, fleet, hosts) # {}
  /\ job' = [by |-> "admin", template |-> None, content |-> None, author |-> None,
             hosts |-> AuthorizedTargets(AdminScope, fleet, hosts)]
  /\ UNCHANGED <<seals, plans, metrics, access, edits>>

\* run_template_api, dispatch_infrastructure_task: a host that is not approved spoils all,
\* a blocked one is left out.
RunTemplate(a, t) ==
  \E hosts \in SUBSET Host, filled \in BOOLEAN :
    LET reached == AuthorizedTargets(ScopeOf(a), fleet, hosts) \ fleet.blocked
    IN /\ CanRun(a, t) /\ Renders(templates[t].content, filled)
       /\ ValuesAccepted(a, templates[t].content, filled)
       /\ KeyServed(a, hosts) /\ hosts \subseteq Approved(fleet) /\ reached # {}
       /\ Created(a, t, reached)
       /\ UNCHANGED <<seals, plans, metrics, access, edits>>

-----------------------------------------------------------------------------
(* Hosts, groups and rights.                                               *)

FleetEdited == Edited /\ UNCHANGED <<job, seals, plans, metrics>>

\* update_host_approval, bulk_update_host_approval: approval unblocks and assigns to the
\* group of the operating system, rejection blocks.
SetApproval(a, hosts, status) ==
  /\ hosts # {} /\ hosts \subseteq AllowedHosts(ScopeOf(a), fleet, "manage_hosts")
  /\ fleet' = [fleet EXCEPT
       !.status = [h \in Host |-> IF h \in hosts THEN status ELSE @[h]],
       !.blocked = CASE status = "Rejected" -> @ \cup hosts
                     [] status = "Approved" -> @ \ hosts
                     [] OTHER -> @,
       !.groups = IF status = "Approved" THEN @ \cup {Default} ELSE @,
       !.member[Default] = IF status = "Approved" THEN @ \cup hosts ELSE @]
  /\ FleetEdited /\ UNCHANGED rights

\* toggle_block_host, bulk_update_group_members and block_group_hosts: a host, some hosts
\* of a group, or all of it.
SetBlocked(a, hosts, block) ==
  LET own == AllowedHosts(ScopeOf(a), fleet, "manage_hosts")
  IN /\ \/ \E h \in own : hosts = {h} /\ block = (h \notin fleet.blocked)
        \/ \E g \in AllowedGroups(ScopeOf(a), fleet, "manage_hosts") :
             hosts \subseteq fleet.member[g] /\ (hosts \subseteq own \/ hosts = fleet.member[g])
     /\ fleet' = [fleet EXCEPT !.blocked = IF block THEN @ \cup hosts ELSE @ \ hosts]
     /\ FleetEdited /\ UNCHANGED rights

\* create_group: whoever is not an administrator gets all rights on it.
CreateGroup(a, g) ==
  /\ Can(a, "manage_groups") /\ g \notin fleet.groups
  /\ fleet' = [fleet EXCEPT !.groups = @ \cup {g}]
  /\ rights' = IF a = "operator" THEN [rights EXCEPT !["operator"].groups[g] = GroupAction]
               ELSE rights
  /\ FleetEdited

\* manage_group: rights on it go with it.
DeleteGroup(a, g) ==
  /\ g \in AllowedGroups(ScopeOf(a), fleet, "delete_groups")
  /\ fleet' = [fleet EXCEPT !.groups = @ \ {g}, !.member[g] = {}]
  /\ rights' = [b \in DOMAIN rights |-> [rights[b] EXCEPT !.groups[g] = {}]]
  /\ FleetEdited

\* update_group_members
AddMember(a, g, h) ==
  /\ g \in AllowedGroups(ScopeOf(a), fleet, "manage_groups")
  /\ h \in AllowedHosts(ScopeOf(a), fleet, "view_hosts")
  /\ fleet' = [fleet EXCEPT !.member[g] = @ \cup {h}]
  /\ FleetEdited /\ UNCHANGED rights

\* update_group_members, bulk_update_group_members
RemoveMembers(a, g, hosts) ==
  /\ g \in AllowedGroups(ScopeOf(a), fleet, "manage_groups")
  /\ \/ \E h \in AllowedHosts(ScopeOf(a), fleet, "view_hosts") : hosts = {h}
     \/ hosts \subseteq fleet.member[g] \cap AllowedHosts(ScopeOf(a), fleet, "manage_groups")
  /\ fleet' = [fleet EXCEPT !.member[g] = @ \ hosts]
  /\ FleetEdited /\ UNCHANGED rights

\* host_operations: only administrators delete hosts.
DeleteHost(h) ==
  /\ fleet.status[h] # "none"
  /\ fleet' = [fleet EXCEPT !.status[h] = "none", !.blocked = @ \ {h},
                            !.member = [g \in Group |-> @[g] \ {h}]]
  /\ waiting' = {w \in waiting : w[1] # h}
  /\ stored' = {w \in stored : w[1] # h}
  /\ Edited /\ UNCHANGED <<job, seals, plans, rules, rights>>

\* An administrator gives the operator other rights ...
SetUserRights(scope) ==
  /\ rights' = [rights EXCEPT !["operator"] =
       [scope EXCEPT !.groups = UserGroups(fleet, scope.groups)]]
  /\ FleetEdited /\ UNCHANGED fleet

\* ... or the key, which may be given approved templates only.
SetKeyRights(scope) ==
  /\ KeyGroupsValid(fleet, scope.groups) /\ \A t \in scope.templates : Sealed(t)
  /\ rights' = [rights EXCEPT !["key"] = scope]
  /\ FleetEdited /\ UNCHANGED fleet

-----------------------------------------------------------------------------

TemplateStep ==
  \/ \E a \in Actor, t \in Template :
       \/ CreateTemplate(a, t) \/ EditTemplate(a, t) \/ ImportTemplate(a, t)
       \/ \E source \in Template : CloneTemplate(a, t, source)
  \/ \E t \in Template : DeleteTemplate(t)

ScheduleStep ==
  \/ \E a \in Actor, s \in Schedule : SaveSchedule(a, s) \/ RunNow(a, s)
  \/ \E s \in Schedule :
       DeleteSchedule(s) \/ Fire(s) \/ Missed(s) \/ RunDue(s) \/ RunNoted(s)
  \/ Restart

MetricReport(h, r) ==
  ReportMetric(h, r) \/ TriggerUnapproved(h, r) \/ TriggerFires(h, r) \/ TriggerFails(h, r)

TriggerStep ==
  \/ \E a \in Actor, r \in Rule : SaveTrigger(a, r)
  \/ \E r \in Rule : DeleteTrigger(r)
  \/ \E h \in Host, r \in Rule : Measure(h, r) \/ MetricReport(h, r)

LaunchStep ==
  \/ \E a \in Actor, t \in Template : CreateTask(a, t) \/ RunTemplate(a, t)
  \/ \E hosts \in SUBSET Host : SendScript(hosts)

FleetStep ==
  \/ \E a \in Actor, hosts \in SUBSET Host :
       \/ \E status \in {"Pending", "Approved", "Rejected"} : SetApproval(a, hosts, status)
       \/ \E block \in BOOLEAN : SetBlocked(a, hosts, block)
       \/ \E g \in Group : RemoveMembers(a, g, hosts)
  \/ \E a \in Actor, g \in Group :
       \/ CreateGroup(a, g) \/ DeleteGroup(a, g)
       \/ \E h \in Host : AddMember(a, g, h)
  \/ \E h \in Host : DeleteHost(h)
  \/ \E scope \in OperatorScopes : SetUserRights(scope)
  \/ \E scope \in KeyScopes : SetKeyRights(scope)

Step == TemplateStep \/ ScheduleStep \/ TriggerStep \/ LaunchStep \/ FleetStep

\* A step of no program: job says what the step before has done.
Forget == job # NoJob /\ job' = NoJob /\ UNCHANGED <<seals, plans, metrics, access, edits>>

Next == (job = NoJob /\ Step) \/ Forget

Spec == Init /\ [][Next]_vars

\* The scheduler's thread wakes up and its pool runs what it was given; agents report.
\* Strong fairness makes up for Forget alone: none of these steps needs it in the program.
FairSpec ==
  /\ Spec
  /\ WF_vars(Forget)
  /\ \A s \in Schedule : /\ SF_vars(job = NoJob /\ Fire(s))
                          /\ SF_vars(job = NoJob /\ RunDue(s))
                          /\ SF_vars(job = NoJob /\ RunNoted(s))
  /\ \A h \in Host, r \in Rule : SF_vars(job = NoJob /\ MetricReport(h, r))

-----------------------------------------------------------------------------
(* Properties.                                                             *)

\* What runs for a schedule, a trigger or a key, and what people run of others, is what an
\* administrator approved as content of that template and did not withdraw since: however
\* templates, schedules, rules and rights changed between the approval and the run.
OnlyEndorsed ==
  job # NoJob /\ job.template # None =>
    \/ <<job.template, job.content>> \in endorsed
    \/ job.by \in Person /\ job.author = job.by
    \/ job.by = "admin"

\* A schedule for one date runs at most once for that date, whatever happens between the
\* dispatch of its tasks and the note that it ran, and however late older runs of the
\* schedule are.
OneShotOnce == \A s \in Schedule : Planned(s) /\ schedules[s].once => runs[s] <= 1

\* The scheduler's memory does not fall behind the table: a schedule that is shown as
\* active, and whose date is still to come, is one the scheduler holds a job for.
ActiveIsArmed ==
  \A s \in Schedule :
    Planned(s) /\ schedules[s].active /\ ~schedules[s].past => s \in armed

\* Tasks go to approved hosts only, and those of the operator and of the key to hosts of
\* groups on which they have the right to run tasks.
LaunchInScope ==
  job # NoJob =>
    /\ job.hosts \subseteq Approved(fleet)
    /\ job.by \in {"operator", "key"} =>
         \A h \in job.hosts : \E g \in fleet.groups :
           h \in fleet.member[g] /\ "run_tasks" \in rights[job.by].groups[g]

\* A recurring schedule that stays active and can run does so again and again.
RecurringRuns ==
  \A s \in Schedule :
    <>[](schedules[s].active /\ ~schedules[s].once /\ Runs(s))
      => []<>(job.by = "scheduler")

\* A value that an agent measured is stored, whatever the rules make of it, as a result is
\* delivered in the end (AGENT_RELEASE_ACCEPTANCE_UA.md:99): unless its host is blocked,
\* deleted or not approved any more, or the rule has no launch reason and its failure
\* takes the value with it.  It does not hold (TriggerUnapproved).
MetricIsStored ==
  \A h \in Host, r \in Rule :
    (\E met \in BOOLEAN : <<h, r, met>> \in waiting)
      ~> \/ <<h, r>> \in stored
         \/ h \notin Approved(fleet) \/ h \in fleet.blocked \/ ~rules[r].reason
=============================================================================
