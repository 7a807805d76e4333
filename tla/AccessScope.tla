----------------------------- MODULE AccessScope -----------------------------
(***************************************************************************)
(* Who may do what to which hosts (core/permissions.py,                    *)
(* core/group_access.py, core/api_access.py): permissions of the           *)
(* Infrastructure module, actions granted per group of hosts, and the      *)
(* further limits of API keys.  The module has no state of its own.        *)
(*                                                                         *)
(* A scope is what a request may use: that of a user, of an administrator, *)
(* or of an API key, whose owner's rights do not count.  A fleet is what   *)
(* the tables say of hosts and groups.                                     *)
(***************************************************************************)
EXTENDS Naturals, FiniteSets

CONSTANTS
  Host,     \* endpoint ids
  Group,    \* ids of groups of hosts
  Template  \* template ids

\* What a group may grant for its hosts.
GroupAction ==
  {"view_hosts", "view_groups", "view_queue", "view_reports", "view_sensitive_reports",
   "run_tasks", "send_reports", "edit_reports", "dismiss_reports",
   "manage_hosts", "manage_groups", "delete_hosts", "delete_groups"}

\* What a user or a key may be allowed to do at all.
Permission ==
  GroupAction \cup
  {"run_own_draft_templates", "manage_software", "manage_templates", "manage_smtp",
   "use_ai_reports", "use_ai_templates", "manage_ai", "manage_scheduler",
   "manage_triggers", "delete_reports", "delete_tasks"}

\* Older names that stand for several permissions.
Alias ==
  [view |-> {"view_hosts", "view_groups", "view_queue", "view_reports"},
   change |-> {"run_tasks", "edit_reports", "dismiss_reports", "send_reports",
               "manage_software", "manage_templates", "manage_smtp",
               "manage_scheduler", "manage_triggers", "manage_groups"},
   delete |-> {"delete_hosts", "delete_groups"},
   scheduler |-> {"manage_scheduler"}]

\* Never part of the grant of the whole module.
ExplicitOnly ==
  {"view_sensitive_reports", "use_ai_reports", "use_ai_templates",
   "run_own_draft_templates", "manage_ai",
   "delete_reports", "delete_tasks", "delete_hosts", "delete_groups"}

SuperadminOnly == {"delete_reports", "delete_tasks"}

ApiDenied == {"view_sensitive_reports", "use_ai_templates", "run_own_draft_templates"}

Token == Permission \cup DOMAIN Alias \cup {"Infrastructure"}

\* templates and limit bind API keys only: the templates that a key may run, and on
\* how many hosts at once.
Scope == [api : BOOLEAN, admin : BOOLEAN, tokens : SUBSET Token,
          groups : [Group -> SUBSET GroupAction],
          templates : SUBSET Template, limit : Nat]

\* status[h] = "none": there is no such endpoint.
Fleet == [status : [Host -> {"none", "Pending", "Approved", "Rejected"}],
          blocked : SUBSET Host, groups : SUBSET Group, member : [Group -> SUBSET Host]]

-----------------------------------------------------------------------------
(* Permissions.                                                            *)

Superadmin(scope) == scope.admin /\ ~scope.api

Granted(scope, p) ==
  \/ p \in scope.tokens
  \/ "Infrastructure" \in scope.tokens /\ p \notin ExplicitOnly
  \/ \E a \in scope.tokens \cap DOMAIN Alias : p \in Alias[a]

HasPermission(scope, p) ==
  \/ Superadmin(scope)
  \/ /\ p \notin SuperadminOnly
     /\ scope.api => p \notin ApiDenied
     /\ Granted(scope, p)

-----------------------------------------------------------------------------
(* Groups and hosts.                                                       *)

Approved(fleet) == {h \in Host : fleet.status[h] = "Approved"}

GroupPermissions(scope, g) == IF Superadmin(scope) THEN GroupAction ELSE scope.groups[g]

GroupsGranted(scope, fleet, action) ==
  {g \in fleet.groups : action \in GroupPermissions(scope, g)}

GroupActionAllowed(scope, fleet, g, action) ==
  Superadmin(scope) \/ g \in GroupsGranted(scope, fleet, action)

AllowedGroups(scope, fleet, action) ==
  IF HasPermission(scope, action) THEN GroupsGranted(scope, fleet, action) ELSE {}

MembersOf(fleet, groups) == UNION {fleet.member[g] : g \in groups}

\* A host that some group withholds from deletion cannot be deleted through another.
Withheld(scope, fleet, action) ==
  IF action = "delete_hosts"
  THEN MembersOf(fleet, fleet.groups \ GroupsGranted(scope, fleet, action))
  ELSE {}

\* Administrators reach every host, others approved hosts of their groups.
HostsGranted(scope, fleet, action) ==
  IF Superadmin(scope) THEN {h \in Host : fleet.status[h] # "none"}
  ELSE (Approved(fleet) \cap MembersOf(fleet, GroupsGranted(scope, fleet, action)))
         \ Withheld(scope, fleet, action)

AllowedHosts(scope, fleet, action) ==
  IF HasPermission(scope, action) THEN HostsGranted(scope, fleet, action) ELSE {}

\* Mutant of AuthorizedTargets: a host is asked for its approval only with its group.
AuthorizedUnapproved(scope, fleet, requested) ==
  requested \cap AllowedHosts(scope, fleet, "run_tasks")

\* Which of the hosts asked for a task may get it.
AuthorizedTargets(scope, fleet, requested) ==
  requested \cap Approved(fleet) \cap AllowedHosts(scope, fleet, "run_tasks")

-----------------------------------------------------------------------------
(* Limits of API keys.                                                     *)

TemplateAllowed(scope, t) == scope.api => t \in scope.templates

TargetCountAllowed(scope, hosts) == scope.api => Cardinality(hosts) <= scope.limit

\* Rights given for groups that do not exist are dropped for a user ...
UserGroups(fleet, entries) == [g \in Group |-> IF g \in fleet.groups THEN entries[g] ELSE {}]

\* ... and refused for a key.
KeyGroupsValid(fleet, entries) == \A g \in Group : entries[g] # {} => g \in fleet.groups
=============================================================================
