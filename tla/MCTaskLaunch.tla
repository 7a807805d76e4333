---------------------------- MODULE MCTaskLaunch ----------------------------
(***************************************************************************)
(* Instances of TaskLaunch: an operator who manages templates and          *)
(* schedules of his group and may try drafts, and one who only runs tasks. *)
(***************************************************************************)
EXTENDS TaskLaunch

On(actions) == [g \in Group |-> IF g = Default THEN actions ELSE {}]

Plain == [script |-> CHOOSE p \in Script \ (Asking \cup Validated \cup Changed) : TRUE,
          policy |-> {}]

\* One template, whichever: the others are made.
MCStock ==
  {[t \in Template |-> IF t = (CHOOSE u \in Template : TRUE) THEN Plain ELSE None]}

MCPolicy == {{}, {"locked"}}

MCOperatorScopes ==
  {[api |-> FALSE, admin |-> FALSE, tokens |-> tokens,
    groups |-> On({"run_tasks", "view_hosts", "manage_hosts"}), templates |-> {}, limit |-> 0] :
     tokens \in {{"change", "manage_hosts", "run_own_draft_templates"}, {"run_tasks"}}}

MCKeyScopes ==
  {[api |-> TRUE, admin |-> FALSE, tokens |-> {"run_tasks"}, groups |-> On({"run_tasks"}),
    templates |-> Template, limit |-> 1]}
=============================================================================
