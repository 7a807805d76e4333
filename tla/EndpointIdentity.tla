-------------------------- MODULE EndpointIdentity --------------------------
(***************************************************************************)
(* Who is who: enrolment, approval and blocking of endpoints, the          *)
(* detection of cloned agents and the split that gives one of them an      *)
(* identity of its own (core/agent_gateway.py, the identity routes of      *)
(* modules/Infrastructure/routes.py, Worker.cs of the agents).             *)
(*                                                                         *)
(* A machine may be a clone of another one, with the same hardware id,     *)
(* token and key.  The server tells them apart only by the id of the       *)
(* session, which every process draws anew, and by the order in which the  *)
(* sessions are heard of.  Random values (ids, tokens, sessions) come from *)
(* pools and are drawn again only when nothing refers to them any more.    *)
(***************************************************************************)
EXTENDS Naturals, FiniteSets

CONSTANTS
  Machine,   \* machines that an agent is installed on
  Installed, \* those of them that were given a bootstrap configuration
  Id,        \* hardware ids, which are endpoint ids
  Session,   \* session ids of agent processes
  Token,     \* authentication tokens
  MaxEdits,  \* how often administrators act, on the server or on machines
  Nothing    \* no id, no session, no token

ASSUME EditsAssumption == MaxEdits \in Nat
ASSUME MachineAssumption == IsFiniteSet(Machine)
ASSUME InstalledAssumption == Installed \subseteq Machine
ASSUME NothingAssumption == Nothing \notin Id \cup Session \cup Token

VARIABLES
  endpoint,  \* the endpoint rows
  rows,      \* rows[e]: sessions that have an instance row of endpoint e
  after,     \* <<t, s>>: t, heard of within the lease, was so after s was heard of first
  recent,    \* sessions heard of within the lease
  conflict,  \* conflict[e]: the active identity conflict of e
  command,   \* command[n]: the split command that made endpoint n
  disk,      \* what an agent has stored
  process,   \* what an agent does
  session,   \* the session id of a running agent
  edits,     \* how often administrators acted so far
  ran,       \* history: ran[e]: the machines that ran as e
  turns,     \* history: <<t, s>>: s was offered tasks after t was heard of first, t did not
             \* end since then, both kept their rows and s its lease
  struck     \* history: endpoints that were deleted, or withdrawn when their command expired

server == <<endpoint, rows, after, recent, conflict, command>>
agents == <<disk, process, session, edits>>
history == <<ran, turns, struck>>
vars == <<server, agents, history>>

Endpoint == [status : {"none", "Pending", "Approved", "Rejected"}, blocked : BOOLEAN,
             token : Token \cup {Nothing}, key : Id \cup {Nothing},
             window : BOOLEAN, seen : BOOLEAN]

\* A key is named after the id that it was made for.  split: the identity that is to be
\* installed; it has an id and a token.
Disk == [id : Id \cup {Nothing}, token : Token \cup {Nothing}, key : Id \cup {Nothing},
         secret : BOOLEAN,
         split : [id : Id \cup {Nothing}, token : Token \cup {Nothing}]]

\* valid: before expires_at.  current: its conflict is the active one of the source.
Command == [status : {"none", "Pending", "Delivered", "Completed", "Expired"},
            source : Id \cup {Nothing}, target : Session \cup {Nothing},
            valid : BOOLEAN, current : BOOLEAN]

NoRow == [status |-> "none", blocked |-> FALSE, token |-> Nothing, key |-> Nothing,
          window |-> FALSE, seen |-> FALSE]
NoCommand == [status |-> "none", source |-> Nothing, target |-> Nothing,
              valid |-> FALSE, current |-> FALSE]
NoSplit == [id |-> Nothing, token |-> Nothing]

\* A machine without an identity; with a bootstrap configuration, it has the secret.
Blank(secret) == [id |-> Nothing, token |-> Nothing, key |-> Nothing, secret |-> secret,
                  split |-> NoSplit]

TypeOK ==
  /\ endpoint \in [Id -> Endpoint]
  /\ rows \in [Id -> SUBSET Session]
  /\ after \subseteq Session \X Session
  /\ recent \subseteq Session
  /\ conflict \in [Id -> {"none", "Open", "Resolving"}]
  /\ command \in [Id -> Command]
  /\ disk \in [Machine -> Disk]
  /\ process \in [Machine -> {"off", "installing", "enrolling", "polling"}]
  /\ session \in [Machine -> Session \cup {Nothing}]
  /\ edits \in 0..MaxEdits
  /\ ran \in [Id -> SUBSET Machine]
  /\ turns \subseteq Session \X Session
  /\ struck \subseteq Id

Init ==
  /\ endpoint = [e \in Id |-> NoRow]
  /\ rows = [e \in Id |-> {}] /\ after = {} /\ recent = {}
  /\ conflict = [e \in Id |-> "none"]
  /\ command = [n \in Id |-> NoCommand]
  /\ disk = [m \in Machine |-> Blank(m \in Installed)]
  /\ process = [m \in Machine |-> "off"]
  /\ session = [m \in Machine |-> Nothing] /\ edits = 0
  /\ ran = [e \in Id |-> {}] /\ turns = {} /\ struck = {}

-----------------------------------------------------------------------------
(* Random values that nothing refers to.                                   *)

FreshTokens ==
  Token \ ({endpoint[e].token : e \in Id}
           \cup UNION {{disk[m].token, disk[m].split.token} : m \in Machine})

FreshIds ==
  {e \in Id : endpoint[e].status = "none" /\ rows[e] = {} /\ command[e].status = "none"}
    \ UNION {{disk[m].id, disk[m].split.id, disk[m].key} : m \in Machine}

FreshSessions ==
  {s \in Session : /\ \A e \in Id : s \notin rows[e] /\ command[e].target # s
                   /\ \A m \in Machine : session[m] # s}

\* The bound on what administrators do.
Edited == edits < MaxEdits /\ edits' = edits + 1

Running(m) == process[m] \in {"enrolling", "polling"}

-----------------------------------------------------------------------------
(* What the server does with a request of an agent.                        *)

\* The request is authentic: token and key are those of the row, or the row has no
\* key yet and takes this one over (verify_or_bind_agent_key).
Authentic(m) ==
  LET row == endpoint[disk[m].id]
  IN /\ row.status # "none" /\ ~row.blocked
     /\ row.token = disk[m].token
     /\ row.key \in {Nothing, disk[m].key}

Bound(m, row) == [row EXCEPT !.key = disk[m].key]

\* Mutant of Convicts: a new session convicts its predecessor.
ConvictsAtOnce(s, known, sessions, later) == sessions # {}

\* Some other session of the endpoint was heard of after s was heard of first.
Convicts(s, known, sessions, later) ==
  s \in known /\ \E t \in sessions : <<t, s>> \in later

\* The pairs of which both sessions have a row of one endpoint.
Standing(pairs, instances) ==
  {p \in pairs : \E x \in Id : {p[1], p[2]} \subseteq instances[x]}

\* record_endpoint_instance: s is heard of as endpoint e.  Rows not heard of for seven
\* days are dropped; a conflict is opened when s and a peer take turns.
Record(e, s, instances, conflicts, served) ==
  \E old \in SUBSET (instances[e] \ recent) :
    LET known == instances[e] \ old
        kept == [instances EXCEPT ![e] = known]
        later == Standing(after, kept)
        peers == (known \cap recent) \ {s}
    IN /\ rows' = [instances EXCEPT ![e] = known \cup {s}]
       /\ after' = later \cup {<<s, t>> : t \in known \ {s}}
       /\ recent' = recent \cup {s}
       /\ conflict' = IF conflicts[e] = "none" /\ Convicts(s, known, peers, later)
                      THEN [conflicts EXCEPT ![e] = "Open"] ELSE conflicts
       /\ turns' = Standing(turns, kept) \cup
                     {<<t, s>> : t \in IF served THEN known \ {s} ELSE {}}

\* complete_identity_command_for_new_endpoint has a command to complete.
Completes(n) == command[n].status = "Delivered"

\* The target's row at the source is dropped, and the conflict it was made for is over.
Released(n) ==
  IF Completes(n)
  THEN [rows EXCEPT ![command[n].source] = @ \ {command[n].target}]
  ELSE rows

Settled(n) ==
  IF Completes(n) /\ command[n].current
  THEN [conflict EXCEPT ![command[n].source] = "none"]
  ELSE conflict

\* Commands of a conflict that is over are not those of the next one.
Finish(n) ==
  IF Completes(n)
  THEN [c \in Id |->
          IF c = n THEN [command[n] EXCEPT !.status = "Completed", !.valid = FALSE, !.current = FALSE]
          ELSE IF command[n].current /\ command[c].source = command[n].source
          THEN [command[c] EXCEPT !.current = FALSE]
          ELSE command[c]]
  ELSE command

\* pending_identity_command: the commands for session s of endpoint e.
Ordered(e, s, commands) ==
  {n \in Id : /\ commands[n].status \in {"Pending", "Delivered"} /\ commands[n].valid
              /\ commands[n].source = e /\ commands[n].target = s}

-----------------------------------------------------------------------------
(* The agent: enrolment and polls.                                         *)

\* Whether an enrolling machine resembles an approved endpoint: by its fingerprint, by its
\* name and version, or by the token it had before.  Inventories are not modelled.
DuplicateEvidence == BOOLEAN

\* enroll_agent answers with a token.  An approved endpoint needs a re-enrolment window;
\* duplicate evidence only sends an endpoint back to review.  The answer may be lost.
Enroll(m) ==
  LET e == disk[m].id
      row == endpoint[e]
  IN /\ process[m] = "enrolling" /\ disk[m].secret
     /\ ~row.blocked /\ (row.status = "Approved" => row.window)
     /\ \E t \in FreshTokens, duplicate \in DuplicateEvidence, lost \in BOOLEAN :
          /\ endpoint' = [endpoint EXCEPT ![e] =
               [row EXCEPT !.token = t, !.window = FALSE, !.seen = TRUE,
                           !.key = IF @ = Nothing THEN disk[m].key ELSE @,
                           !.status = IF @ = "none" \/ (duplicate /\ @ # "Approved")
                                      THEN "Pending" ELSE @]]
          /\ IF lost THEN UNCHANGED agents
             ELSE /\ disk' = [disk EXCEPT ![m].token = t, ![m].secret = FALSE]
                  /\ process' = [process EXCEPT ![m] = "polling"]
                  /\ UNCHANGED <<session, edits>>
  /\ UNCHANGED <<rows, after, recent, conflict, command, history>>

\* A poll is refused with 403.  The agent takes to enrolling again.
PollRefused(m) ==
  /\ process[m] = "polling" /\ ~Authentic(m)
  /\ process' = [process EXCEPT ![m] = "enrolling"]
  /\ UNCHANGED <<server, disk, session, edits, history>>

\* The part of agent_poll that all authentic polls have in common.
Heard(m, served) ==
  LET e == disk[m].id
  IN /\ Authentic(m)
     /\ Record(e, session[m], Released(e), Settled(e), served)
     /\ ran' = [ran EXCEPT ![e] = @ \cup {m}]
     /\ UNCHANGED struck

\* A poll of an endpoint that is not approved.
PollPending(m) ==
  LET e == disk[m].id
  IN /\ process[m] = "polling" /\ endpoint[e].status # "Approved"
     /\ Heard(m, FALSE)
     /\ command' = Finish(e)
     /\ endpoint' = [endpoint EXCEPT ![e] = [Bound(m, @) EXCEPT !.seen = TRUE]]
     /\ UNCHANGED agents

\* Mutant of HandedOver: the command is complete when it was handed over.
HandedOverForGood(commands, n) == [commands EXCEPT ![n].status = "Completed"]

HandedOver(commands, n) == [commands EXCEPT ![n].status = "Delivered"]

\* The session has a split command: it is handed over, again if need be, and the agent
\* stores the new identity before it installs it.
PollSplit(m) ==
  LET e == disk[m].id
      s == session[m]
  IN /\ process[m] = "polling" /\ endpoint[e].status = "Approved"
     /\ Heard(m, FALSE)
     /\ endpoint' = [endpoint EXCEPT ![e] = Bound(m, @)]
     /\ \E n \in Ordered(e, s, Finish(e)), lost \in BOOLEAN :
          /\ command' = HandedOver(Finish(e), n)
          /\ IF lost THEN UNCHANGED agents
             ELSE /\ disk' = [disk EXCEPT ![m].split =
                                [id |-> n, token |-> endpoint[n].token]]
                  /\ process' = [process EXCEPT ![m] = "installing"]
                  /\ session' = [session EXCEPT ![m] = Nothing]
                  /\ UNCHANGED edits

\* Mutant of Quarantined: an endpoint whose split is under way gets tasks again.
QuarantinedWhenOpen(e) == conflict'[e] = "Open"

Quarantined(e) == conflict'[e] # "none"

\* No command: the endpoint is in quarantine, or its pending task is handed out.
PollTask(m) ==
  LET e == disk[m].id
  IN /\ process[m] = "polling" /\ endpoint[e].status = "Approved"
     /\ Heard(m, ~Quarantined(e))
     /\ Ordered(e, session[m], Finish(e)) = {}
     /\ command' = Finish(e)
     /\ endpoint' = [endpoint EXCEPT ![e] = [Bound(m, @) EXCEPT !.seen = TRUE]]
     /\ UNCHANGED agents

\* agent_result and agent_telemetry note the session too; a pending endpoint may send.
Report(m) ==
  LET e == disk[m].id
  IN /\ process[m] = "polling" /\ Authentic(m)
     /\ Record(e, session[m], rows, conflict, FALSE)
     /\ endpoint' = [endpoint EXCEPT ![e] = [Bound(m, @) EXCEPT !.seen = TRUE]]
     /\ ran' = [ran EXCEPT ![e] = @ \cup {m}]
     /\ UNCHANGED <<command, agents, struck>>

-----------------------------------------------------------------------------
(* The agent: start, crash, the installation of a new identity.            *)

\* ExecuteAsync.  A stored split is installed before anything else; a machine without
\* an identity makes one; the secret goes once there is a token.
Start(m) ==
  /\ process[m] = "off"
  /\ disk[m].id = Nothing => disk[m].secret
  /\ IF disk[m].split.id # Nothing
     THEN /\ process' = [process EXCEPT ![m] = "installing"]
          /\ UNCHANGED <<disk, session>>
     ELSE /\ \E s \in FreshSessions : session' = [session EXCEPT ![m] = s]
          /\ process' = [process EXCEPT ![m] =
               IF disk[m].token = Nothing THEN "enrolling" ELSE "polling"]
          /\ IF disk[m].id = Nothing
             THEN \E e \in FreshIds : disk' = [disk EXCEPT ![m].id = e, ![m].key = e]
             ELSE disk' = [disk EXCEPT ![m].secret = @ /\ disk[m].token = Nothing]
  /\ UNCHANGED <<server, edits, history>>

\* Mutant of Install: the pending state goes as soon as the key is in place.
InstallForgetful(m) ==
  LET new == disk[m].split
  IN /\ process[m] = "installing"
     /\ \/ /\ disk[m].key # new.id
           /\ disk' = [disk EXCEPT ![m].key = new.id, ![m].split = NoSplit]
           /\ UNCHANGED process
        \/ /\ disk[m].key = new.id
           /\ process' = [process EXCEPT ![m] = "off"]
           /\ UNCHANGED disk
     /\ UNCHANGED <<server, session, edits, history>>

\* RecoverPendingIdentitySplit: key, token and id one after the other, each written
\* atomically, and the pending state goes last.  The agent then starts anew.
Install(m) ==
  LET new == disk[m].split
  IN /\ process[m] = "installing"
     /\ \/ /\ disk[m].key # new.id
           /\ disk' = [disk EXCEPT ![m].key = new.id]
           /\ UNCHANGED process
        \/ /\ disk[m].key = new.id /\ disk[m].token # new.token
           /\ disk' = [disk EXCEPT ![m].token = new.token]
           /\ UNCHANGED process
        \/ /\ disk[m].token = new.token /\ disk[m].id # new.id
           /\ disk' = [disk EXCEPT ![m].id = new.id]
           /\ UNCHANGED process
        \/ /\ disk[m].id = new.id
           /\ disk' = [disk EXCEPT ![m].split = NoSplit]
           /\ process' = [process EXCEPT ![m] = "off"]
     /\ UNCHANGED <<server, session, edits, history>>

\* The process ends, at any point of the above, or the service is stopped.
Crash(m) ==
  /\ process[m] # "off"
  /\ process' = [process EXCEPT ![m] = "off"]
  /\ session' = [session EXCEPT ![m] = Nothing]
  /\ turns' = {p \in turns : p[1] # session[m]}
  /\ UNCHANGED <<server, disk, edits, ran, struck>>

\* A virtual machine is copied into one that is switched off; no installation of a
\* split is under way at that moment.
Clone(m, copy) ==
  /\ m # copy /\ process[copy] = "off"
  /\ disk[copy].id = Nothing /\ disk[m].id # Nothing
  /\ disk[m].split = NoSplit
  /\ disk' = [disk EXCEPT ![copy] = disk[m]]
  /\ Edited
  /\ UNCHANGED <<server, process, session, history>>

\* PrepareCloneTemplate removes the identity and the bootstrap configuration.
Purge(m) ==
  /\ process[m] = "off" /\ disk[m].id # Nothing
  /\ disk' = [disk EXCEPT ![m] = Blank(FALSE)]
  /\ Edited
  /\ UNCHANGED <<server, process, session, history>>

\* A bootstrap configuration is put in place.  It is of use to an agent without a token.
Bootstrap(m) ==
  /\ process[m] = "off" /\ ~disk[m].secret /\ disk[m].token = Nothing
  /\ disk' = [disk EXCEPT ![m].secret = TRUE]
  /\ Edited
  /\ UNCHANGED <<server, process, session, history>>

-----------------------------------------------------------------------------
(* Administrators.                                                         *)

Edit(e, row) ==
  /\ endpoint' = [endpoint EXCEPT ![e] = row]
  /\ Edited
  /\ UNCHANGED <<rows, after, recent, conflict, command, disk, process, session, history>>

Exists(e) == endpoint[e].status # "none"

\* update_host_approval and bulk_update_host_approval.
Approve(e, status) ==
  /\ Exists(e) /\ status \in {"Pending", "Approved", "Rejected"}
  /\ Edit(e, [endpoint[e] EXCEPT !.status = status,
                !.blocked = CASE status = "Rejected" -> TRUE
                              [] status = "Approved" -> FALSE
                              [] OTHER -> @])

\* toggle_block_host and block_group_hosts.
ToggleBlock(e) == Exists(e) /\ Edit(e, [endpoint[e] EXCEPT !.blocked = ~@])

\* allow_host_reenroll; the window may close again before it is used.
AllowReenroll(e) == Exists(e) /\ Edit(e, [endpoint[e] EXCEPT !.window = TRUE])
WindowCloses(e) ==
  /\ endpoint[e].window
  /\ endpoint' = [endpoint EXCEPT ![e].window = FALSE]
  /\ UNCHANGED <<rows, after, recent, conflict, command, agents, history>>

\* The rows that go with endpoints: instances, conflicts and commands cascade.
WithoutCommands(gone) ==
  [n \in Id |-> IF n \in gone \/ command[n].source \in gone THEN NoCommand ELSE command[n]]

Remove(e, rest) ==
  /\ endpoint' = [rest EXCEPT ![e] = NoRow]
  /\ rows' = [rows EXCEPT ![e] = {}]
  /\ after' = {p \in after : p[1] \notin rows[e] /\ p[2] \notin rows[e]}
  /\ turns' = {p \in turns : p[1] \notin rows[e] /\ p[2] \notin rows[e]}
  /\ recent' = recent \ rows[e]
  /\ conflict' = [conflict EXCEPT ![e] = "none"]
  /\ command' = WithoutCommands({e})
  /\ struck' = struck \cup {e}
  /\ Edited
  /\ UNCHANGED <<disk, process, session, ran>>

\* host_operations, DELETE.
DeleteHost(e) == Exists(e) /\ Remove(e, endpoint)

\* merge_duplicate_host: history moves to the row that is kept, which is approved.
MergeDuplicate(keep, remove) ==
  /\ keep # remove /\ Exists(keep) /\ endpoint[remove].status = "Approved"
  /\ conflict[keep] = "none" /\ conflict[remove] = "none"
  /\ Remove(remove, [endpoint EXCEPT ![keep].status = "Approved", ![keep].blocked = FALSE])

\* The commands of the active conflict of e that are not answered.
Unanswered(e) ==
  {n \in Id : /\ command[n].source = e /\ command[n].current
              /\ command[n].status \in {"Pending", "Delivered"}}

\* Mutant of Expired: any command for another session is taken for expired.
ExpiredByOthers(e, s) == {n \in Unanswered(e) : command[n].target # s}

Expired(e, s) == {n \in Unanswered(e) : ~command[n].valid}

\* split_endpoint_identity for session s: expired commands are withdrawn with their
\* endpoint, unless that was heard of or has tasks, and one new command is made.
Split(e, s) ==
  /\ conflict[e] # "none"
  /\ s \in rows[e] \cap recent
  /\ \A n \in Unanswered(e) \ Expired(e, s) : command[n].target # s
  /\ \E tasks \in SUBSET Expired(e, s), n \in FreshIds, t \in FreshTokens :
       LET gone == {x \in Expired(e, s) \ tasks : ~endpoint[x].seen}
       IN /\ endpoint' = [x \in Id |->
               IF x = n THEN [NoRow EXCEPT !.status = "Approved", !.token = t]
               ELSE IF x \in gone THEN NoRow ELSE endpoint[x]]
          /\ command' = [x \in Id |->
               IF x = n THEN [status |-> "Pending", source |-> e, target |-> s,
                              valid |-> TRUE, current |-> TRUE]
               ELSE IF x \in gone THEN NoCommand
               ELSE IF x \in Expired(e, s) THEN [command[x] EXCEPT !.status = "Expired"]
               ELSE command[x]]
          /\ struck' = (struck \cup {x \in gone : ~command[x].valid}) \ {n}
  /\ conflict' = [conflict EXCEPT ![e] = "Resolving"]
  /\ Edited
  /\ UNCHANGED <<rows, after, recent, disk, process, session, ran, turns>>

\* resolve_endpoint_identity_conflict dismisses the conflict.
Dismiss(e) ==
  /\ conflict[e] # "none" /\ Unanswered(e) = {}
  /\ conflict' = [conflict EXCEPT ![e] = "none"]
  /\ command' = [n \in Id |-> IF command[n].source = e
                              THEN [command[n] EXCEPT !.current = FALSE] ELSE command[n]]
  /\ Edited
  /\ UNCHANGED <<endpoint, rows, after, recent, disk, process, session, history>>

-----------------------------------------------------------------------------
(* Time.                                                                   *)

\* Nothing was heard of s for the time of the lease: its process is gone, cannot reach the
\* server, or runs a script, which keeps the agent from polling for up to half an hour.
LeaseEnds(s) ==
  /\ s \in recent
  /\ recent' = recent \ {s}
  /\ after' = {p \in after : p[1] # s}
  /\ turns' = {p \in turns : p[2] # s}
  /\ UNCHANGED <<endpoint, rows, conflict, command, agents, ran, struck>>

\* Half an hour after a split was ordered.
CommandExpires(n) ==
  /\ command[n].valid /\ command[n].status \in {"Pending", "Delivered"}
  /\ command' = [command EXCEPT ![n].valid = FALSE]
  /\ UNCHANGED <<endpoint, rows, after, recent, conflict, agents, history>>

Poll(m) == PollRefused(m) \/ PollPending(m) \/ PollSplit(m) \/ PollTask(m)

Agent(m) == Enroll(m) \/ Poll(m) \/ Report(m) \/ Start(m) \/ Install(m)

Administrator ==
  \/ \E e \in Id : \/ \E status \in {"Pending", "Approved", "Rejected"} : Approve(e, status)
                   \/ ToggleBlock(e) \/ AllowReenroll(e) \/ DeleteHost(e) \/ Dismiss(e)
  \/ \E e, f \in Id : MergeDuplicate(e, f)
  \/ \E e \in Id, s \in Session : Split(e, s)

Next ==
  \/ \E m \in Machine : Agent(m) \/ Crash(m) \/ Purge(m) \/ Bootstrap(m)
  \/ \E m, copy \in Machine : Clone(m, copy)
  \/ Administrator
  \/ \E e \in Id : WindowCloses(e) \/ CommandExpires(e)
  \/ \E s \in Session : LeaseEnds(s)

Spec == Init /\ [][Next]_vars

-----------------------------------------------------------------------------
(* Properties.                                                             *)

\* Tasks of one endpoint do not go to and fro between two sessions: when one of them was
\* served after the other was heard of, the other is not served any more, however long it
\* was silent, unless the former is silent for a whole lease or a row of them is dropped.
TasksDoNotAlternate ==
  \A s, t \in Session : ~(<<s, t>> \in turns /\ <<t, s>> \in turns)

\* A conflict is never the work of one machine that was restarted, however often and
\* whatever was lost: at least two machines ran with that identity.
RestartIsNoClone == \A e \in Id : conflict[e] # "none" => Cardinality(ran[e]) > 1

\* When a split is taken for complete, the session it was made for is over.
SplitIsDone ==
  \A n \in Id, m \in Machine :
    command[n].status = "Completed" /\ Running(m) => session[m] # command[n].target

\* An agent that runs has the key and the token of one identity, wherever the
\* installation of a new identity was interrupted.
IdentityIsWhole ==
  \A m \in Machine : Running(m) /\ disk[m].token # Nothing =>
    /\ disk[m].key = disk[m].id
    /\ \A e \in Id : endpoint[e].token = disk[m].token => e = disk[m].id

\* A machine with a token, from an enrolment or from a split that it took up, is known to
\* the server, unless its endpoint was deleted or its command had expired.
NewIdentityIsKnown ==
  \A m \in Machine :
    /\ disk[m].token # Nothing => endpoint[disk[m].id].status # "none" \/ disk[m].id \in struck
    /\ disk[m].split # NoSplit =>
         endpoint[disk[m].split.id].status # "none" \/ disk[m].split.id \in struck
=============================================================================
