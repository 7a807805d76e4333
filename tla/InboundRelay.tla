---------------------------- MODULE InboundRelay -----------------------------
(***************************************************************************)
(* Campaigns that are started by mail (modules/Newsletter/routes.py): the  *)
(* newsletter worker polls the mailboxes of the inbound routes over IMAP,  *)
(* makes a campaign of a message that passes the checks of the route, and  *)
(* files the message under Processed or Failed.  Meanwhile the web process *)
(* changes the files the worker reads: the routes and the mailing lists.   *)
(*                                                                         *)
(* A step of the worker is one IMAP command or one commit, one of the      *)
(* editor one file.  The server may refuse a command, the connection may   *)
(* break, and either process may die between two steps.  What becomes of a *)
(* campaign is the subject of NewsletterQueue.                             *)
(***************************************************************************)
EXTENDS FiniteSets, Naturals

CONSTANTS
  Mail,      \* messages
  Id,        \* Message-IDs: a message that is sent again keeps its own
  Route,     \* inbound routes
  Box,       \* mailboxes: the profiles that routes read from
  List,      \* names of mailing lists
  IdOf,      \* IdOf[m]: the Message-ID of m
  BoxOf,     \* BoxOf[m]: where m arrives
  Reads,     \* Reads[r]: the mailbox that r reads
  Suits,     \* <<r, m>>: sender, signature and content of m are what r asks for
  Stock,     \* the routes and lists that the system starts with
  MaxFaults, \* bound: refused commands, broken connections and deaths
  MaxEdits,  \* bound: changes of routes and lists
  None

ASSUME ShapeAssumption ==
  /\ IdOf \in [Mail -> Id] /\ BoxOf \in [Mail -> Box] /\ Reads \in [Route -> Box]
  /\ Suits \subseteq Route \X Mail

\* signers: fingerprints are configured, without which a route is paused.
Rule == [enabled : BOOLEAN, signers : BOOLEAN, lists : SUBSET List]

ASSUME StockAssumption ==
  \A s \in Stock :
    /\ s \in [routes : [Route -> Rule], lists : SUBSET List]
    /\ \A r \in Route : s.routes[r].lists \subseteq s.lists
ASSUME BoundAssumption == MaxFaults \in Nat /\ MaxEdits \in Nat
ASSUME NoneAssumption == None \notin Mail \cup Route \cup List

VARIABLES
  inbox,     \* inbox[m]: is m there, and which flags does it have
  copies,    \* copies[m]: the folders that hold a copy of m
  campaigns, \* campaigns[m]: how many campaigns were made of m
  refused,   \* history: messages that the worker turned down
  pc,        \* where the worker is
  rules,     \* the worker's copy of the routes
  todo,      \* the routes it has still to poll in this round
  route,     \* the one it is polling
  found,     \* the unseen messages that the search found, the ones not looked at yet
  mail,      \* the message it has in hand
  folder,    \* where it is about to file it
  linked,    \* its connection is alive
  routes,    \* the routes in the settings file
  lists,     \* the mailing lists that have a file
  rename,    \* <<l, n, k>>: list l is being renamed to n, and k files are written
  faults, edits

server == <<inbox, copies>>
history == <<campaigns, refused>>
memory == <<pc, rules, todo, route, found, mail, folder, linked>>
files == <<routes, lists, rename, edits>>
vars == <<server, history, memory, files, faults>>

Places == {"idle", "poll", "fetch", "check", "see", "copy", "delete"}
Folder == {"Processed", "Failed"}

TypeOK ==
  /\ inbox \in [Mail -> [arrived : BOOLEAN, gone : BOOLEAN, seen : BOOLEAN, deleted : BOOLEAN]]
  /\ copies \in [Mail -> SUBSET Folder]
  /\ campaigns \in [Mail -> 0..2] /\ refused \subseteq Mail
  /\ pc \in Places /\ rules \in [Route -> Rule] /\ todo \subseteq Route
  /\ route \in Route \cup {None} /\ found \subseteq Mail /\ mail \in Mail \cup {None}
  /\ folder \in Folder /\ linked \in BOOLEAN
  /\ routes \in [Route -> Rule] /\ lists \subseteq List
  /\ rename \in {<<>>} \cup (List \X List \X {1, 2})
  /\ faults \in 0..MaxFaults /\ edits \in 0..MaxEdits

Init ==
  /\ inbox = [m \in Mail |->
       [arrived |-> FALSE, gone |-> FALSE, seen |-> FALSE, deleted |-> FALSE]]
  /\ copies = [m \in Mail |-> {}]
  /\ campaigns = [m \in Mail |-> 0] /\ refused = {}
  /\ \E s \in Stock : routes = s.routes /\ lists = s.lists
  /\ pc = "idle" /\ rules = routes /\ todo = {} /\ route = None
  /\ found = {} /\ mail = None /\ folder = "Processed" /\ linked = FALSE
  /\ rename = <<>> /\ faults = 0 /\ edits = 0

\* The messages that are in a mailbox.
In(b) == {m \in Mail : BoxOf[m] = b /\ inbox[m].arrived /\ ~inbox[m].gone}

Open(rule) == rule.enabled /\ rule.signers

Fault == faults < MaxFaults /\ faults' = faults + 1

-----------------------------------------------------------------------------
(* The worker.                                                             *)

\* Mutant of StartPoll: the settings are read when the worker starts.
StartAsBooted ==
  /\ pc = "idle"
  /\ pc' = "poll" /\ todo' = {r \in Route : Open(rules[r])}
  /\ UNCHANGED <<server, history, rules, route, found, mail, folder, linked, files, faults>>

\* run_newsletter_worker: the settings are read once for a round, and a route without
\* signers is passed over.
StartPoll ==
  /\ pc = "idle"
  /\ pc' = "poll" /\ rules' = routes /\ todo' = {r \in Route : Open(routes[r])}
  /\ UNCHANGED <<server, history, route, found, mail, folder, linked, files, faults>>

EndPoll ==
  /\ pc = "poll" /\ todo = {} /\ pc' = "idle"
  /\ UNCHANGED <<server, history, rules, todo, route, found, mail, folder, linked, files, faults>>

\* poll_inbound_mailbox up to the search.
OpenRoute(r) ==
  /\ pc = "poll" /\ r \in todo /\ todo' = todo \ {r}
  /\ \/ /\ pc' = "fetch" /\ route' = r /\ linked' = TRUE
        /\ found' = {m \in In(Reads[r]) : ~inbox[m].seen}
        /\ UNCHANGED faults
     \/ Fault /\ UNCHANGED <<pc, route, linked, found>>
  /\ UNCHANGED <<server, history, rules, mail, folder, files>>

\* The connection is broken, or breaks now.
Breaks ==
  /\ linked' = FALSE
  /\ IF linked THEN Fault ELSE UNCHANGED faults

\* The handler of the loop: the message is marked and filed as one that failed, and so is
\* one that was accepted already.
TurnDown(m) == pc' = "see" /\ folder' = "Failed" /\ refused' = refused \cup {m}

\* An exception in the handler ends it.
GiveUp ==
  IF folder = "Failed" THEN pc' = "fetch" /\ UNCHANGED <<folder, refused>>
  ELSE TurnDown(mail)

\* Mutant of FetchBody: a fetch sets the flag.
FetchSets(m) ==
  /\ linked /\ pc' = "check" /\ inbox' = [inbox EXCEPT ![m].seen = TRUE]
  /\ UNCHANGED <<folder, linked, refused, faults>>

\* The body is fetched with PEEK.
FetchBody(m) ==
  /\ linked /\ pc' = "check"
  /\ UNCHANGED <<inbox, folder, linked, refused, faults>>

Fetch(m) ==
  /\ pc = "fetch" /\ m \in found /\ found' = found \ {m} /\ mail' = m
  /\ \/ FetchBody(m)
     \/ linked /\ Fault /\ TurnDown(m) /\ UNCHANGED <<inbox, linked>>
     \/ Breaks /\ TurnDown(m) /\ UNCHANGED inbox
  /\ UNCHANGED <<copies, campaigns, rules, todo, route, files>>

Accepted == {IdOf[m] : m \in {n \in Mail : campaigns[n] > 0}}

\* resolve_mailbox_recipients
Resolves(rule) == rule.lists # {} /\ rule.lists \subseteq lists

\* Mutant of Passes: whether the message was accepted before is not asked.
PassesAgain(r, m) == <<r, m>> \in Suits /\ Resolves(rules[r])

\* What process_inbound_message and dispatch_inbound_newsletter ask of a message.
Passes(r, m) ==
  <<r, m>> \in Suits /\ Resolves(rules[r]) /\ IdOf[m] \notin Accepted

\* enqueue_campaign commits the campaign before any flag is set.
Enqueue(r, m) ==
  Passes(r, m) /\ campaigns' = [campaigns EXCEPT ![m] = IF @ < 2 THEN @ + 1 ELSE @]

FileProcessed == pc' = "see" /\ folder' = "Processed" /\ UNCHANGED refused

\* Mutant of Outcome: a message that is turned down is filed like one that passed.
RefusalProcessed(r, m) ==
  \/ Enqueue(r, m) /\ FileProcessed
  \/ /\ ~Passes(r, m) /\ UNCHANGED campaigns
     /\ pc' = "see" /\ folder' = "Processed" /\ refused' = refused \cup {m}

Outcome(r, m) ==
  \/ Enqueue(r, m) /\ FileProcessed
  \/ ~Passes(r, m) /\ TurnDown(m) /\ UNCHANGED campaigns

\* GPG, the directory or the database may fail before the commit, and the audit entry after
\* it: then the message is turned down though its campaign goes out.
Process ==
  /\ pc = "check"
  /\ \/ Outcome(route, mail) /\ UNCHANGED faults
     \/ Fault /\ TurnDown(mail) /\ (UNCHANGED campaigns \/ Enqueue(route, mail))
  /\ UNCHANGED <<server, rules, todo, route, found, mail, linked, files>>

\* A command that the server takes or, without an exception, refuses.
See ==
  /\ pc = "see"
  /\ \/ /\ linked /\ pc' = "copy" /\ inbox' = [inbox EXCEPT ![mail].seen = TRUE]
        /\ UNCHANGED <<faults, linked, folder, refused>>
     \/ linked /\ pc' = "copy" /\ Fault /\ UNCHANGED <<inbox, linked, folder, refused>>
     \/ Breaks /\ GiveUp /\ UNCHANGED inbox
  /\ UNCHANGED <<copies, campaigns, rules, todo, route, found, mail, files>>

\* Mutant of AfterRefusal: the answer of the server is not looked at.
DeleteAnyway == "delete"

\* A message that could not be copied stays.
AfterRefusal == "fetch"

\* move_imap_message
Copy ==
  /\ pc = "copy"
  /\ \/ /\ linked /\ pc' = "delete" /\ copies' = [copies EXCEPT ![mail] = @ \cup {folder}]
        /\ UNCHANGED <<faults, linked, folder, refused>>
     \/ linked /\ pc' = AfterRefusal /\ Fault /\ UNCHANGED <<copies, linked, folder, refused>>
     \/ Breaks /\ GiveUp /\ UNCHANGED copies
  /\ UNCHANGED <<inbox, campaigns, rules, todo, route, found, mail, files>>

Delete ==
  /\ pc = "delete"
  /\ \/ /\ linked /\ pc' = "fetch" /\ inbox' = [inbox EXCEPT ![mail].deleted = TRUE]
        /\ UNCHANGED <<faults, linked, folder, refused>>
     \/ linked /\ pc' = "fetch" /\ Fault /\ UNCHANGED <<inbox, linked, folder, refused>>
     \/ Breaks /\ GiveUp /\ UNCHANGED inbox
  /\ UNCHANGED <<copies, campaigns, rules, todo, route, found, mail, files>>

\* All messages that were found are done: what is marked as deleted goes, also what an
\* earlier round had marked.  An error is ignored.
CloseRoute ==
  /\ pc = "fetch" /\ found = {} /\ pc' = "poll"
  /\ \/ /\ linked /\ UNCHANGED faults
        /\ inbox' = [m \in Mail |-> [inbox[m] EXCEPT
             !.gone = @ \/ (m \in In(Reads[route]) /\ inbox[m].deleted)]]
     \/ Breaks /\ UNCHANGED inbox
  /\ linked' = FALSE /\ route' = None /\ mail' = None /\ folder' = "Processed"
  /\ UNCHANGED <<copies, history, rules, todo, found, files>>

\* The worker dies; its service starts it again.
Crash ==
  /\ pc # "idle" /\ Fault
  /\ pc' = "idle" /\ todo' = {} /\ route' = None /\ found' = {} /\ linked' = FALSE
  /\ mail' = None /\ folder' = "Processed"
  /\ UNCHANGED <<server, history, rules, files>>

-----------------------------------------------------------------------------
(* Messages and settings.                                                  *)

Arrive(m) ==
  /\ ~inbox[m].arrived /\ inbox' = [inbox EXCEPT ![m].arrived = TRUE]
  /\ UNCHANGED <<copies, history, memory, files, faults>>

Edited == edits < MaxEdits /\ edits' = edits + 1
Elsewhere == UNCHANGED <<server, history, memory, faults>>

\* manage_inbound_relay: lists must exist, and what is switched on must be complete.
SaveRoute(r) ==
  /\ rename = <<>>
  /\ \E rule \in Rule :
       /\ rule.lists \subseteq lists
       /\ rule.enabled => rule.signers /\ rule.lists # {}
       /\ routes' = [routes EXCEPT ![r] = rule]
  /\ Edited /\ Elsewhere /\ UNCHANGED <<lists, rename>>

\* save_list under a name of its own.
SaveList(l) ==
  /\ rename = <<>> /\ lists' = lists \cup {l}
  /\ Edited /\ Elsewhere /\ UNCHANGED <<routes, rename>>

\* delete_list looks at the routes of the settings file.  The one that the environment may
\* describe while that file has none is not among them, and not in this model.
DeleteList(l) ==
  /\ rename = <<>> /\ l \in lists /\ \A r \in Route : l \notin routes[r].lists
  /\ lists' = lists \ {l}
  /\ Edited /\ Elsewhere /\ UNCHANGED <<routes, rename>>

Renamed(l, n) ==
  [r \in Route |-> [routes[r] EXCEPT
     !.lists = IF l \in @ THEN (@ \ {l}) \cup {n} ELSE @]]

\* Mutant of RenameList: the list is moved before the routes are told.
MoveFirst(l, n) ==
  /\ rename = <<>> /\ l \in lists /\ n # l
  /\ lists' = (lists \cup {n}) \ {l} /\ rename' = <<l, n, 1>>
  /\ Edited /\ Elsewhere /\ UNCHANGED routes

\* save_list under another name: the new file is written ...
RenameList(l, n) ==
  /\ rename = <<>> /\ l \in lists /\ n # l
  /\ lists' = lists \cup {n} /\ rename' = <<l, n, 1>>
  /\ Edited /\ Elsewhere /\ UNCHANGED routes

\* ... then the routes ...
RenameInRoutes ==
  /\ rename # <<>> /\ rename[3] = 1
  /\ routes' = Renamed(rename[1], rename[2]) /\ rename' = <<rename[1], rename[2], 2>>
  /\ Elsewhere /\ UNCHANGED <<lists, edits>>

\* ... and the old file is removed.
RemoveOld ==
  /\ rename # <<>> /\ rename[3] = 2
  /\ lists' = lists \ {rename[1]} /\ rename' = <<>>
  /\ Elsewhere /\ UNCHANGED <<routes, edits>>

\* The web process dies.
WebCrash ==
  /\ rename # <<>> /\ rename' = <<>> /\ Fault
  /\ UNCHANGED <<server, history, memory, routes, lists, edits>>

-----------------------------------------------------------------------------

WorkerStep ==
  \/ StartPoll \/ EndPoll \/ Process \/ See \/ Copy \/ Delete \/ CloseRoute
  \/ \E r \in Route : OpenRoute(r)
  \/ \E m \in Mail : Fetch(m)

EditorStep ==
  \/ \E r \in Route : SaveRoute(r)
  \/ \E l \in List : SaveList(l) \/ DeleteList(l)
  \/ \E l, n \in List : RenameList(l, n)
  \/ RenameInRoutes \/ RemoveOld

Next ==
  \/ WorkerStep \/ EditorStep \/ Crash \/ WebCrash
  \/ \E m \in Mail : Arrive(m)

Spec == Init /\ [][Next]_vars

\* The worker's loop goes on, and a poll takes the routes one after the other.
FairSpec ==
  /\ Spec
  /\ WF_vars(WorkerStep)
  /\ \A r \in Route : SF_vars(OpenRoute(r) /\ pc' = "fetch")

-----------------------------------------------------------------------------
(* Properties.                                                             *)

\* One Message-ID starts one campaign at most, though the flags that keep a message from
\* being found again are set after the commit and may never be set, though it may be sent
\* again, and though several routes may read the same mailbox.
OneCampaign ==
  \A m, n \in Mail :
    IdOf[m] = IdOf[n] /\ campaigns[m] > 0 => campaigns[m] = 1 /\ (m = n \/ campaigns[n] = 0)

\* No message is out of the search's sight before it was decided on: a death of the worker
\* or a broken connection never loses one between the fetch and the decision.
SeenIsDecided == \A m \in Mail : inbox[m].seen => campaigns[m] > 0 \/ m \in refused

\* A message that is gone from the mailbox is in one of the two folders.
GoneIsFiled == \A m \in Mail : inbox[m].gone => copies[m] # {}

\* A message is under Processed only if a campaign was made of this very message.
ProcessedIsAccepted == \A m \in Mail : "Processed" \in copies[m] => campaigns[m] > 0

\* The lists of every route exist, while a list is renamed and after a death in the middle
\* of it too: no message is turned down for the sake of a renaming that was not finished.
\* Requests that change settings come one after the other here.
RouteListsExist == \A r \in Route : routes[r].lists \subseteq lists

\* An unseen message is looked at, as long as a route of its mailbox is switched on.
MailIsHandled ==
  \A m \in Mail, r \in Route :
    (m \in In(Reads[r]) /\ ~inbox[m].seen)
      ~> (inbox[m].seen \/ inbox[m].gone \/ m \in refused \/ ~Open(routes[r]))
=============================================================================
