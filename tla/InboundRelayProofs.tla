------------------------- MODULE InboundRelayProofs --------------------------
(***************************************************************************)
(* Proofs about InboundRelay: for any number of messages, routes, lists    *)
(* and mailboxes, any faults and any changes of the settings, a Message-ID *)
(* starts one campaign at most, no message is lost or misfiled, and the    *)
(* lists of every route exist.                                             *)
(***************************************************************************)
EXTENDS InboundRelay, TLAPS

\* Where the worker has a message in hand.
Deciding == {"check", "see", "copy", "delete"}
Decided == {"see", "copy", "delete"}

\* What the worker has in hand is in its memory.
HandInv ==
  /\ pc \in Deciding => mail \in Mail
  /\ pc \in Deciding \cup {"fetch"} => route \in Route

\* A message is decided on before a flag is set, and a copy comes before the deletion.
FiledInv ==
  /\ pc \in Decided => campaigns[mail] > 0 \/ mail \in refused
  /\ pc \in Decided /\ folder = "Processed" => campaigns[mail] > 0
  /\ pc = "delete" => copies[mail] # {}
  /\ \A m \in Mail : inbox[m].deleted => copies[m] # {}
  /\ SeenIsDecided /\ GoneIsFiled /\ ProcessedIsAccepted

\* While a list is renamed both names have a file, and once the routes are written none
\* of them names the old one.
RenameInv ==
  /\ RouteListsExist
  /\ rename # <<>> =>
       /\ rename[1] # rename[2] /\ rename[2] \in lists
       /\ rename[3] = 2 => \A r \in Route : rename[1] \notin routes[r].lists

IInv == TypeOK /\ HandInv /\ FiledInv /\ OneCampaign /\ RenameInv

Flags == [arrived : BOOLEAN, gone : BOOLEAN, seen : BOOLEAN, deleted : BOOLEAN]

-----------------------------------------------------------------------------
(* Initial states and types.                                               *)

LEMMA InitHolds == Init => IInv
<1> SUFFICES ASSUME Init PROVE IInv
  OBVIOUS
<1>1. PICK s \in Stock : routes = s.routes /\ lists = s.lists
  BY DEF Init
<1>2. routes \in [Route -> Rule] /\ lists \subseteq List /\ RouteListsExist
  BY <1>1, StockAssumption DEF RouteListsExist
<1>3. TypeOK
  <2>1. inbox \in [Mail -> Flags] /\ copies \in [Mail -> SUBSET Folder]
        /\ campaigns \in [Mail -> 0..2]
    BY DEF Init, Flags
  <2>2. faults \in 0..MaxFaults /\ edits \in 0..MaxEdits
    BY BoundAssumption DEF Init
  <2> QED
    BY <1>2, <2>1, <2>2 DEF Init, TypeOK, Places, Folder, Flags
<1>4. HandInv /\ FiledInv /\ OneCampaign
  BY DEF Init, HandInv, FiledInv, Deciding, Decided, SeenIsDecided, GoneIsFiled,
         ProcessedIsAccepted, OneCampaign
<1>5. RenameInv
  BY <1>2 DEF Init, RenameInv
<1> QED
  BY <1>3, <1>4, <1>5 DEF IInv

LEMMA MarkType ==
  ASSUME TypeOK, NEW m \in Mail
  PROVE  /\ [inbox EXCEPT ![m].seen = TRUE] \in [Mail -> Flags]
         /\ [inbox EXCEPT ![m].deleted = TRUE] \in [Mail -> Flags]
<1>1. inbox \in [Mail -> Flags] /\ inbox[m] \in Flags
  BY DEF TypeOK, Flags
<1>2. [inbox[m] EXCEPT !.seen = TRUE] \in Flags /\ [inbox[m] EXCEPT !.deleted = TRUE] \in Flags
  BY <1>1 DEF Flags
<1> QED
  BY <1>1, <1>2

LEMMA FaultType == TypeOK /\ Fault => faults' \in 0..MaxFaults
BY BoundAssumption DEF TypeOK, Fault

LEMMA BreaksType == TypeOK /\ Breaks => faults' \in 0..MaxFaults /\ linked' \in BOOLEAN
BY FaultType DEF Breaks, TypeOK

LEMMA GiveUpType ==
  TypeOK /\ mail \in Mail /\ GiveUp =>
    pc' \in {"fetch", "see"} /\ folder' \in Folder /\ refused' \subseteq Mail
BY DEF TypeOK, GiveUp, TurnDown, Folder

-----------------------------------------------------------------------------
(* Types.                                                                  *)

LEMMA TypeInvariant == TypeOK /\ HandInv /\ [Next]_vars => TypeOK'
<1> SUFFICES ASSUME TypeOK, HandInv, [Next]_vars PROVE TypeOK'
  OBVIOUS
<1> USE BoundAssumption DEF TypeOK, Places, Folder
<1>1. CASE UNCHANGED vars
  BY <1>1 DEF vars, server, history, memory, files
<1>2. CASE StartPoll
  BY <1>2 DEF StartPoll, server, history, files
<1>3. CASE EndPoll
  BY <1>3 DEF EndPoll, server, history, files
<1>4. CASE Process
  <2>1. mail \in Mail /\ route \in Route
    BY <1>4 DEF Process, HandInv, Deciding
  <2>2. campaigns' \in [Mail -> 0..2] /\ refused' \subseteq Mail /\ pc' = "see" /\ folder' \in Folder
    BY <1>4, <2>1 DEF Process, Outcome, Enqueue, FileProcessed, TurnDown
  <2>3. faults' \in 0..MaxFaults
    BY <1>4, FaultType DEF Process
  <2> QED
    BY <1>4, <2>2, <2>3 DEF Process, server, files
<1>5. CASE See
  <2>1. mail \in Mail
    BY <1>5 DEF See, HandInv, Deciding
  <2>2. inbox' \in [Mail -> Flags]
    <3>1. inbox' = inbox \/ inbox' = [inbox EXCEPT ![mail].seen = TRUE]
      BY <1>5 DEF See
    <3>2. inbox \in [Mail -> Flags]
      BY DEF Flags
    <3>3. [inbox EXCEPT ![mail].seen = TRUE] \in [Mail -> Flags]
      BY <2>1, MarkType
    <3> QED
      BY <3>1, <3>2, <3>3
  <2>3. faults' \in 0..MaxFaults /\ linked' \in BOOLEAN
    BY <1>5, FaultType, BreaksType DEF See
  <2>4. pc' \in Places /\ folder' \in Folder /\ refused' \subseteq Mail
    BY <1>5, <2>1, GiveUpType DEF See
  <2> QED
    BY <1>5, <2>2, <2>3, <2>4 DEF See, files, Flags
<1>6. CASE Copy
  <2>1. mail \in Mail
    BY <1>6 DEF Copy, HandInv, Deciding
  <2>2. copies' \in [Mail -> SUBSET Folder]
    BY <1>6 DEF Copy
  <2>3. faults' \in 0..MaxFaults /\ linked' \in BOOLEAN
    BY <1>6, FaultType, BreaksType DEF Copy
  <2>4. pc' \in Places /\ folder' \in Folder /\ refused' \subseteq Mail
    BY <1>6, <2>1, GiveUpType DEF Copy, AfterRefusal
  <2> QED
    BY <1>6, <2>2, <2>3, <2>4 DEF Copy, files
<1>7. CASE Delete
  <2>1. mail \in Mail
    BY <1>7 DEF Delete, HandInv, Deciding
  <2>2. inbox' \in [Mail -> Flags]
    <3>1. inbox' = inbox \/ inbox' = [inbox EXCEPT ![mail].deleted = TRUE]
      BY <1>7 DEF Delete
    <3>2. inbox \in [Mail -> Flags]
      BY DEF Flags
    <3>3. [inbox EXCEPT ![mail].deleted = TRUE] \in [Mail -> Flags]
      BY <2>1, MarkType
    <3> QED
      BY <3>1, <3>2, <3>3
  <2>3. faults' \in 0..MaxFaults /\ linked' \in BOOLEAN
    BY <1>7, FaultType, BreaksType DEF Delete
  <2>4. pc' \in Places /\ folder' \in Folder /\ refused' \subseteq Mail
    BY <1>7, <2>1, GiveUpType DEF Delete
  <2> QED
    BY <1>7, <2>2, <2>3, <2>4 DEF Delete, files, Flags
<1>8. CASE CloseRoute
  <2>1. inbox' \in [Mail -> Flags]
    BY <1>8 DEF CloseRoute, Flags
  <2>2. faults' \in 0..MaxFaults
    BY <1>8, BreaksType DEF CloseRoute
  <2> QED
    BY <1>8, <2>1, <2>2 DEF CloseRoute, history, files, Flags
<1>9. ASSUME NEW r \in Route, OpenRoute(r) PROVE TypeOK'
  <2>1. faults' \in 0..MaxFaults
    BY <1>9, FaultType DEF OpenRoute
  <2> QED
    BY <1>9, <2>1 DEF OpenRoute, In, server, history, files
<1>10. ASSUME NEW m \in Mail, Fetch(m) PROVE TypeOK'
  <2>1. faults' \in 0..MaxFaults /\ linked' \in BOOLEAN
    BY <1>10, FaultType, BreaksType DEF Fetch, FetchBody
  <2>2. pc' \in Places /\ folder' \in Folder /\ refused' \subseteq Mail /\ inbox' = inbox
    BY <1>10 DEF Fetch, FetchBody, TurnDown
  <2> QED
    BY <1>10, <2>1, <2>2 DEF Fetch, files
<1>11. ASSUME NEW r \in Route, SaveRoute(r) PROVE TypeOK'
  BY <1>11 DEF SaveRoute, Edited, Elsewhere, server, history, memory
<1>12. ASSUME NEW l \in List, SaveList(l) \/ DeleteList(l) PROVE TypeOK'
  BY <1>12 DEF SaveList, DeleteList, Edited, Elsewhere, server, history, memory
<1>13. ASSUME NEW l \in List, NEW n \in List, RenameList(l, n) PROVE TypeOK'
  BY <1>13 DEF RenameList, Edited, Elsewhere, server, history, memory
<1>14. CASE RenameInRoutes
  <2>1. rename \in List \X List \X {1, 2}
    BY <1>14 DEF RenameInRoutes
  <2>2. routes' \in [Route -> Rule]
    BY <1>14, <2>1 DEF RenameInRoutes, Renamed, Rule
  <2> QED
    BY <1>14, <2>1, <2>2 DEF RenameInRoutes, Elsewhere, server, history, memory
<1>15. CASE RemoveOld
  BY <1>15 DEF RemoveOld, Elsewhere, server, history, memory
<1>16. CASE Crash
  <2>1. faults' \in 0..MaxFaults
    BY <1>16 DEF Crash, Fault
  <2> QED
    BY <1>16, <2>1 DEF Crash, server, history, files
<1>17. CASE WebCrash
  BY <1>17 DEF WebCrash, Fault, server, history, memory
<1>18. ASSUME NEW m \in Mail, Arrive(m) PROVE TypeOK'
  BY <1>18 DEF Arrive, history, memory, files
<1> QED
  BY <1>1, <1>2, <1>3, <1>4, <1>5, <1>6, <1>7, <1>8, <1>9, <1>10, <1>11, <1>12, <1>13,
     <1>14, <1>15, <1>16, <1>17, <1>18 DEF Next, WorkerStep, EditorStep

-----------------------------------------------------------------------------
(* What the steps leave alone.                                             *)

LEMMA EditorLeaves ==
  EditorStep \/ WebCrash => UNCHANGED <<inbox, copies, campaigns, refused, pc, route, mail, folder>>
BY DEF EditorStep, SaveRoute, SaveList, DeleteList, RenameList, RenameInRoutes, RemoveOld,
       WebCrash, Elsewhere, server, history, memory

LEMMA WorkerLeaves ==
  WorkerStep \/ Crash \/ (\E m \in Mail : Arrive(m)) => UNCHANGED <<routes, lists, rename>>
BY DEF WorkerStep, StartPoll, EndPoll, Process, See, Copy, Delete, CloseRoute, OpenRoute,
       Fetch, Crash, Arrive, files

LEMMA OthersLeaveCampaigns ==
  [Next]_vars => campaigns' = campaigns \/ (Process /\ Enqueue(route, mail))
BY EditorLeaves DEF Next, WorkerStep, StartPoll, EndPoll, Process, Outcome, See, Copy, Delete,
     CloseRoute, OpenRoute, Fetch, Crash, Arrive, history, vars

-----------------------------------------------------------------------------
(* One campaign for each Message-ID.                                       *)

LEMMA CampaignInvariant == TypeOK /\ HandInv /\ OneCampaign /\ [Next]_vars => OneCampaign'
<1> SUFFICES ASSUME TypeOK, HandInv, OneCampaign, [Next]_vars PROVE OneCampaign'
  OBVIOUS
<1>1. CASE campaigns' = campaigns
  BY <1>1 DEF OneCampaign
<1>2. CASE Process /\ Enqueue(route, mail)
  <2>1. mail \in Mail /\ campaigns \in [Mail -> 0..2]
    BY <1>2 DEF Process, HandInv, Deciding, TypeOK
  <2>2. IdOf[mail] \notin Accepted
    BY <1>2 DEF Enqueue, Passes
  <2>3. \A n \in Mail : IdOf[n] = IdOf[mail] => campaigns[n] = 0
    BY <2>1, <2>2 DEF Accepted
  <2>4. campaigns' = [campaigns EXCEPT ![mail] = IF @ < 2 THEN @ + 1 ELSE @]
    BY <1>2 DEF Enqueue
  <2>5. (IF campaigns[mail] < 2 THEN campaigns[mail] + 1 ELSE campaigns[mail]) = 1
    BY <2>1, <2>3
  <2>6. campaigns' = [campaigns EXCEPT ![mail] = 1]
    BY <2>4, <2>5, Zenon
  <2> QED
    BY <2>1, <2>3, <2>6 DEF OneCampaign
<1> QED
  BY <1>1, <1>2, OthersLeaveCampaigns

-----------------------------------------------------------------------------
(* The lists of the routes.                                                *)

LEMMA RenameInvariant == TypeOK /\ RenameInv /\ [Next]_vars => RenameInv'
<1> SUFFICES ASSUME TypeOK, RenameInv, [Next]_vars PROVE RenameInv'
  OBVIOUS
<1> USE DEF RenameInv, RouteListsExist
<1>1. CASE UNCHANGED <<routes, lists, rename>>
  BY <1>1
<1>2. ASSUME NEW r \in Route, SaveRoute(r) PROVE RenameInv'
  <2>1. PICK rule \in Rule : rule.lists \subseteq lists /\ routes' = [routes EXCEPT ![r] = rule]
    BY <1>2 DEF SaveRoute
  <2>2. \A q \in Route : routes'[q] = rule \/ routes'[q] = routes[q]
    BY <2>1 DEF TypeOK
  <2>3. rename' = <<>> /\ lists' = lists
    BY <1>2 DEF SaveRoute
  <2> QED
    BY <2>1, <2>2, <2>3
<1>3. ASSUME NEW l \in List, SaveList(l) \/ DeleteList(l) PROVE RenameInv'
  BY <1>3 DEF SaveList, DeleteList
<1>4. ASSUME NEW l \in List, NEW n \in List, RenameList(l, n) PROVE RenameInv'
  <2>1. rename' = <<l, n, 1>> /\ lists' = lists \cup {n} /\ routes' = routes /\ n # l
    BY <1>4 DEF RenameList
  <2> QED
    BY <2>1
<1>5. CASE RenameInRoutes
  <2>1. rename' = <<rename[1], rename[2], 2>> /\ rename # <<>> /\ lists' = lists
    BY <1>5 DEF RenameInRoutes
  <2>2. ASSUME NEW r \in Route
        PROVE  routes'[r].lists \subseteq lists /\ rename[1] \notin routes'[r].lists
    <3>1. routes'[r] = [routes[r] EXCEPT
            !.lists = IF rename[1] \in routes[r].lists
                      THEN (routes[r].lists \ {rename[1]}) \cup {rename[2]}
                      ELSE routes[r].lists]
      BY <1>5 DEF RenameInRoutes, Renamed
    <3>2. routes'[r].lists = IF rename[1] \in routes[r].lists
                             THEN (routes[r].lists \ {rename[1]}) \cup {rename[2]}
                             ELSE routes[r].lists
      BY <3>1 DEF TypeOK, Rule
    <3> QED
      BY <2>1, <3>2
  <2> QED
    BY <2>1, <2>2
<1>6. CASE RemoveOld
  <2>1. lists' = lists \ {rename[1]} /\ rename' = <<>> /\ routes' = routes /\ rename # <<>> /\ rename[3] = 2
    BY <1>6 DEF RemoveOld
  <2> QED
    BY <2>1
<1>7. CASE WebCrash
  BY <1>7 DEF WebCrash
<1> QED
  BY <1>1, <1>2, <1>3, <1>4, <1>5, <1>6, <1>7, WorkerLeaves DEF Next, EditorStep, vars, files

-----------------------------------------------------------------------------
(* What the worker has in hand.                                            *)

LEMMA HandInvariant == TypeOK /\ HandInv /\ [Next]_vars => HandInv'
<1> SUFFICES ASSUME TypeOK, HandInv, [Next]_vars PROVE HandInv'
  OBVIOUS
<1> USE DEF HandInv, Deciding, TypeOK
<1>1. CASE UNCHANGED vars
  BY <1>1 DEF vars, memory
<1>2. CASE StartPoll \/ EndPoll \/ CloseRoute \/ Crash
  BY <1>2 DEF StartPoll, EndPoll, CloseRoute, Crash
<1>3. CASE Process \/ See \/ Copy \/ Delete
  BY <1>3 DEF Process, Outcome, Enqueue, FileProcessed, See, Copy, Delete, GiveUp, TurnDown,
              AfterRefusal
<1>4. CASE \E r \in Route : OpenRoute(r)
  BY <1>4 DEF OpenRoute
<1>5. CASE \E m \in Mail : Fetch(m)
  BY <1>5 DEF Fetch, FetchBody, TurnDown
<1>6. CASE EditorStep \/ WebCrash
  BY <1>6, EditorLeaves
<1>7. CASE \E m \in Mail : Arrive(m)
  BY <1>7 DEF Arrive, memory
<1> QED
  BY <1>1, <1>2, <1>3, <1>4, <1>5, <1>6, <1>7 DEF Next, WorkerStep

-----------------------------------------------------------------------------
(* Decisions, flags and copies.                                            *)

\* What a step leaves in hand is decided on, and a deletion has its copy.
LEMMA DecidedInvariant ==
  TypeOK /\ HandInv /\ FiledInv /\ [Next]_vars =>
    /\ pc' \in Decided => campaigns'[mail'] > 0 \/ mail' \in refused'
    /\ pc' \in Decided /\ folder' = "Processed" => campaigns'[mail'] > 0
    /\ pc' = "delete" => copies'[mail'] # {}
<1> SUFFICES ASSUME TypeOK, HandInv, FiledInv, [Next]_vars
             PROVE  /\ pc' \in Decided => campaigns'[mail'] > 0 \/ mail' \in refused'
                    /\ pc' \in Decided /\ folder' = "Processed" => campaigns'[mail'] > 0
                    /\ pc' = "delete" => copies'[mail'] # {}
  OBVIOUS
<1> USE DEF FiledInv, Decided
<1>1. CASE UNCHANGED vars
  BY <1>1 DEF vars, memory, history, server
<1>2. CASE StartPoll \/ EndPoll \/ CloseRoute \/ Crash
  BY <1>2 DEF StartPoll, EndPoll, CloseRoute, Crash
<1>3. CASE Process
  <2>1. mail \in Mail /\ campaigns \in [Mail -> 0..2] /\ mail' = mail /\ pc' = "see"
    BY <1>3 DEF Process, Outcome, FileProcessed, TurnDown, HandInv, Deciding, TypeOK
  <2>2. CASE TurnDown(mail)
    BY <2>1, <2>2 DEF TurnDown
  <2>3. CASE campaigns' = [campaigns EXCEPT ![mail] = IF @ < 2 THEN @ + 1 ELSE @]
    BY <2>1, <2>3
  <2> QED
    BY <1>3, <2>2, <2>3 DEF Process, Outcome, Enqueue
<1>4. CASE See
  BY <1>4 DEF See, GiveUp, TurnDown
<1>5. CASE Copy
  <2>1. mail \in Mail /\ mail' = mail /\ campaigns' = campaigns
    BY <1>5 DEF Copy, HandInv, Deciding
  <2>2. CASE pc' = "delete"
    BY <1>5, <2>1, <2>2 DEF Copy, GiveUp, TurnDown, AfterRefusal, TypeOK
  <2>3. CASE pc' = "see"
    BY <1>5, <2>1, <2>3 DEF Copy, GiveUp, TurnDown, AfterRefusal
  <2>4. CASE pc' = "fetch"
    BY <2>4
  <2> QED
    BY <1>5, <2>2, <2>3, <2>4 DEF Copy, GiveUp, TurnDown, AfterRefusal
<1>6. CASE Delete
  BY <1>6 DEF Delete, GiveUp, TurnDown
<1>7. CASE \E r \in Route : OpenRoute(r)
  BY <1>7 DEF OpenRoute
<1>8. CASE \E m \in Mail : Fetch(m)
  BY <1>8 DEF Fetch, FetchBody, TurnDown
<1>9. CASE EditorStep \/ WebCrash
  BY <1>9, EditorLeaves
<1>10. CASE \E m \in Mail : Arrive(m)
  BY <1>10 DEF Arrive, memory, history
<1> QED
  BY <1>1, <1>2, <1>3, <1>4, <1>5, <1>6, <1>7, <1>8, <1>9, <1>10 DEF Next, WorkerStep

\* Campaigns, refusals and copies are never taken back.
LEMMA Kept ==
  TypeOK /\ HandInv /\ [Next]_vars =>
    /\ refused \subseteq refused'
    /\ \A m \in Mail : campaigns[m] > 0 => campaigns'[m] > 0
    /\ \A m \in Mail : copies[m] \subseteq copies'[m]
<1> SUFFICES ASSUME TypeOK, HandInv, [Next]_vars
             PROVE  /\ refused \subseteq refused'
                    /\ \A m \in Mail : campaigns[m] > 0 => campaigns'[m] > 0
                    /\ \A m \in Mail : copies[m] \subseteq copies'[m]
  OBVIOUS
<1>1. refused \subseteq refused'
  BY EditorLeaves DEF Next, WorkerStep, StartPoll, EndPoll, Process, Outcome, FileProcessed, See, Copy, Delete,
     CloseRoute, OpenRoute, Fetch, FetchBody, Crash, Arrive, GiveUp, TurnDown, history, vars
<1>2. ASSUME NEW m \in Mail, campaigns[m] > 0 PROVE campaigns'[m] > 0
  BY <1>2, OthersLeaveCampaigns DEF Enqueue, TypeOK
<1>3. copies' = copies \/ (Copy /\ copies' = [copies EXCEPT ![mail] = @ \cup {folder}])
  BY EditorLeaves DEF Next, WorkerStep, StartPoll, EndPoll, Process, See, Copy, Delete,
     CloseRoute, OpenRoute, Fetch, Crash, Arrive, server, vars
<1>4. ASSUME NEW m \in Mail PROVE copies[m] \subseteq copies'[m]
  BY <1>3 DEF TypeOK
<1> QED
  BY <1>1, <1>2, <1>4

\* Which step sets which flag.
LEMMA Marks ==
  ASSUME TypeOK, HandInv, [Next]_vars, NEW m \in Mail
  PROVE  /\ inbox'[m].seen => inbox[m].seen \/ (See /\ m = mail)
         /\ inbox'[m].deleted => inbox[m].deleted \/ (Delete /\ m = mail)
         /\ inbox'[m].gone => inbox[m].gone \/ inbox[m].deleted
<1> DEFINE Goal ==
      /\ inbox'[m].seen => inbox[m].seen \/ (See /\ m = mail)
      /\ inbox'[m].deleted => inbox[m].deleted \/ (Delete /\ m = mail)
      /\ inbox'[m].gone => inbox[m].gone \/ inbox[m].deleted
<1>1. CASE inbox' = inbox
  BY <1>1
<1>2. CASE See /\ inbox' = [inbox EXCEPT ![mail].seen = TRUE]
  BY <1>2 DEF TypeOK
<1>3. CASE Delete /\ inbox' = [inbox EXCEPT ![mail].deleted = TRUE]
  BY <1>3 DEF TypeOK
<1>4. CASE CloseRoute /\ inbox' # inbox
  <2>1. inbox'[m] = [inbox[m] EXCEPT !.gone = @ \/ (m \in In(Reads[route]) /\ inbox[m].deleted)]
    BY <1>4 DEF CloseRoute, Breaks
  <2> QED
    BY <2>1 DEF TypeOK
<1>5. ASSUME NEW n \in Mail, Arrive(n) PROVE Goal
  BY <1>5 DEF Arrive, TypeOK
<1>6. \/ inbox' = inbox \/ (CloseRoute /\ inbox' # inbox)
      \/ See /\ inbox' = [inbox EXCEPT ![mail].seen = TRUE]
      \/ Delete /\ inbox' = [inbox EXCEPT ![mail].deleted = TRUE]
      \/ \E n \in Mail : Arrive(n)
  BY EditorLeaves DEF Next, WorkerStep, StartPoll, EndPoll, Process, See, Copy, Delete,
     OpenRoute, Fetch, FetchBody, Crash, server, vars
<1> QED
  BY <1>1, <1>2, <1>3, <1>4, <1>5, <1>6

LEMMA FiledInvariant == TypeOK /\ HandInv /\ FiledInv /\ [Next]_vars => FiledInv'
<1> SUFFICES ASSUME TypeOK, HandInv, FiledInv, [Next]_vars PROVE FiledInv'
  OBVIOUS
<1>1. \A m \in Mail : inbox'[m].deleted => copies'[m] # {}
  <2>1. Delete => copies[mail] # {}
    BY DEF Delete, FiledInv
  <2> QED
    BY <2>1, Marks, Kept DEF FiledInv
<1>2. SeenIsDecided'
  <2>1. See => campaigns[mail] > 0 \/ mail \in refused
    BY DEF See, FiledInv, Decided
  <2> QED
    BY <2>1, Marks, Kept DEF FiledInv, SeenIsDecided
<1>3. GoneIsFiled'
  BY Marks, Kept DEF FiledInv, GoneIsFiled
<1>4. ProcessedIsAccepted'
  <2>1. copies' = copies \/ (Copy /\ copies' = [copies EXCEPT ![mail] = @ \cup {folder}])
    BY EditorLeaves DEF Next, WorkerStep, StartPoll, EndPoll, Process, See, Copy, Delete,
       CloseRoute, OpenRoute, Fetch, Crash, Arrive, server, vars
  <2>2. Copy => (folder = "Processed" => campaigns[mail] > 0)
    BY DEF Copy, FiledInv, Decided
  <2> QED
    BY <2>1, <2>2, Kept DEF FiledInv, ProcessedIsAccepted, TypeOK
<1> QED
  BY <1>1, <1>2, <1>3, <1>4, DecidedInvariant DEF FiledInv

-----------------------------------------------------------------------------
(* The theorems.                                                           *)

LEMMA Invariance == Spec => []IInv
<1>1. IInv /\ [Next]_vars => IInv'
  BY TypeInvariant, HandInvariant, FiledInvariant, CampaignInvariant, RenameInvariant DEF IInv
<1> QED
  BY <1>1, InitHolds, PTL DEF Spec

\* Every reachable state of the mailboxes, the worker and the settings is well typed.
THEOREM InboundTypeCorrect == Spec => []TypeOK
<1>1. IInv => TypeOK
  BY DEF IInv
<1> QED
  BY <1>1, Invariance, PTL

\* A Message-ID starts one campaign at most, for any number of messages that carry it and
\* of routes that read them.
THEOREM InboundOneCampaign == Spec => []OneCampaign
<1>1. IInv => OneCampaign
  BY DEF IInv
<1> QED
  BY <1>1, Invariance, PTL

\* No flag hides a message that was not decided on.
THEOREM InboundSeenIsDecided == Spec => []SeenIsDecided
<1>1. IInv => SeenIsDecided
  BY DEF IInv, FiledInv
<1> QED
  BY <1>1, Invariance, PTL

\* No message leaves its mailbox without a copy.
THEOREM InboundGoneIsFiled == Spec => []GoneIsFiled
<1>1. IInv => GoneIsFiled
  BY DEF IInv, FiledInv
<1> QED
  BY <1>1, Invariance, PTL

\* What is filed as processed has its own campaign.
THEOREM InboundProcessedIsAccepted == Spec => []ProcessedIsAccepted
<1>1. IInv => ProcessedIsAccepted
  BY DEF IInv, FiledInv
<1> QED
  BY <1>1, Invariance, PTL

\* No route names a list that has no file, also in the middle of a renaming.
THEOREM InboundRouteListsExist == Spec => []RouteListsExist
<1>1. IInv => RouteListsExist
  BY DEF IInv, RenameInv
<1> QED
  BY <1>1, Invariance, PTL
=============================================================================
