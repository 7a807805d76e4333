----------------------- MODULE EndpointIdentityProofs -----------------------
(***************************************************************************)
(* Proofs about EndpointIdentity: for any machines, however often they are *)
(* cloned, restarted, split, blocked and enrolled again.                   *)
(***************************************************************************)
EXTENDS EndpointIdentity, FiniteSetTheorems, TLAPS

\* A disk on which the installation of a new identity may have been interrupted anywhere.
Sound(d) ==
  /\ d.id = Nothing => d.token = Nothing /\ d.key = Nothing /\ d.split.id = Nothing
  /\ d.split.id = Nothing => d.split = NoSplit /\ d.key = d.id
  /\ d.split.id # Nothing =>
       /\ d.token # Nothing /\ d.split.token # Nothing
       /\ d.token = d.split.token => d.key = d.split.id
       /\ d.id = d.split.id => d.token = d.split.token

DiskInv == \A m \in Machine : Sound(disk[m])

ProcInv ==
  \A m \in Machine :
    /\ Running(m) => disk[m].split.id = Nothing /\ disk[m].id # Nothing /\ session[m] # Nothing
    /\ ~Running(m) => session[m] = Nothing
    /\ process[m] = "installing" => disk[m].split.id # Nothing
    /\ process[m] = "polling" => disk[m].token # Nothing /\ disk[m].secret = FALSE
    /\ \A x \in Machine : session[x] = session[m] /\ session[m] # Nothing => x = m

\* The identity that the token on a disk is one of.
Owner(d) == IF d.split.id # Nothing /\ d.token = d.split.token THEN d.split.id ELSE d.id

TokenInv ==
  /\ \A e \in Id : endpoint[e].token = Nothing <=> endpoint[e].status = "none"
  /\ \A e, f \in Id : endpoint[e].token # Nothing /\ endpoint[e].token = endpoint[f].token => e = f
  /\ \A m \in Machine, e \in Id : endpoint[e].token # Nothing =>
       /\ endpoint[e].token = disk[m].token => e = Owner(disk[m])
       /\ endpoint[e].token = disk[m].split.token => e = disk[m].split.id

CommandInv ==
  \A n \in Id : command[n].status # "none" =>
    /\ command[n].source \in Id /\ command[n].target \in Session
    /\ command[n].source # n
    /\ command[n].status \in {"Pending", "Delivered"} => endpoint[n].token # Nothing

TargetInv ==
  \A n \in Id, m \in Machine :
    command[n].status # "none" /\ session[m] = command[n].target =>
      /\ command[n].status # "Completed"
      /\ \A x \in Machine : disk[x].id # n /\ disk[x].split.id # n

InstanceInv ==
  /\ \A s, t \in Session : <<s, t>> \in after => \E e \in Id : s \in rows[e] /\ t \in rows[e]
  /\ \A m \in Machine, e \in Id : session[m] \in rows[e] => e = disk[m].id
  /\ \A m \in Machine, e \in Id, t \in Session :
       t \in rows[e] /\ session[m] \in rows[e] /\ t # session[m] /\ <<t, session[m]>> \in after
         => \E x \in ran[e] : x # m

ConflictInv == \A e \in Id : conflict[e] # "none" => \E x, y \in ran[e] : x # y

\* A session that was served after another one was heard of is itself within its lease and
\* known to the server as the later of the two.
TurnInv ==
  \A s, t \in Session : <<s, t>> \in turns =>
    /\ t \in recent
    /\ <<t, s>> \in after
    /\ s # t /\ <<t, s>> \notin turns

IInv ==
  /\ TypeOK /\ DiskInv /\ ProcInv /\ TokenInv /\ NewIdentityIsKnown
  /\ CommandInv /\ TargetInv /\ InstanceInv /\ ConflictInv /\ TurnInv

-----------------------------------------------------------------------------
(* Values that nothing refers to.                                          *)

LEMMA FreshTokenIsNew ==
  ASSUME TypeOK, NEW t \in FreshTokens
  PROVE  /\ t \in Token /\ t # Nothing
         /\ \A e \in Id : endpoint[e].token # t
         /\ \A m \in Machine : disk[m].token # t /\ disk[m].split.token # t
  BY NothingAssumption DEF FreshTokens

LEMMA FreshIdIsNew ==
  ASSUME TypeOK, NEW n \in FreshIds
  PROVE  /\ n \in Id /\ n # Nothing
         /\ endpoint[n].status = "none" /\ rows[n] = {} /\ command[n].status = "none"
         /\ \A m \in Machine : disk[m].id # n /\ disk[m].split.id # n /\ disk[m].key # n
  BY NothingAssumption DEF FreshIds

LEMMA FreshSessionIsNew ==
  ASSUME TypeOK, NEW s \in FreshSessions
  PROVE  /\ s \in Session /\ s # Nothing
         /\ \A e \in Id : s \notin rows[e]
         /\ \A n \in Id : command[n].target # s
         /\ \A m \in Machine : session[m] # s
  BY NothingAssumption DEF FreshSessions

LEMMA InitInv == Init => IInv
<1> SUFFICES ASSUME Init PROVE IInv
  OBVIOUS
<1> USE DEF Init
<1>1. /\ \A e \in Id : endpoint[e] = NoRow /\ rows[e] = {} /\ command[e] = NoCommand
      /\ \A e \in Id : conflict[e] = "none" /\ ran[e] = {}
      /\ \A m \in Machine : /\ process[m] = "off" /\ session[m] = Nothing
                            /\ disk[m] = Blank(m \in Installed)
  OBVIOUS
<1>2. TypeOK
  <2>1. NoRow \in Endpoint
    BY DEF NoRow, Endpoint
  <2>2. NoCommand \in Command
    BY DEF NoCommand, Command
  <2>3. \A m \in Machine : Blank(m \in Installed) \in Disk
    <3>1. Blank(TRUE) \in Disk /\ Blank(FALSE) \in Disk
      BY DEF Blank, Disk, NoSplit
    <3>2. SUFFICES ASSUME NEW m \in Machine PROVE Blank(m \in Installed) \in Disk
      OBVIOUS
    <3>3. CASE m \in Installed
      <4>1. (m \in Installed) = TRUE
        BY <3>3
      <4> QED
        BY <3>1, <4>1, Zenon
    <3>4. CASE m \notin Installed
      <4>1. (m \in Installed) = FALSE
        BY <3>4
      <4> QED
        BY <3>1, <4>1, Zenon
    <3> QED
      BY <3>3, <3>4
  <2> QED
    BY <2>1, <2>2, <2>3, EditsAssumption DEF TypeOK
<1>3. \A m \in Machine : /\ disk[m].id = Nothing /\ disk[m].token = Nothing
                         /\ disk[m].key = Nothing /\ disk[m].split = NoSplit
  BY <1>1 DEF Blank
<1>4. DiskInv /\ ProcInv
  BY <1>1, <1>3 DEF DiskInv, ProcInv, Sound, NoSplit, Running
<1>5. TokenInv /\ NewIdentityIsKnown /\ CommandInv /\ TargetInv
  BY <1>1, <1>3 DEF TokenInv, NewIdentityIsKnown, CommandInv, TargetInv, NoRow, NoCommand
<1>6. InstanceInv /\ ConflictInv /\ TurnInv
  BY <1>1 DEF InstanceInv, ConflictInv, TurnInv
<1> QED
  BY <1>2, <1>4, <1>5, <1>6 DEF IInv

-----------------------------------------------------------------------------
(* Steps that leave most of the invariant alone.                           *)

LEMMA DiskFacts ==
  ASSUME IInv, NEW m \in Machine
  PROVE  /\ disk[m] \in Disk
         /\ disk[m].split.id = Nothing <=> disk[m].split = NoSplit
         /\ disk[m].split.id # Nothing => disk[m].split.id \in Id
         /\ disk[m].token # Nothing => disk[m].id \in Id
         /\ Running(m) => disk[m].id \in Id /\ session[m] \in Session
         /\ Running(m) => disk[m].split = NoSplit /\ disk[m].split.id = Nothing
<1>1. disk[m] \in Disk /\ Sound(disk[m]) /\ session[m] \in Session \cup {Nothing}
  BY DEF IInv, TypeOK, DiskInv
<1>2. Running(m) => disk[m].split.id = Nothing /\ disk[m].id # Nothing /\ session[m] # Nothing
  BY DEF IInv, ProcInv
<1> QED
  BY <1>1, <1>2 DEF Sound, Disk, NoSplit

-----------------------------------------------------------------------------
(* Enrolment.                                                              *)

LEMMA EnrollInv ==
  ASSUME IInv, NEW m \in Machine, Enroll(m)
  PROVE  IInv'
<1> DEFINE e == disk[m].id
<1>1. PICK t \in FreshTokens, duplicate \in DuplicateEvidence, lost \in BOOLEAN :
        /\ endpoint' = [endpoint EXCEPT ![e] =
             [endpoint[e] EXCEPT !.token = t, !.window = FALSE, !.seen = TRUE,
                         !.key = IF @ = Nothing THEN disk[m].key ELSE @,
                         !.status = IF @ = "none" \/ (duplicate /\ @ # "Approved")
                                    THEN "Pending" ELSE @]]
        /\ IF lost THEN UNCHANGED agents
           ELSE /\ disk' = [disk EXCEPT ![m].token = t, ![m].secret = FALSE]
                /\ process' = [process EXCEPT ![m] = "polling"]
                /\ UNCHANGED <<session, edits>>
  BY DEF Enroll
<1>2. /\ process[m] = "enrolling" /\ disk[m].secret
      /\ UNCHANGED <<rows, after, recent, conflict, command, ran, turns, struck>>
  BY DEF Enroll, history
<1>3. e \in Id /\ disk[m].split.id = Nothing /\ disk[m].split = NoSplit
  BY <1>2 DEF IInv, ProcInv, DiskInv, Sound, Running, TypeOK, Disk
<1>4. /\ t \in Token /\ t # Nothing
      /\ \A x \in Id : endpoint[x].token # t
      /\ \A x \in Machine : disk[x].token # t /\ disk[x].split.token # t
  BY FreshTokenIsNew DEF IInv
<1>5. /\ endpoint' \in [Id -> Endpoint]
      /\ endpoint'[e].token = t /\ endpoint'[e].status # "none"
      /\ \A x \in Id : x # e => endpoint'[x] = endpoint[x]
  <2>1. endpoint[e] \in Endpoint /\ disk[m].key \in Id \cup {Nothing}
    BY <1>3 DEF IInv, TypeOK, Disk
  <2> QED
    BY <1>1, <1>3, <1>4, <2>1 DEF IInv, TypeOK, Endpoint
<1>6. /\ disk' \in [Machine -> Disk] /\ session' = session /\ edits' = edits
      /\ process' \in [Machine -> {"off", "installing", "enrolling", "polling"}]
      /\ \A x \in Machine : x # m => disk'[x] = disk[x] /\ process'[x] = process[x]
      /\ disk'[m].id = disk[m].id /\ disk'[m].key = disk[m].key
      /\ disk'[m].split = disk[m].split
      /\ \/ disk' = disk /\ process' = process
         \/ disk'[m].token = t /\ disk'[m].secret = FALSE /\ process'[m] = "polling"
  <2>1. disk[m] \in Disk
    BY DEF IInv, TypeOK
  <2>2. CASE lost
    BY <1>1, <2>2 DEF agents, IInv, TypeOK
  <2>3. CASE ~lost
    <3>1. disk' = [disk EXCEPT ![m] = [disk[m] EXCEPT !.token = t, !.secret = FALSE]]
      BY <1>1, <2>3
    <3> QED
      BY <1>1, <1>4, <2>1, <2>3, <3>1 DEF IInv, TypeOK, Disk
  <2> QED
    BY <2>2, <2>3
<1>7. TypeOK'
  BY <1>2, <1>5, <1>6 DEF IInv, TypeOK
<1>8. DiskInv' /\ ProcInv'
  BY <1>2, <1>3, <1>4, <1>6 DEF IInv, DiskInv, ProcInv, Sound, Running
<1>9. TokenInv' /\ NewIdentityIsKnown'
  <2>1. TokenInv'
    BY <1>2, <1>3, <1>4, <1>5, <1>6 DEF IInv, TokenInv, Owner
  <2>2. NewIdentityIsKnown'
    BY <1>2, <1>3, <1>5, <1>6, DiskFacts DEF IInv, NewIdentityIsKnown
  <2> QED
    BY <2>1, <2>2
<1>10. CommandInv' /\ TargetInv'
  BY <1>2, <1>4, <1>5, <1>6 DEF IInv, CommandInv, TargetInv
<1>11. InstanceInv' /\ ConflictInv' /\ TurnInv'
  BY <1>2, <1>6 DEF IInv, InstanceInv, ConflictInv, TurnInv
<1> QED
  BY <1>7, <1>8, <1>9, <1>10, <1>11, <1>2 DEF IInv

-----------------------------------------------------------------------------
(* Agents on their own.                                                    *)

\* Steps of machines that the server does not see and that make no session.
LEMMA OwnInv ==
  ASSUME IInv, UNCHANGED <<server, ran, struck>>, edits' \in 0..MaxEdits,
         disk' \in [Machine -> Disk],
         process' \in [Machine -> {"off", "installing", "enrolling", "polling"}],
         session' \in [Machine -> Session \cup {Nothing}],
         turns' \subseteq turns,
         \A x \in Machine : session'[x] \in {session[x], Nothing},
         \A x \in Machine : Running(x) /\ session'[x] # Nothing =>
                              /\ disk'[x].id = disk[x].id
                              /\ disk'[x].token = disk[x].token
                              /\ disk'[x].secret = disk[x].secret,
         DiskInv', ProcInv', TokenInv', NewIdentityIsKnown',
         \A x \in Machine, n \in Id : n \in {disk'[x].id, disk'[x].split.id} =>
           \E y \in Machine : n \in {disk[y].id, disk[y].split.id}
  PROVE  IInv'
<1>0. UNCHANGED <<endpoint, rows, after, recent, conflict, command, ran, struck>>
  BY DEF server
<1>1. TypeOK'
  BY <1>0 DEF IInv, TypeOK
<1>2. \A x \in Machine : Running(x) <=> session[x] # Nothing
  BY DEF IInv, ProcInv
<1>3. CommandInv' /\ TargetInv'
  BY <1>0, NothingAssumption DEF IInv, CommandInv, TargetInv
<1>4. InstanceInv'
  <2>1. /\ \A e \in Id : rows[e] \subseteq Session
        /\ \A x \in Machine : session'[x] # Nothing => disk'[x].id = disk[x].id /\ session'[x] = session[x]
    BY <1>2 DEF IInv, TypeOK
  <2> QED
    BY <1>0, <2>1, NothingAssumption DEF IInv, InstanceInv
<1>5. ConflictInv' /\ TurnInv'
  BY <1>0 DEF IInv, ConflictInv, TurnInv
<1> QED
  BY <1>1, <1>3, <1>4, <1>5 DEF IInv

LEMMA PollRefusedInv ==
  ASSUME IInv, NEW m \in Machine, PollRefused(m)
  PROVE  IInv'
<1>1. /\ process[m] = "polling" /\ process' = [process EXCEPT ![m] = "enrolling"]
      /\ UNCHANGED <<server, disk, session, edits, ran, turns, struck>>
  BY DEF PollRefused, history
<1>2. UNCHANGED endpoint
  BY <1>1 DEF server
<1>3. /\ DiskInv' /\ TokenInv' /\ NewIdentityIsKnown'
  BY <1>1, <1>2 DEF IInv, DiskInv, TokenInv, NewIdentityIsKnown
<1>4. process' \in [Machine -> {"off", "installing", "enrolling", "polling"}]
  BY <1>1 DEF IInv, TypeOK
<1>5. ProcInv'
  BY <1>1, <1>4 DEF IInv, ProcInv, Running, TypeOK
<1> QED
  BY <1>1, <1>3, <1>4, <1>5, OwnInv DEF IInv, TypeOK

LEMMA CrashInv ==
  ASSUME IInv, NEW m \in Machine, Crash(m)
  PROVE  IInv'
<1>1. /\ process' = [process EXCEPT ![m] = "off"]
      /\ session' = [session EXCEPT ![m] = Nothing]
      /\ turns' = {p \in turns : p[1] # session[m]}
      /\ UNCHANGED <<server, disk, edits, ran, struck>>
  BY DEF Crash
<1>2. UNCHANGED endpoint
  BY <1>1 DEF server
<1>3. DiskInv' /\ TokenInv' /\ NewIdentityIsKnown'
  BY <1>1, <1>2 DEF IInv, DiskInv, TokenInv, NewIdentityIsKnown
<1>4. /\ process' \in [Machine -> {"off", "installing", "enrolling", "polling"}]
      /\ session' \in [Machine -> Session \cup {Nothing}]
      /\ turns' \subseteq turns
  BY <1>1 DEF IInv, TypeOK
<1>5. ProcInv'
  BY <1>1, <1>4 DEF IInv, ProcInv, Running, TypeOK
<1>6. \A x \in Machine : session'[x] \in {session[x], Nothing}
  BY <1>1 DEF IInv, TypeOK
<1> QED
  BY <1>1, <1>3, <1>4, <1>5, <1>6, OwnInv DEF IInv, TypeOK

LEMMA InstallInv ==
  ASSUME IInv, NEW m \in Machine, Install(m)
  PROVE  IInv'
<1> DEFINE new == disk[m].split
<1>1. /\ process[m] = "installing"
      /\ UNCHANGED <<server, session, edits, ran, turns, struck>>
      /\ \/ /\ disk[m].key # new.id
            /\ disk' = [disk EXCEPT ![m].key = new.id]
            /\ UNCHANGED process
         \/ /\ disk[m].key = new.id /\ disk[m].token # new.token
            /\ disk' = [disk EXCEPT ![m].token = new.token]
            /\ UNCHANGED process
         \/ /\ disk[m].token = new.token /\ disk[m].id # new.id
            /\ disk' = [disk EXCEPT ![m].id = new.id]
            /\ UNCHANGED process
         \/ /\ disk[m].id = new.id
            /\ disk' = [disk EXCEPT ![m].split = NoSplit]
            /\ process' = [process EXCEPT ![m] = "off"]
  BY DEF Install, history
<1>2. UNCHANGED endpoint
  BY <1>1 DEF server
<1>3. /\ ~Running(m) /\ session[m] = Nothing
      /\ disk[m] \in Disk /\ Sound(disk[m]) /\ new.id \in Id /\ new.id # Nothing
      /\ new.token # Nothing /\ disk[m].token # Nothing /\ disk[m].id \in Id
  <2>1. ~Running(m) /\ session[m] = Nothing /\ new.id # Nothing
    BY <1>1 DEF IInv, ProcInv, Running
  <2> QED
    BY <2>1, DiskFacts DEF IInv, DiskInv, Sound
<1>4. /\ disk' \in [Machine -> Disk]
      /\ process' \in [Machine -> {"off", "installing", "enrolling", "polling"}]
      /\ \A x \in Machine : x # m => disk'[x] = disk[x] /\ process'[x] = process[x]
      /\ process'[m] = "installing" \/ process'[m] = "off"
  <2>1. NoSplit \in [id : Id \cup {Nothing}, token : Token \cup {Nothing}]
    BY DEF NoSplit
  <2>2. /\ [disk[m] EXCEPT !.key = new.id] \in Disk
        /\ [disk[m] EXCEPT !.token = new.token] \in Disk
        /\ [disk[m] EXCEPT !.id = new.id] \in Disk
        /\ [disk[m] EXCEPT !.split = NoSplit] \in Disk
    BY <1>3, <2>1 DEF Disk
  <2>3. \E d \in Disk : disk' = [disk EXCEPT ![m] = d]
    BY <1>1, <2>2
  <2> QED
    BY <1>1, <2>3 DEF IInv, TypeOK
<1>5. \/ /\ disk'[m].key = new.id /\ disk'[m].id = disk[m].id /\ process'[m] = "installing"
         /\ disk'[m].token = disk[m].token /\ disk'[m].split = new
      \/ /\ disk'[m].key = new.id /\ disk'[m].id = disk[m].id /\ process'[m] = "installing"
         /\ disk'[m].token = new.token /\ disk'[m].split = new
      \/ /\ disk'[m].key = new.id /\ disk'[m].id = new.id /\ process'[m] = "installing"
         /\ disk'[m].token = new.token /\ disk'[m].split = new
      \/ /\ disk'[m].key = new.id /\ disk'[m].id = new.id /\ process'[m] = "off"
         /\ disk[m].id = new.id
         /\ disk'[m].token = new.token /\ disk'[m].split = NoSplit
  BY <1>1, <1>3 DEF IInv, TypeOK, Disk, Sound
<1>6. DiskInv'
  BY <1>3, <1>4, <1>5 DEF IInv, DiskInv, Sound, NoSplit
<1>7. ProcInv'
  BY <1>1, <1>3, <1>4, <1>5 DEF IInv, ProcInv, Running
<1>8. TokenInv'
  BY <1>2, <1>3, <1>4, <1>5 DEF IInv, TokenInv, Owner, Sound, NoSplit
<1>9. NewIdentityIsKnown'
  BY <1>1, <1>2, <1>3, <1>4, <1>5, DiskFacts DEF IInv, NewIdentityIsKnown, NoSplit
<1>10. \A x \in Machine, n \in Id : n \in {disk'[x].id, disk'[x].split.id} =>
         \E y \in Machine : n \in {disk[y].id, disk[y].split.id}
  BY <1>4, <1>5, NothingAssumption DEF NoSplit
<1>11. \A x \in Machine : Running(x) => x # m
  BY <1>3
<1> QED
  BY <1>1, <1>4, <1>6, <1>7, <1>8, <1>9, <1>10, <1>11, OwnInv DEF IInv, TypeOK

\* The disk of a machine that is switched off is overwritten.
LEMMA OffInv ==
  ASSUME IInv, NEW m \in Machine, process[m] = "off", edits' \in 0..MaxEdits,
         UNCHANGED <<server, process, session, history>>,
         NEW d \in Disk, disk' = [disk EXCEPT ![m] = d],
         Sound(d), d.split = NoSplit \/ d.split = disk[m].split,
         \/ \E x \in Machine : d.id = disk[x].id /\ d.token = disk[x].token /\ d.split = disk[x].split
         \/ d.id = Nothing
  PROVE  IInv'
<1>1. /\ UNCHANGED <<endpoint, ran, struck, turns, session, process>>
      /\ disk' \in [Machine -> Disk]
      /\ disk'[m] = d /\ \A x \in Machine : x # m => disk'[x] = disk[x]
      /\ ~Running(m) /\ session[m] = Nothing
  BY DEF server, history, Running, IInv, ProcInv, TypeOK
<1>2. DiskInv' /\ ProcInv'
  BY <1>1 DEF IInv, DiskInv, ProcInv, Running
<1>3. d.id = Nothing => d.token = Nothing /\ d.split.id = Nothing /\ d.split = NoSplit
  BY DEF Sound
<1>4. TokenInv'
  BY <1>1, <1>3, NothingAssumption DEF IInv, TokenInv, Owner, NoSplit
<1>5. NewIdentityIsKnown'
  BY <1>1, <1>3 DEF IInv, NewIdentityIsKnown
<1>6. \A x \in Machine, n \in Id : n \in {disk'[x].id, disk'[x].split.id} =>
        \E y \in Machine : n \in {disk[y].id, disk[y].split.id}
  BY <1>1, <1>3, NothingAssumption DEF NoSplit
<1>7. \A x \in Machine : Running(x) => x # m
  BY <1>1
<1> QED
  BY <1>1, <1>2, <1>4, <1>5, <1>6, <1>7, OwnInv DEF IInv, TypeOK

LEMMA CloneInv ==
  ASSUME IInv, NEW m \in Machine, NEW copy \in Machine, Clone(m, copy)
  PROVE  IInv'
<1>1. /\ process[copy] = "off" /\ disk[m].split = NoSplit
      /\ disk' = [disk EXCEPT ![copy] = disk[m]] /\ edits' \in 0..MaxEdits
      /\ UNCHANGED <<server, process, session, history>>
  BY EditsAssumption DEF Clone, Edited, IInv, TypeOK
<1>2. disk[m] \in Disk /\ Sound(disk[m])
  BY DEF IInv, TypeOK, DiskInv
<1> QED
  BY <1>1, <1>2, OffInv

LEMMA PurgeInv ==
  ASSUME IInv, NEW m \in Machine, Purge(m)
  PROVE  IInv'
<1>1. /\ process[m] = "off"
      /\ disk' = [disk EXCEPT ![m] = Blank(FALSE)] /\ edits' \in 0..MaxEdits
      /\ UNCHANGED <<server, process, session, history>>
  BY EditsAssumption DEF Purge, Edited, IInv, TypeOK
<1>2. Blank(FALSE) \in Disk /\ Blank(FALSE).split = NoSplit /\ Blank(FALSE).id = Nothing
      /\ Sound(Blank(FALSE))
  BY DEF Blank, Disk, NoSplit, Sound
<1> QED
  BY <1>1, <1>2, OffInv

LEMMA BootstrapInv ==
  ASSUME IInv, NEW m \in Machine, Bootstrap(m)
  PROVE  IInv'
<1> DEFINE d == [disk[m] EXCEPT !.secret = TRUE]
<1>1. /\ process[m] = "off"
      /\ disk' = [disk EXCEPT ![m] = d] /\ edits' \in 0..MaxEdits
      /\ UNCHANGED <<server, process, session, history>>
  BY EditsAssumption DEF Bootstrap, Edited, IInv, TypeOK
<1>2. disk[m] \in Disk /\ Sound(disk[m])
  BY DEF IInv, TypeOK, DiskInv
<1>3. /\ d \in Disk /\ d.split = disk[m].split /\ d.id = disk[m].id
      /\ d.token = disk[m].token /\ d.key = disk[m].key
  BY <1>2 DEF Disk
<1>4. Sound(d)
  BY <1>2, <1>3 DEF Sound
<1> HIDE DEF d
<1> QED
  BY <1>1, <1>3, <1>4, OffInv

LEMMA StartInv ==
  ASSUME IInv, NEW m \in Machine, Start(m)
  PROVE  IInv'
<1>1. /\ process[m] = "off" /\ UNCHANGED <<server, edits, ran, turns, struck>>
      /\ disk[m] \in Disk /\ Sound(disk[m]) /\ session[m] = Nothing
  BY DEF Start, history, IInv, TypeOK, DiskInv, ProcInv, Running
<1>2. UNCHANGED endpoint
  BY <1>1 DEF server
<1>3. CASE disk[m].split.id # Nothing
  <2>1. process' = [process EXCEPT ![m] = "installing"] /\ UNCHANGED <<disk, session>>
    BY <1>3 DEF Start
  <2>2. DiskInv' /\ TokenInv' /\ NewIdentityIsKnown'
    BY <1>1, <1>2, <2>1 DEF IInv, DiskInv, TokenInv, NewIdentityIsKnown
  <2>3. process' \in [Machine -> {"off", "installing", "enrolling", "polling"}]
    BY <2>1 DEF IInv, TypeOK
  <2>4. ProcInv'
    BY <1>1, <1>3, <2>1, <2>3 DEF IInv, ProcInv, Running, TypeOK
  <2> QED
    BY <1>1, <2>1, <2>2, <2>3, <2>4, OwnInv DEF IInv, TypeOK
<1>4. CASE disk[m].split.id = Nothing
  <2>1. PICK s \in FreshSessions : session' = [session EXCEPT ![m] = s]
    BY <1>4 DEF Start
  <2>2. /\ process' = [process EXCEPT ![m] =
              IF disk[m].token = Nothing THEN "enrolling" ELSE "polling"]
        /\ IF disk[m].id = Nothing
           THEN \E e \in FreshIds : disk' = [disk EXCEPT ![m].id = e, ![m].key = e]
           ELSE disk' = [disk EXCEPT ![m].secret = @ /\ disk[m].token = Nothing]
    BY <1>4 DEF Start
  <2>3. /\ s \in Session /\ s # Nothing
        /\ \A e \in Id : s \notin rows[e]
        /\ \A n \in Id : command[n].target # s
        /\ \A x \in Machine : session[x] # s
    BY FreshSessionIsNew DEF IInv
  <2>4. /\ session' \in [Machine -> Session \cup {Nothing}] /\ session'[m] = s
        /\ process' \in [Machine -> {"off", "installing", "enrolling", "polling"}]
        /\ \A x \in Machine : x # m => session'[x] = session[x] /\ process'[x] = process[x]
        /\ disk[m].token = Nothing => process'[m] = "enrolling"
        /\ disk[m].token # Nothing => process'[m] = "polling"
    BY <2>1, <2>2, <2>3 DEF IInv, TypeOK
  <2>5. /\ disk' \in [Machine -> Disk]
        /\ \A x \in Machine : x # m => disk'[x] = disk[x]
        /\ disk'[m].split = disk[m].split /\ disk'[m].token = disk[m].token
        /\ disk[m].token # Nothing => disk'[m].secret = FALSE
        /\ disk'[m].id # Nothing
        /\ \/ disk'[m].id = disk[m].id /\ disk'[m].key = disk[m].key
           \/ /\ disk[m].id = Nothing /\ disk'[m].id = disk'[m].key
              /\ disk'[m].id \in FreshIds
    <3>1. CASE disk[m].id = Nothing
      <4>1. PICK e \in FreshIds : disk' = [disk EXCEPT ![m].id = e, ![m].key = e]
        BY <2>2, <3>1
      <4>2. disk' = [disk EXCEPT ![m] = [disk[m] EXCEPT !.id = e, !.key = e]]
        BY <4>1
      <4>3. e \in Id /\ e # Nothing
        BY FreshIdIsNew DEF IInv
      <4>4. [disk[m] EXCEPT !.id = e, !.key = e] \in Disk
        BY <1>1, <4>3 DEF Disk
      <4> QED
        BY <1>1, <3>1, <4>2, <4>3, <4>4 DEF IInv, TypeOK, Disk, Sound
    <3>2. CASE disk[m].id # Nothing
      <4>1. disk' = [disk EXCEPT ![m].secret = @ /\ disk[m].token = Nothing]
        BY <2>2, <3>2
      <4>2. (disk[m].secret /\ disk[m].token = Nothing) \in BOOLEAN
        OBVIOUS
      <4>3. PICK b \in BOOLEAN : b = (disk[m].secret /\ disk[m].token = Nothing)
        BY <4>2
      <4>4. disk' = [disk EXCEPT ![m] = [disk[m] EXCEPT !.secret = b]]
        BY <4>1, <4>3, Zenon
      <4>5. disk[m].token # Nothing => b = FALSE
        BY <4>3
      <4>6. [disk[m] EXCEPT !.secret = b] \in Disk
        BY <1>1 DEF Disk
      <4> QED
        BY <1>1, <3>2, <4>4, <4>5, <4>6 DEF IInv, TypeOK, Disk
    <3> QED
      BY <3>1, <3>2
  <2>6. disk'[m].id \in FreshIds =>
          /\ disk'[m].id \in Id
          /\ endpoint[disk'[m].id].status = "none" /\ command[disk'[m].id].status = "none"
          /\ \A x \in Machine : disk[x].id # disk'[m].id /\ disk[x].split.id # disk'[m].id
    BY FreshIdIsNew DEF IInv
  <2>7. UNCHANGED <<endpoint, rows, after, recent, conflict, command, edits, ran, turns, struck>>
    BY <1>1 DEF server
  <2>8. TypeOK'
    BY <2>4, <2>5, <2>7 DEF IInv, TypeOK
  <2>9. DiskInv'
    BY <1>1, <1>4, <2>5 DEF IInv, DiskInv, Sound
  <2>10. ProcInv'
    BY <1>1, <1>4, <2>3, <2>4, <2>5 DEF IInv, ProcInv, Running
  <2>11. TokenInv'
    BY <1>1, <1>4, <2>5, <2>7 DEF IInv, TokenInv, Owner, Sound
  <2>12. NewIdentityIsKnown'
    BY <1>1, <2>5, <2>7 DEF IInv, NewIdentityIsKnown, Sound
  <2>13. CommandInv' /\ TargetInv'
    BY <1>4, <2>3, <2>4, <2>5, <2>6, <2>7 DEF IInv, CommandInv, TargetInv
  <2>14. InstanceInv' /\ ConflictInv'
    <3>1. \A x \in Machine, e \in Id : session'[x] \in rows[e] =>
            x # m /\ session'[x] = session[x] /\ disk'[x] = disk[x]
      BY <2>3, <2>4, <2>5
    <3> QED
      BY <2>7, <3>1 DEF IInv, InstanceInv, ConflictInv
  <2>15. TurnInv'
    BY <2>7 DEF IInv, TurnInv
  <2> QED
    BY <2>8, <2>9, <2>10, <2>11, <2>12, <2>13, <2>14, <2>15, <2>7 DEF IInv
<1> QED
  BY <1>3, <1>4

-----------------------------------------------------------------------------
(* Administrators and time.                                                *)

\* Rows of the same endpoints with the same tokens.
SameRows(rest) ==
  /\ rest \in [Id -> Endpoint]
  /\ \A e \in Id : /\ rest[e].token = endpoint[e].token
                   /\ rest[e].status = "none" <=> endpoint[e].status = "none"

LEMMA RowsInv ==
  ASSUME IInv, SameRows(endpoint'), edits' \in 0..MaxEdits,
         UNCHANGED <<rows, after, recent, conflict, command, disk, process, session, history>>
  PROVE  IInv'
<1>1. /\ UNCHANGED <<rows, after, recent, conflict, command, disk, process, session, ran, turns, struck>>
      /\ endpoint' \in [Id -> Endpoint]
      /\ \A e \in Id : /\ endpoint'[e].token = endpoint[e].token
                       /\ endpoint'[e].status = "none" <=> endpoint[e].status = "none"
  BY DEF history, SameRows
<1>2. TypeOK' /\ DiskInv' /\ ProcInv'
  BY <1>1 DEF IInv, TypeOK, DiskInv, ProcInv, Running
<1>3. TokenInv'
  BY <1>1 DEF IInv, TokenInv
<1>4. NewIdentityIsKnown'
  BY <1>1, DiskFacts DEF IInv, NewIdentityIsKnown
<1>5. CommandInv' /\ TargetInv' /\ InstanceInv' /\ ConflictInv' /\ TurnInv'
  BY <1>1 DEF IInv, CommandInv, TargetInv, InstanceInv, ConflictInv, TurnInv
<1> QED
  BY <1>2, <1>3, <1>4, <1>5 DEF IInv

LEMMA EditInv ==
  ASSUME IInv, NEW e \in Id, NEW row \in Endpoint, Edit(e, row),
         row.token = endpoint[e].token,
         row.status = "none" <=> endpoint[e].status = "none"
  PROVE  IInv'
<1>1. SameRows(endpoint')
  BY DEF Edit, SameRows, IInv, TypeOK
<1> QED
  BY <1>1, RowsInv, EditsAssumption DEF Edit, Edited, IInv, TypeOK

LEMMA ApproveInv ==
  ASSUME IInv, NEW e \in Id, NEW status \in {"Pending", "Approved", "Rejected"},
         Approve(e, status)
  PROVE  IInv'
<1>1. endpoint[e] \in Endpoint /\ endpoint[e].status # "none"
  BY DEF Approve, Exists, IInv, TypeOK
<1>2. PICK b \in BOOLEAN : b = (CASE status = "Rejected" -> TRUE
                                  [] status = "Approved" -> FALSE
                                  [] OTHER -> endpoint[e].blocked)
  <2>1. endpoint[e].blocked \in BOOLEAN
    BY <1>1 DEF Endpoint
  <2> QED
    BY <2>1
<1>3. Edit(e, [endpoint[e] EXCEPT !.status = status, !.blocked = b])
  BY <1>2, Zenon DEF Approve
<1>4. [endpoint[e] EXCEPT !.status = status, !.blocked = b] \in Endpoint
  BY <1>1 DEF Endpoint
<1>5. /\ [endpoint[e] EXCEPT !.status = status, !.blocked = b].token = endpoint[e].token
      /\ [endpoint[e] EXCEPT !.status = status, !.blocked = b].status # "none"
  BY <1>1 DEF Endpoint
<1> QED
  BY <1>1, <1>3, <1>4, <1>5, EditInv

LEMMA ToggleBlockInv ==
  ASSUME IInv, NEW e \in Id, ToggleBlock(e)
  PROVE  IInv'
<1>1. endpoint[e] \in Endpoint
  BY DEF IInv, TypeOK
<1>2. PICK b \in BOOLEAN : b = (~endpoint[e].blocked)
  OBVIOUS
<1>3. Edit(e, [endpoint[e] EXCEPT !.blocked = b])
  BY <1>2, Zenon DEF ToggleBlock
<1>4. /\ [endpoint[e] EXCEPT !.blocked = b] \in Endpoint
      /\ [endpoint[e] EXCEPT !.blocked = b].token = endpoint[e].token
      /\ [endpoint[e] EXCEPT !.blocked = b].status = endpoint[e].status
  BY <1>1 DEF Endpoint
<1> QED
  BY <1>3, <1>4, EditInv

LEMMA AllowReenrollInv ==
  ASSUME IInv, NEW e \in Id, AllowReenroll(e)
  PROVE  IInv'
<1>1. endpoint[e] \in Endpoint
  BY DEF IInv, TypeOK
<1>2. /\ [endpoint[e] EXCEPT !.window = TRUE] \in Endpoint
      /\ [endpoint[e] EXCEPT !.window = TRUE].token = endpoint[e].token
      /\ [endpoint[e] EXCEPT !.window = TRUE].status = endpoint[e].status
  BY <1>1 DEF Endpoint
<1> QED
  BY <1>2, EditInv DEF AllowReenroll

LEMMA WindowClosesInv ==
  ASSUME IInv, NEW e \in Id, WindowCloses(e)
  PROVE  IInv'
<1> DEFINE row == [endpoint[e] EXCEPT !.window = FALSE]
<1>1. endpoint[e] \in Endpoint
  BY DEF IInv, TypeOK
<1>2. row \in Endpoint /\ row.token = endpoint[e].token /\ row.status = endpoint[e].status
  BY <1>1 DEF Endpoint
<1>3. endpoint' = [endpoint EXCEPT ![e] = row]
  BY DEF WindowCloses
<1> HIDE DEF row
<1>4. SameRows(endpoint')
  BY <1>2, <1>3 DEF SameRows, IInv, TypeOK
<1> QED
  BY <1>4, RowsInv DEF WindowCloses, agents, IInv, TypeOK

LEMMA RemoveInv ==
  ASSUME IInv, NEW e \in Id, NEW rest, SameRows(rest), Remove(e, rest)
  PROVE  IInv'
<1>1. /\ endpoint' = [rest EXCEPT ![e] = NoRow]
      /\ rows' = [rows EXCEPT ![e] = {}]
      /\ after' = {p \in after : p[1] \notin rows[e] /\ p[2] \notin rows[e]}
      /\ turns' = {p \in turns : p[1] \notin rows[e] /\ p[2] \notin rows[e]}
      /\ recent' = recent \ rows[e]
      /\ conflict' = [conflict EXCEPT ![e] = "none"]
      /\ command' = WithoutCommands({e})
      /\ struck' = struck \cup {e}
      /\ edits' \in 0..MaxEdits
      /\ UNCHANGED <<disk, process, session, ran>>
  BY EditsAssumption DEF Remove, Edited, IInv, TypeOK
<1>2. /\ endpoint' \in [Id -> Endpoint]
      /\ endpoint'[e].token = Nothing /\ endpoint'[e].status = "none"
      /\ \A x \in Id : x # e => /\ endpoint'[x].token = endpoint[x].token
                                /\ endpoint'[x].status = "none" <=> endpoint[x].status = "none"
  <2>1. NoRow \in Endpoint /\ NoRow.token = Nothing /\ NoRow.status = "none"
    BY DEF NoRow, Endpoint
  <2> QED
    BY <1>1, <2>1 DEF SameRows
<1>3. /\ command' \in [Id -> Command]
      /\ \A n \in Id : command'[n] = command[n] \/ command'[n].status = "none"
      /\ command'[e].status = "none"
  <2>1. NoCommand \in Command /\ NoCommand.status = "none"
    BY DEF NoCommand, Command
  <2> QED
    BY <1>1, <2>1 DEF WithoutCommands, IInv, TypeOK
<1>4. /\ rows' \in [Id -> SUBSET Session] /\ rows'[e] = {}
      /\ \A x \in Id : x # e => rows'[x] = rows[x]
      /\ conflict'[e] = "none"
      /\ \A x \in Id : x # e => conflict'[x] = conflict[x]
      /\ conflict' \in [Id -> {"none", "Open", "Resolving"}]
      /\ after' \subseteq Session \X Session /\ turns' \subseteq Session \X Session
      /\ \A s, t \in Session : <<s, t>> \in after' <=>
                                 <<s, t>> \in after /\ s \notin rows[e] /\ t \notin rows[e]
      /\ \A s, t \in Session : <<s, t>> \in turns' <=>
                                 <<s, t>> \in turns /\ s \notin rows[e] /\ t \notin rows[e]
  BY <1>1 DEF IInv, TypeOK
<1>5. TypeOK'
  BY <1>1, <1>2, <1>3, <1>4 DEF IInv, TypeOK
<1>6. DiskInv' /\ ProcInv'
  BY <1>1 DEF IInv, DiskInv, ProcInv, Running
<1>7. TokenInv'
  BY <1>1, <1>2 DEF IInv, TokenInv, Owner
<1>8. NewIdentityIsKnown'
  BY <1>1, <1>2, DiskFacts DEF IInv, NewIdentityIsKnown
<1>9. CommandInv' /\ TargetInv'
  <2>1. \A n \in Id : command'[n].status # "none" => n # e /\ command'[n] = command[n]
    BY <1>3
  <2>2. CommandInv'
    BY <1>2, <2>1 DEF IInv, CommandInv
  <2>3. TargetInv'
    BY <1>1, <2>1 DEF IInv, TargetInv
  <2> QED
    BY <2>2, <2>3
<1>10. InstanceInv' /\ ConflictInv'
  <2>1. \A s, t \in Session : <<s, t>> \in after' => \E x \in Id : s \in rows'[x] /\ t \in rows'[x]
    BY <1>4 DEF IInv, InstanceInv
  <2>2. \A m \in Machine, x \in Id : session[m] \in rows'[x] => x = disk[m].id
    BY <1>4 DEF IInv, InstanceInv
  <2>3. \A m \in Machine, x \in Id, t \in Session :
          t \in rows'[x] /\ session[m] \in rows'[x] /\ t # session[m] /\ <<t, session[m]>> \in after'
            => \E y \in ran[x] : y # m
    BY <1>1, <1>4 DEF IInv, InstanceInv
  <2> QED
    BY <1>1, <1>4, <2>1, <2>2, <2>3 DEF IInv, InstanceInv, ConflictInv
<1>11. TurnInv'
  BY <1>1, <1>4 DEF IInv, TurnInv
<1> QED
  BY <1>5, <1>6, <1>7, <1>8, <1>9, <1>10, <1>11 DEF IInv

LEMMA DeleteHostInv ==
  ASSUME IInv, NEW e \in Id, DeleteHost(e)
  PROVE  IInv'
<1>1. SameRows(endpoint)
  BY DEF SameRows, IInv, TypeOK
<1> QED
  BY <1>1, RemoveInv DEF DeleteHost

LEMMA MergeDuplicateInv ==
  ASSUME IInv, NEW e \in Id, NEW f \in Id, MergeDuplicate(e, f)
  PROVE  IInv'
<1> DEFINE rest == [endpoint EXCEPT ![e].status = "Approved", ![e].blocked = FALSE]
<1>1. endpoint[e] \in Endpoint /\ endpoint[e].status # "none" /\ Remove(f, rest)
  BY DEF MergeDuplicate, Exists, IInv, TypeOK
<1>2. rest = [endpoint EXCEPT ![e] = [endpoint[e] EXCEPT !.status = "Approved", !.blocked = FALSE]]
  OBVIOUS
<1>3. SameRows(rest)
  BY <1>1, <1>2 DEF SameRows, IInv, TypeOK, Endpoint
<1> HIDE DEF rest
<1> QED
  BY <1>1, <1>3, RemoveInv

LEMMA LeaseEndsInv ==
  ASSUME IInv, NEW s \in Session, LeaseEnds(s)
  PROVE  IInv'
<1>1. /\ recent' = recent \ {s} /\ after' = {p \in after : p[1] # s}
      /\ turns' = {p \in turns : p[2] # s}
      /\ UNCHANGED <<endpoint, rows, conflict, command, disk, process, session, edits, ran, struck>>
  BY DEF LeaseEnds, agents
<1>2. TypeOK' /\ DiskInv' /\ ProcInv' /\ TokenInv' /\ NewIdentityIsKnown'
  BY <1>1 DEF IInv, TypeOK, DiskInv, ProcInv, Running, TokenInv, NewIdentityIsKnown
<1>3. CommandInv' /\ TargetInv' /\ InstanceInv' /\ ConflictInv'
  BY <1>1 DEF IInv, CommandInv, TargetInv, InstanceInv, ConflictInv
<1>4. TurnInv'
  BY <1>1 DEF IInv, TurnInv
<1> QED
  BY <1>2, <1>3, <1>4 DEF IInv

\* Commands whose state or validity changes, and no more.
LEMMA CommandsInv ==
  ASSUME IInv, command' \in [Id -> Command],
         \A n \in Id : /\ command'[n].source = command[n].source
                       /\ command'[n].target = command[n].target
                       /\ command'[n].status = command[n].status,
         conflict' \in [Id -> {"none", "Open", "Resolving"}],
         \A e \in Id : conflict'[e] # "none" => conflict[e] # "none",
         edits' \in 0..MaxEdits,
         UNCHANGED <<endpoint, rows, after, recent, disk, process, session, history>>
  PROVE  IInv'
<1>1. UNCHANGED <<endpoint, rows, after, recent, disk, process, session, ran, turns, struck>>
  BY DEF history
<1>2. TypeOK' /\ DiskInv' /\ ProcInv' /\ TokenInv' /\ NewIdentityIsKnown'
  BY <1>1 DEF IInv, TypeOK, DiskInv, ProcInv, Running, TokenInv, NewIdentityIsKnown
<1>3. CommandInv' /\ TargetInv' /\ InstanceInv' /\ ConflictInv' /\ TurnInv'
  BY <1>1 DEF IInv, CommandInv, TargetInv, InstanceInv, ConflictInv, TurnInv
<1> QED
  BY <1>2, <1>3 DEF IInv

LEMMA CommandExpiresInv ==
  ASSUME IInv, NEW n \in Id, CommandExpires(n)
  PROVE  IInv'
<1> DEFINE c == [command[n] EXCEPT !.valid = FALSE]
<1>1. command' = [command EXCEPT ![n] = c] /\ command[n] \in Command
  BY DEF CommandExpires, IInv, TypeOK
<1>2. c \in Command /\ c.source = command[n].source /\ c.target = command[n].target
      /\ c.status = command[n].status
  BY <1>1 DEF Command
<1> HIDE DEF c
<1>3. /\ command' \in [Id -> Command]
      /\ \A x \in Id : /\ command'[x].source = command[x].source
                       /\ command'[x].target = command[x].target
                       /\ command'[x].status = command[x].status
  BY <1>1, <1>2 DEF IInv, TypeOK
<1>4. UNCHANGED <<endpoint, rows, after, recent, conflict, disk, process, session, edits, history>>
  BY DEF CommandExpires, agents
<1>5. edits' \in 0..MaxEdits /\ conflict' \in [Id -> {"none", "Open", "Resolving"}]
  BY <1>4 DEF IInv, TypeOK
<1> QED
  BY <1>3, <1>4, <1>5, CommandsInv

LEMMA DismissInv ==
  ASSUME IInv, NEW e \in Id, Dismiss(e)
  PROVE  IInv'
<1>1. /\ conflict' = [conflict EXCEPT ![e] = "none"]
      /\ command' = [n \in Id |-> IF command[n].source = e
                                  THEN [command[n] EXCEPT !.current = FALSE] ELSE command[n]]
      /\ edits' \in 0..MaxEdits
      /\ UNCHANGED <<endpoint, rows, after, recent, disk, process, session, history>>
  BY EditsAssumption DEF Dismiss, Edited, IInv, TypeOK
<1>2. \A n \in Id : /\ [command[n] EXCEPT !.current = FALSE] \in Command
                    /\ [command[n] EXCEPT !.current = FALSE].source = command[n].source
                    /\ [command[n] EXCEPT !.current = FALSE].target = command[n].target
                    /\ [command[n] EXCEPT !.current = FALSE].status = command[n].status
  BY DEF IInv, TypeOK, Command
<1>3. /\ command' \in [Id -> Command]
      /\ \A n \in Id : /\ command'[n].source = command[n].source
                       /\ command'[n].target = command[n].target
                       /\ command'[n].status = command[n].status
  BY <1>1, <1>2 DEF IInv, TypeOK
<1>4. /\ conflict' \in [Id -> {"none", "Open", "Resolving"}]
      /\ \A x \in Id : conflict'[x] # "none" => conflict[x] # "none"
  BY <1>1 DEF IInv, TypeOK
<1> QED
  BY <1>1, <1>3, <1>4, CommandsInv

LEMMA SplitInv ==
  ASSUME IInv, NEW e \in Id, NEW s \in Session, Split(e, s)
  PROVE  IInv'
<1>1. /\ conflict[e] # "none" /\ s \in rows[e]
      /\ conflict' = [conflict EXCEPT ![e] = "Resolving"]
      /\ edits' \in 0..MaxEdits
      /\ UNCHANGED <<rows, after, recent, disk, process, session, ran, turns>>
  BY EditsAssumption DEF Split, Edited, IInv, TypeOK
<1>2. PICK tasks \in SUBSET Expired(e, s), n \in FreshIds, t \in FreshTokens :
        LET gone == {x \in Expired(e, s) \ tasks : ~endpoint[x].seen}
        IN /\ endpoint' = [x \in Id |->
                IF x = n THEN [NoRow EXCEPT !.status = "Approved", !.token = t]
                ELSE IF x \in gone THEN NoRow ELSE endpoint[x]]
           /\ command' = [x \in Id |->
                IF x = n THEN [status |-> "Pending", source |-> e, target |-> s,
                               valid |-> TRUE, current |-> TRUE]
                ELSE IF x \in gone THEN NoCommand
                ELSE IF x \in Expired(e, s) THEN [command[x] EXCEPT !.status = "Expired"]
                ELSE command[x]]
           /\ struck' = (struck \cup {x \in gone : ~command[x].valid}) \ {n}
  BY DEF Split
<1> DEFINE gone == {x \in Expired(e, s) \ tasks : ~endpoint[x].seen}
<1>3. \A x \in Id : x \in Expired(e, s) =>
        ~command[x].valid /\ command[x].status \in {"Pending", "Delivered"}
  BY DEF Expired, Unanswered
<1>4. gone \subseteq Id /\ gone \subseteq Expired(e, s)
  BY DEF Expired, Unanswered
<1>5. /\ n \in Id /\ n # Nothing
      /\ endpoint[n].status = "none" /\ rows[n] = {} /\ command[n].status = "none"
      /\ \A m \in Machine : disk[m].id # n /\ disk[m].split.id # n /\ disk[m].key # n
  BY FreshIdIsNew DEF IInv
<1>6. /\ t \in Token /\ t # Nothing
      /\ \A x \in Id : endpoint[x].token # t
      /\ \A m \in Machine : disk[m].token # t /\ disk[m].split.token # t
  BY FreshTokenIsNew DEF IInv
<1>7. struck' \subseteq Id /\ \A x \in Id : x # n /\ (x \in struck \/ x \in gone) => x \in struck'
  BY <1>2, <1>3, <1>4 DEF IInv, TypeOK
<1>8. /\ endpoint' \in [Id -> Endpoint]
      /\ endpoint'[n].token = t /\ endpoint'[n].status # "none"
      /\ \A x \in Id : x # n /\ x \notin gone => endpoint'[x] = endpoint[x]
      /\ \A x \in gone : x # n => endpoint'[x].token = Nothing /\ endpoint'[x].status = "none"
  <2>1. /\ NoRow \in Endpoint /\ NoRow.token = Nothing /\ NoRow.status = "none"
        /\ [NoRow EXCEPT !.status = "Approved", !.token = t] \in Endpoint
        /\ [NoRow EXCEPT !.status = "Approved", !.token = t].token = t
        /\ [NoRow EXCEPT !.status = "Approved", !.token = t].status = "Approved"
    BY <1>6 DEF NoRow, Endpoint
  <2>2. endpoint' = [x \in Id |->
                IF x = n THEN [NoRow EXCEPT !.status = "Approved", !.token = t]
                ELSE IF x \in gone THEN NoRow ELSE endpoint[x]]
    BY <1>2
  <2> HIDE DEF gone
  <2> QED
    BY <1>4, <1>5, <2>1, <2>2 DEF IInv, TypeOK
<1>9. /\ command' \in [Id -> Command]
      /\ command'[n].status = "Pending" /\ command'[n].source = e /\ command'[n].target = s
      /\ \A x \in Id : x # n =>
           \/ command'[x].status = "none"
           \/ /\ x \notin gone
              /\ command'[x].source = command[x].source
              /\ command'[x].target = command[x].target
              /\ \/ command'[x].status = command[x].status
                 \/ command'[x].status = "Expired" /\ command[x].status # "none"
  <2>1. /\ NoCommand \in Command /\ NoCommand.status = "none"
        /\ [status |-> "Pending", source |-> e, target |-> s,
            valid |-> TRUE, current |-> TRUE] \in Command
    BY DEF NoCommand, Command
  <2>2. \A x \in Id : /\ [command[x] EXCEPT !.status = "Expired"] \in Command
                      /\ [command[x] EXCEPT !.status = "Expired"].status = "Expired"
                      /\ [command[x] EXCEPT !.status = "Expired"].source = command[x].source
                      /\ [command[x] EXCEPT !.status = "Expired"].target = command[x].target
    BY DEF IInv, TypeOK, Command
  <2>3. command' = [x \in Id |->
                IF x = n THEN [status |-> "Pending", source |-> e, target |-> s,
                               valid |-> TRUE, current |-> TRUE]
                ELSE IF x \in gone THEN NoCommand
                ELSE IF x \in Expired(e, s) THEN [command[x] EXCEPT !.status = "Expired"]
                ELSE command[x]]
    BY <1>2
  <2>4. \A x \in Id : command[x] \in Command
    BY DEF IInv, TypeOK
  <2>5. command' \in [Id -> Command]
    <3> HIDE DEF gone
    <3> QED
      BY <2>1, <2>2, <2>3, <2>4
  <2>6. command'[n].status = "Pending" /\ command'[n].source = e /\ command'[n].target = s
    BY <1>5, <2>3
  <2>7. ASSUME NEW x \in Id, x # n
        PROVE  \/ command'[x].status = "none"
               \/ /\ x \notin gone
                  /\ command'[x].source = command[x].source
                  /\ command'[x].target = command[x].target
                  /\ \/ command'[x].status = command[x].status
                     \/ command'[x].status = "Expired" /\ command[x].status # "none"
    <3>1. x \in Expired(e, s) => command[x].status # "none"
      BY <1>3
    <3> HIDE DEF gone
    <3> QED
      BY <2>1, <2>2, <2>3, <2>7, <3>1
  <2> QED
    BY <2>5, <2>6, <2>7
<1> HIDE DEF gone
<1>10. TypeOK'
  BY <1>1, <1>7, <1>8, <1>9 DEF IInv, TypeOK
<1>11. DiskInv' /\ ProcInv'
  BY <1>1 DEF IInv, DiskInv, ProcInv, Running
<1>12. TokenInv'
  <2>1. \A x \in Id : endpoint'[x].token # Nothing /\ x # n => endpoint'[x] = endpoint[x]
    BY <1>8
  <2>2. \A x \in Id : endpoint'[x].token = Nothing <=> endpoint'[x].status = "none"
    BY <1>6, <1>8 DEF IInv, TokenInv
  <2>3. \A x, y \in Id : endpoint'[x].token # Nothing /\ endpoint'[x].token = endpoint'[y].token => x = y
    BY <1>6, <1>8, <2>1 DEF IInv, TokenInv
  <2>4. \A m \in Machine, x \in Id : endpoint'[x].token # Nothing =>
          /\ endpoint'[x].token = disk[m].token => x = Owner(disk[m])
          /\ endpoint'[x].token = disk[m].split.token => x = disk[m].split.id
    BY <1>6, <1>8, <2>1 DEF IInv, TokenInv
  <2> QED
    BY <1>1, <2>2, <2>3, <2>4 DEF TokenInv, Owner
<1>13. NewIdentityIsKnown'
  BY <1>1, <1>5, <1>7, <1>8, DiskFacts DEF IInv, NewIdentityIsKnown
<1>14. CommandInv'
  <2>1. e # n
    BY <1>1, <1>5
  <2> QED
    BY <1>6, <1>8, <1>9, <2>1 DEF IInv, CommandInv
<1>15. TargetInv'
  BY <1>1, <1>5, <1>9 DEF IInv, TargetInv
<1>16. InstanceInv' /\ ConflictInv' /\ TurnInv'
  BY <1>1 DEF IInv, InstanceInv, ConflictInv, TurnInv, TypeOK
<1> QED
  BY <1>10, <1>11, <1>12, <1>13, <1>14, <1>15, <1>16 DEF IInv

-----------------------------------------------------------------------------
(* Requests of agents.                                                     *)

\* The rows, but for some sessions that were dropped; the conflicts, but for some that are over.
Rest(instances) ==
  /\ instances \in [Id -> SUBSET Session]
  /\ \A x \in Id : instances[x] \subseteq rows[x]
Remaining(conflicts) ==
  /\ conflicts \in [Id -> {"none", "Open", "Resolving"}]
  /\ \A x \in Id : conflicts[x] # "none" => conflict[x] # "none"

\* No machine takes another id or a new session.
Unmoved == \A x \in Machine : session'[x] \in {session[x], Nothing} /\ disk'[x].id = disk[x].id

\* What record_endpoint_instance writes has its type.
Noted ==
  /\ rows' \in [Id -> SUBSET Session] /\ after' \subseteq Session \X Session
  /\ recent' \subseteq Session /\ conflict' \in [Id -> {"none", "Open", "Resolving"}]
  /\ ran' \in [Id -> SUBSET Machine] /\ turns' \subseteq Session \X Session

LEMMA Recorded ==
  ASSUME IInv, NEW m \in Machine, Running(m), Unmoved,
         NEW instances, Rest(instances), NEW conflicts, Remaining(conflicts),
         NEW served \in BOOLEAN, served => conflict'[disk[m].id] = "none",
         Record(disk[m].id, session[m], instances, conflicts, served),
         ran' = [ran EXCEPT ![disk[m].id] = @ \cup {m}]
  PROVE  Noted /\ InstanceInv' /\ ConflictInv' /\ TurnInv'
<1> DEFINE e == disk[m].id
           s == session[m]
<1> USE DEF Rest, Remaining, Unmoved
<1>0. e \in Id /\ s \in Session /\ s # Nothing
  BY DiskFacts, NothingAssumption
<1>1. PICK old \in SUBSET (instances[e] \ recent) :
        LET known == instances[e] \ old
            kept == [instances EXCEPT ![e] = known]
            later == Standing(after, kept)
            peers == (known \cap recent) \ {s}
        IN /\ rows' = [instances EXCEPT ![e] = known \cup {s}]
           /\ after' = later \cup {<<s, t>> : t \in known \ {s}}
           /\ recent' = recent \cup {s}
           /\ conflict' = IF conflicts[e] = "none" /\ Convicts(s, known, peers, later)
                          THEN [conflicts EXCEPT ![e] = "Open"] ELSE conflicts
           /\ turns' = Standing(turns, kept) \cup
                         {<<t, s>> : t \in IF served THEN known \ {s} ELSE {}}
  BY DEF Record
<1> DEFINE known == instances[e] \ old
           kept == [instances EXCEPT ![e] = known]
           later == Standing(after, kept)
           peers == (known \cap recent) \ {s}
<1>2. /\ kept \in [Id -> SUBSET Session] /\ kept[e] = known /\ known \subseteq Session
      /\ \A x \in Id : x # e => kept[x] = instances[x]
      /\ \A x \in Id : kept[x] \subseteq rows[x]
      /\ \A x \in Id, t \in Session : t \in instances[x] /\ t \in recent => t \in kept[x]
  BY <1>0
<1>3. /\ rows' \in [Id -> SUBSET Session] /\ rows'[e] = known \cup {s}
      /\ \A x \in Id : x # e => rows'[x] = kept[x]
      /\ recent' = recent \cup {s}
  BY <1>0, <1>1, <1>2
<1>4. \A t, u \in Session : <<t, u>> \in later <=>
        <<t, u>> \in after /\ \E x \in Id : t \in kept[x] /\ u \in kept[x]
  BY DEF Standing
<1>5. \A t, u \in Session : <<t, u>> \in after' <=>
        \/ <<t, u>> \in after /\ \E x \in Id : t \in kept[x] /\ u \in kept[x]
        \/ t = s /\ u \in known /\ u # s
  <2>1. after' = later \cup {<<s, t>> : t \in known \ {s}}
    BY <1>1
  <2>2. \A t, u \in Session : <<t, u>> \in {<<s, v>> : v \in known \ {s}} <=>
          t = s /\ u \in known /\ u # s
    BY <1>2
  <2> HIDE DEF later
  <2> QED
    BY <1>4, <2>1, <2>2
<1>6. after' \subseteq Session \X Session
  <2>1. later \subseteq Session \X Session
    BY DEF IInv, TypeOK, Standing
  <2>2. {<<s, t>> : t \in known \ {s}} \subseteq Session \X Session
    BY <1>0, <1>2
  <2>3. after' = later \cup {<<s, t>> : t \in known \ {s}}
    BY <1>1
  <2> HIDE DEF later, known
  <2> QED
    BY <2>1, <2>2, <2>3
<1>7. /\ conflict' \in [Id -> {"none", "Open", "Resolving"}]
      /\ \A x \in Id : conflict'[x] # "none" /\ conflicts[x] = "none" =>
           x = e /\ Convicts(s, known, peers, later)
      /\ Convicts(s, known, peers, later) => conflict'[e] # "none"
  <2>1. conflict' = IF conflicts[e] = "none" /\ Convicts(s, known, peers, later)
                    THEN [conflicts EXCEPT ![e] = "Open"] ELSE conflicts
    BY <1>1
  <2>2. CASE conflicts[e] = "none" /\ Convicts(s, known, peers, later)
    <3>1. conflict' = [conflicts EXCEPT ![e] = "Open"]
      BY <2>1, <2>2
    <3> HIDE DEF known, peers, later
    <3> QED
      BY <1>0, <2>2, <3>1
  <2>3. CASE ~(conflicts[e] = "none" /\ Convicts(s, known, peers, later))
    <3>1. conflict' = conflicts
      BY <2>1, <2>3
    <3> HIDE DEF known, peers, later
    <3> QED
      BY <1>0, <2>3, <3>1
  <2> QED
    BY <2>2, <2>3
<1>8. Convicts(s, known, peers, later) <=>
        s \in known /\ \E t \in Session : t \in known /\ t \in recent /\ t # s /\ <<t, s>> \in later
  BY <1>2 DEF Convicts
<1>9. ran' \in [Id -> SUBSET Machine] /\ m \in ran'[e] /\ \A x \in Id : ran[x] \subseteq ran'[x]
  BY <1>0 DEF IInv, TypeOK
<1>14. \A a, b \in Session : <<a, b>> \in turns' <=>
         \/ <<a, b>> \in turns /\ \E x \in Id : a \in kept[x] /\ b \in kept[x]
         \/ served /\ b = s /\ a \in known /\ a # s
  <2> DEFINE stood == Standing(turns, kept)
             new == {<<t, s>> : t \in IF served THEN known \ {s} ELSE {}}
  <2>1. turns' = stood \cup new
    BY <1>1
  <2>2. \A a, b \in Session : <<a, b>> \in stood <=>
          <<a, b>> \in turns /\ \E x \in Id : a \in kept[x] /\ b \in kept[x]
    BY DEF Standing
  <2>3. \A a, b \in Session : <<a, b>> \in new <=> served /\ b = s /\ a \in known /\ a # s
    BY <1>2
  <2> HIDE DEF stood, new
  <2> QED
    BY <2>1, <2>2, <2>3
<1>15. turns' \subseteq Session \X Session
  <2> DEFINE stood == Standing(turns, kept)
             new == {<<t, s>> : t \in IF served THEN known \ {s} ELSE {}}
  <2>1. turns' = stood \cup new
    BY <1>1
  <2>2. stood \subseteq Session \X Session
    BY DEF IInv, TypeOK, Standing
  <2>3. new \subseteq Session \X Session
    BY <1>0, <1>2
  <2> HIDE DEF stood, new
  <2> QED
    BY <2>1, <2>2, <2>3
<1> HIDE DEF known, kept, later, peers
<1>10. /\ \A t, u \in Session : <<t, u>> \in after' => \E x \in Id : t \in rows'[x] /\ u \in rows'[x]
       /\ \A x \in Machine, f \in Id : session'[x] \in rows'[f] => f = disk'[x].id
  <2>1. \A x \in Id : kept[x] \subseteq rows'[x]
    BY <1>0, <1>2, <1>3
  <2>2. \A t, u \in Session : <<t, u>> \in after' => \E x \in Id : t \in rows'[x] /\ u \in rows'[x]
    BY <1>0, <1>3, <1>5, <2>1
  <2>3. ASSUME NEW x \in Machine, NEW f \in Id, session'[x] \in rows'[f]
        PROVE  f = disk'[x].id
    <3>1. session'[x] = session[x] /\ session[x] # Nothing
      BY <1>3, <2>3, NothingAssumption
    <3>2. session[x] \in rows[f] \/ (f = e /\ session[x] = s)
      BY <1>2, <1>3, <2>3, <3>1
    <3>3. session[x] = s => x = m
      BY <1>0 DEF IInv, ProcInv
    <3> QED
      BY <3>2, <3>3 DEF IInv, InstanceInv
  <2> QED
    BY <2>2, <2>3
<1>11. ASSUME NEW x \in Machine, NEW f \in Id, NEW t \in Session,
              t \in rows'[f], session'[x] \in rows'[f], t # session'[x],
              <<t, session'[x]>> \in after'
       PROVE  \E y \in ran'[f] : y # x
  <2>1. session'[x] = session[x] /\ session[x] \in Session
    BY <1>3, <1>11, NothingAssumption
  <2>2. f = disk[x].id
    BY <1>10, <1>11
  <2>3. CASE t = s
    <3>1. f = e
      <4>1. CASE f # e
        <5>1. s \in rows[f]
          BY <1>2, <1>3, <1>11, <2>3, <4>1
        <5> QED
          BY <4>1, <5>1 DEF IInv, InstanceInv
      <4> QED
        BY <4>1
    <3>2. x # m
      BY <1>11, <2>1, <2>3
    <3> QED
      BY <1>9, <3>1, <3>2
  <2>4. CASE t # s
    <3>1. <<t, session[x]>> \in after
      BY <1>5, <1>11, <2>1, <2>4
    <3>2. PICK g \in Id : t \in kept[g] /\ session[x] \in kept[g]
      BY <1>5, <1>11, <2>1, <2>4
    <3>3. t \in rows[g] /\ session[x] \in rows[g] /\ g = f
      BY <1>2, <2>2, <3>2 DEF IInv, InstanceInv
    <3>4. \E y \in ran[f] : y # x
      BY <1>11, <2>1, <3>1, <3>3 DEF IInv, InstanceInv
    <3> QED
      BY <1>9, <3>4
  <2> QED
    BY <2>3, <2>4
<1>12. InstanceInv'
  BY <1>10, <1>11 DEF InstanceInv
<1>13. ConflictInv'
  <2>1. ASSUME NEW f \in Id, conflict'[f] # "none" PROVE \E x, y \in ran'[f] : x # y
    <3>1. CASE conflicts[f] # "none"
      BY <1>9, <3>1 DEF IInv, ConflictInv
    <3>2. CASE conflicts[f] = "none"
      <4>1. f = e /\ Convicts(s, known, peers, later)
        BY <1>7, <2>1, <3>2
      <4>2. PICK t \in Session : t \in known /\ t # s /\ <<t, s>> \in later
        BY <1>8, <4>1
      <4>3. t \in rows[e] /\ s \in rows[e] /\ <<t, s>> \in after
        BY <1>0, <1>2, <1>4, <1>8, <4>1, <4>2
      <4>4. \E y \in ran[e] : y # m
        BY <1>0, <4>2, <4>3 DEF IInv, InstanceInv
      <4> QED
        BY <1>9, <4>1, <4>4
    <3> QED
      BY <3>1, <3>2
  <2> QED
    BY <2>1 DEF ConflictInv
<1>16. ASSUME NEW t \in Session, <<s, t>> \in turns,
              \E x \in Id : s \in kept[x] /\ t \in kept[x]
       PROVE  ~served
  <2>1. PICK x \in Id : s \in kept[x] /\ t \in kept[x]
    BY <1>16
  <2>2. x = e
    BY <1>2, <2>1 DEF IInv, InstanceInv
  <2>3. t \in recent /\ t # s /\ <<t, s>> \in after
    BY <1>0, <1>16 DEF IInv, TurnInv
  <2>4. <<t, s>> \in later /\ s \in known /\ t \in known
    BY <1>0, <1>2, <1>4, <2>1, <2>2, <2>3
  <2>5. conflict'[e] # "none"
    BY <1>7, <1>8, <2>3, <2>4
  <2> QED
    BY <2>5
<1>17. ASSUME NEW a \in Session, NEW b \in Session, <<a, b>> \in turns'
       PROVE  b \in recent' /\ <<b, a>> \in after' /\ a # b /\ <<b, a>> \notin turns'
  <2>1. CASE <<a, b>> \in turns /\ \E x \in Id : a \in kept[x] /\ b \in kept[x]
    <3>1. b \in recent /\ <<b, a>> \in after /\ a # b /\ <<b, a>> \notin turns
      BY <2>1 DEF IInv, TurnInv
    <3>2. b \in recent' /\ <<b, a>> \in after'
      BY <1>3, <1>5, <2>1, <3>1
    <3>3. <<b, a>> \notin turns'
      BY <1>14, <1>16, <2>1, <3>1
    <3> QED
      BY <3>1, <3>2, <3>3
  <2>2. CASE served /\ b = s /\ a \in known /\ a # s
    <3>1. b \in recent' /\ <<b, a>> \in after'
      BY <1>3, <1>5, <2>2
    <3>2. <<b, a>> \notin turns'
      BY <1>14, <1>16, <2>2
    <3> QED
      BY <2>2, <3>1, <3>2
  <2> QED
    BY <1>14, <1>17, <2>1, <2>2
<1>18. TurnInv'
  BY <1>17 DEF TurnInv
<1>19. recent' \subseteq Session
  BY <1>0, <1>3 DEF IInv, TypeOK
<1> QED
  BY <1>3, <1>6, <1>7, <1>9, <1>12, <1>13, <1>15, <1>18, <1>19 DEF Noted

\* What the completion of a command leaves.
LEMMA Finished ==
  ASSUME IInv, NEW e \in Id
  PROVE  /\ Finish(e) \in [Id -> Command]
         /\ \A n \in Id : /\ Finish(e)[n].source = command[n].source
                          /\ Finish(e)[n].target = command[n].target
                          /\ \/ Finish(e)[n].status = command[n].status
                             \/ /\ n = e /\ command[n].status = "Delivered"
                                /\ Finish(e)[n].status = "Completed"
         /\ Rest(Released(e)) /\ Remaining(Settled(e))
<1> USE DEF Rest, Remaining
<1>1. /\ command \in [Id -> Command] /\ rows \in [Id -> SUBSET Session]
      /\ conflict \in [Id -> {"none", "Open", "Resolving"}]
  BY DEF IInv, TypeOK
<1>2. CASE Completes(e)
  <2>1. command[e].status = "Delivered" /\ command[e].source \in Id
    BY <1>2 DEF Completes, IInv, CommandInv
  <2>2. Finish(e) = [c \in Id |->
          IF c = e THEN [command[e] EXCEPT !.status = "Completed", !.valid = FALSE, !.current = FALSE]
          ELSE IF command[e].current /\ command[c].source = command[e].source
          THEN [command[c] EXCEPT !.current = FALSE]
          ELSE command[c]]
    BY <1>2 DEF Finish
  <2> DEFINE done == [command[e] EXCEPT !.status = "Completed", !.valid = FALSE, !.current = FALSE]
             over(c) == [command[c] EXCEPT !.current = FALSE]
  <2>3. /\ done \in Command /\ done.source = command[e].source /\ done.target = command[e].target
        /\ done.status = "Completed"
    BY <1>1 DEF Command
  <2>4. \A c \in Id : /\ over(c) \in Command /\ over(c).source = command[c].source
                      /\ over(c).target = command[c].target /\ over(c).status = command[c].status
    BY <1>1 DEF Command
  <2> HIDE DEF done, over
  <2>5. /\ Finish(e) \in [Id -> Command] /\ Finish(e)[e] = done
        /\ \A c \in Id : c # e => Finish(e)[c] \in {over(c), command[c]}
    <3>1. Finish(e) = [c \in Id |->
            IF c = e THEN done
            ELSE IF command[e].current /\ command[c].source = command[e].source
            THEN over(c)
            ELSE command[c]]
      BY <2>2 DEF done, over
    <3> QED
      BY <1>1, <2>3, <2>4, <3>1
  <2>6. /\ Released(e) = [rows EXCEPT ![command[e].source] = @ \ {command[e].target}]
    BY <1>2 DEF Released
  <2>7. /\ Released(e) \in [Id -> SUBSET Session]
        /\ \A x \in Id : Released(e)[x] \subseteq rows[x]
    BY <1>1, <2>1, <2>6
  <2>8. /\ Settled(e) \in [Id -> {"none", "Open", "Resolving"}]
        /\ \A x \in Id : Settled(e)[x] # "none" => conflict[x] # "none"
    BY <1>1 DEF Settled
  <2> QED
    BY <2>1, <2>3, <2>4, <2>5, <2>7, <2>8
<1>3. CASE ~Completes(e)
  <2>1. Finish(e) = command /\ Released(e) = rows /\ Settled(e) = conflict
    BY <1>3 DEF Finish, Released, Settled
  <2> QED
    BY <1>1, <2>1
<1> QED
  BY <1>2, <1>3

\* The commands are as they were, but for that of endpoint e that may be complete and
\* those that were handed over.
Progress(e) ==
  /\ command' \in [Id -> Command]
  /\ \A n \in Id : /\ command'[n].source = command[n].source
                   /\ command'[n].target = command[n].target
                   /\ \/ command'[n].status = command[n].status
                      \/ n = e /\ command[n].status = "Delivered" /\ command'[n].status = "Completed"
                      \/ /\ command[n].status \in {"Pending", "Delivered"}
                         /\ command'[n].status = "Delivered"

\* A new identity is only taken up by the machine it was made for, whose session ends.
Handed ==
  \A x \in Machine, n \in Id : n = disk'[x].split.id =>
    n = disk[x].split.id \/ \A y \in Machine : session'[y] # command[n].target

\* The part of the invariant that is the same for all authentic requests.
LEMMA RequestKeeps ==
  ASSUME IInv, NEW m \in Machine, Running(m), Unmoved, Handed,
         NEW instances, Rest(instances), NEW conflicts, Remaining(conflicts),
         NEW served \in BOOLEAN, served => conflict'[disk[m].id] = "none",
         Record(disk[m].id, session[m], instances, conflicts, served),
         ran' = [ran EXCEPT ![disk[m].id] = @ \cup {m}],
         SameRows(endpoint'), Progress(disk[m].id)
  PROVE  Noted /\ CommandInv' /\ TargetInv' /\ InstanceInv' /\ ConflictInv' /\ TurnInv'
<1> DEFINE e == disk[m].id
<1>1. Noted /\ InstanceInv' /\ ConflictInv' /\ TurnInv'
  BY Recorded
<1>4. CommandInv'
  BY DEF IInv, CommandInv, SameRows, Progress
<1>5. TargetInv'
  <2> SUFFICES ASSUME NEW n \in Id, NEW y \in Machine,
                      command'[n].status # "none", session'[y] = command'[n].target
               PROVE  /\ command'[n].status # "Completed"
                      /\ \A x \in Machine : disk'[x].id # n /\ disk'[x].split.id # n
    BY DEF TargetInv
  <2>1. command[n].status # "none" /\ session'[y] = command[n].target
    BY DEF Progress
  <2>2. command[n].target \in Session
    BY <2>1 DEF IInv, CommandInv
  <2>3. session[y] = command[n].target
    BY <2>1, <2>2, NothingAssumption DEF Unmoved
  <2>4. /\ command[n].status # "Completed"
        /\ \A x \in Machine : disk[x].id # n /\ disk[x].split.id # n
    BY <2>1, <2>3 DEF IInv, TargetInv
  <2>5. n # e
    BY <2>4
  <2>6. command'[n].status # "Completed"
    BY <2>4, <2>5 DEF Progress
  <2>7. \A x \in Machine : disk'[x].id # n /\ disk'[x].split.id # n
    BY <2>1, <2>4 DEF Unmoved, Handed
  <2> QED
    BY <2>6, <2>7
<1> QED
  BY <1>1, <1>4, <1>5

\* Requests that leave agents as they are.
LEMMA QuietRequest ==
  ASSUME IInv, NEW e \in Id, Noted,
         UNCHANGED <<disk, process, session, edits, struck>>,
         SameRows(endpoint'), Progress(e),
         CommandInv', TargetInv', InstanceInv', ConflictInv', TurnInv'
  PROVE  IInv'
<1>1. TypeOK' /\ DiskInv' /\ ProcInv'
  BY DEF IInv, TypeOK, DiskInv, ProcInv, Running, SameRows, Noted, Progress
<1>2. TokenInv'
  BY DEF IInv, TokenInv, SameRows
<1>3. NewIdentityIsKnown'
  BY DiskFacts DEF IInv, NewIdentityIsKnown, SameRows
<1> QED
  BY <1>1, <1>2, <1>3 DEF IInv

LEMMA BoundRow ==
  ASSUME IInv, NEW m \in Machine, NEW row \in Endpoint
  PROVE  /\ Bound(m, row) \in Endpoint /\ Bound(m, row).token = row.token
         /\ Bound(m, row).status = row.status
         /\ [Bound(m, row) EXCEPT !.seen = TRUE] \in Endpoint
         /\ [Bound(m, row) EXCEPT !.seen = TRUE].token = row.token
         /\ [Bound(m, row) EXCEPT !.seen = TRUE].status = row.status
<1>1. disk[m].key \in Id \cup {Nothing}
  BY DiskFacts DEF Disk
<1> QED
  BY <1>1 DEF Bound, Endpoint

\* The row of m, with its key, and heard of or not, is the same row.
LEMMA BoundRows ==
  ASSUME IInv, NEW m \in Machine, Running(m), NEW e, e = disk[m].id,
         \/ endpoint' = [endpoint EXCEPT ![e] = Bound(m, @)]
         \/ endpoint' = [endpoint EXCEPT ![e] = [Bound(m, @) EXCEPT !.seen = TRUE]]
  PROVE  SameRows(endpoint')
<1>1. e \in Id /\ endpoint \in [Id -> Endpoint]
  BY DiskFacts DEF IInv, TypeOK
<1> DEFINE row == Bound(m, endpoint[e])
           heard == [Bound(m, endpoint[e]) EXCEPT !.seen = TRUE]
<1>2. /\ row \in Endpoint /\ row.token = endpoint[e].token /\ row.status = endpoint[e].status
      /\ heard \in Endpoint /\ heard.token = endpoint[e].token
      /\ heard.status = endpoint[e].status
  BY <1>1, BoundRow
<1>3. \/ endpoint' = [endpoint EXCEPT ![e] = row]
      \/ endpoint' = [endpoint EXCEPT ![e] = heard]
  OBVIOUS
<1> HIDE DEF row, heard
<1> QED
  BY <1>1, <1>2, <1>3 DEF SameRows

LEMMA ReportInv ==
  ASSUME IInv, NEW m \in Machine, Report(m)
  PROVE  IInv'
<1> DEFINE e == disk[m].id
<1>1. /\ Record(e, session[m], rows, conflict, FALSE)
      /\ endpoint' = [endpoint EXCEPT ![e] = [Bound(m, @) EXCEPT !.seen = TRUE]]
      /\ ran' = [ran EXCEPT ![e] = @ \cup {m}]
      /\ UNCHANGED <<command, disk, process, session, edits, struck>>
      /\ Running(m)
  BY DEF Report, agents, Running
<1>2. e \in Id
  BY <1>1, DiskFacts
<1>3. SameRows(endpoint')
  BY <1>1, BoundRows
<1>4. Progress(e) /\ Rest(rows) /\ Remaining(conflict) /\ Unmoved /\ Handed
  BY <1>1 DEF Progress, Rest, Remaining, Unmoved, Handed, IInv, TypeOK
<1>5. Noted /\ CommandInv' /\ TargetInv' /\ InstanceInv' /\ ConflictInv' /\ TurnInv'
  BY <1>1, <1>3, <1>4, RequestKeeps
<1> QED
  BY <1>1, <1>2, <1>3, <1>4, <1>5, QuietRequest

\* What all polls have in common.
LEMMA PollKeeps ==
  ASSUME IInv, NEW m \in Machine, process[m] = "polling", Unmoved, Handed,
         NEW served \in BOOLEAN, served => conflict'[disk[m].id] = "none", Heard(m, served),
         SameRows(endpoint'), Progress(disk[m].id)
  PROVE  Noted /\ CommandInv' /\ TargetInv' /\ InstanceInv' /\ ConflictInv' /\ TurnInv'
<1> DEFINE e == disk[m].id
<1>1. /\ Record(e, session[m], Released(e), Settled(e), served)
      /\ ran' = [ran EXCEPT ![e] = @ \cup {m}] /\ Running(m)
  BY DEF Heard, Running
<1>2. e \in Id
  BY <1>1, DiskFacts
<1>3. Rest(Released(e)) /\ Remaining(Settled(e))
  BY <1>2, Finished
<1> HIDE DEF e
<1>4. e = disk[m].id
  BY DEF e
<1> QED
  BY <1>1, <1>3, <1>4, RequestKeeps

LEMMA PollPendingInv ==
  ASSUME IInv, NEW m \in Machine, PollPending(m)
  PROVE  IInv'
<1> DEFINE e == disk[m].id
<1>1. /\ process[m] = "polling" /\ Running(m) /\ Heard(m, FALSE)
      /\ command' = Finish(e)
      /\ endpoint' = [endpoint EXCEPT ![e] = [Bound(m, @) EXCEPT !.seen = TRUE]]
      /\ UNCHANGED <<disk, process, session, edits, struck>>
  BY DEF PollPending, agents, Running, Heard
<1>2. e \in Id
  BY <1>1, DiskFacts
<1>3. SameRows(endpoint')
  BY <1>1, BoundRows
<1>4. Progress(e) /\ Unmoved /\ Handed
  BY <1>1, <1>2, Finished DEF Progress, Unmoved, Handed
<1>5. Noted /\ CommandInv' /\ TargetInv' /\ InstanceInv' /\ ConflictInv' /\ TurnInv'
  BY <1>1, <1>3, <1>4, PollKeeps
<1> QED
  BY <1>1, <1>2, <1>3, <1>4, <1>5, QuietRequest

LEMMA PollTaskInv ==
  ASSUME IInv, NEW m \in Machine, PollTask(m)
  PROVE  IInv'
<1> DEFINE e == disk[m].id
<1>1. PICK served \in BOOLEAN : served = ~Quarantined(e)
  OBVIOUS
<1>2. served => conflict'[disk[m].id] = "none"
  BY <1>1 DEF Quarantined
<1>3. /\ process[m] = "polling" /\ Running(m)
      /\ command' = Finish(e)
      /\ endpoint' = [endpoint EXCEPT ![e] = [Bound(m, @) EXCEPT !.seen = TRUE]]
      /\ UNCHANGED <<disk, process, session, edits, struck>>
  BY DEF PollTask, agents, Running, Heard
<1>4. Heard(m, served)
  BY <1>1, Zenon DEF PollTask
<1>5. e \in Id
  BY <1>3, DiskFacts
<1>6. SameRows(endpoint')
  BY <1>3, BoundRows
<1>7. Progress(e) /\ Unmoved /\ Handed
  BY <1>3, <1>5, Finished DEF Progress, Unmoved, Handed
<1>8. Noted /\ CommandInv' /\ TargetInv' /\ InstanceInv' /\ ConflictInv' /\ TurnInv'
  BY <1>2, <1>3, <1>4, <1>6, <1>7, PollKeeps
<1> QED
  BY <1>3, <1>5, <1>6, <1>7, <1>8, QuietRequest

\* The session ends, or goes on when the answer is lost, with a new identity at hand.
LEMMA PollSplitInv ==
  ASSUME IInv, NEW m \in Machine, PollSplit(m)
  PROVE  IInv'
<1> DEFINE e == disk[m].id
           s == session[m]
<1>1. /\ process[m] = "polling" /\ Running(m) /\ Heard(m, FALSE)
      /\ endpoint' = [endpoint EXCEPT ![e] = Bound(m, @)]
      /\ UNCHANGED struck
  BY DEF PollSplit, Running, Heard
<1>2. /\ e \in Id /\ s \in Session /\ s # Nothing /\ endpoint[e].token = disk[m].token
      /\ disk[m].token # Nothing /\ disk[m].secret = FALSE
      /\ disk[m].split = NoSplit /\ disk[m].split.id = Nothing
  BY <1>1, DiskFacts, NothingAssumption DEF Heard, Authentic, IInv, ProcInv
<1>3. SameRows(endpoint')
  BY <1>1, BoundRows
<1>4. PICK n \in Ordered(e, s, Finish(e)), lost \in BOOLEAN :
        /\ command' = HandedOver(Finish(e), n)
        /\ IF lost THEN UNCHANGED agents
           ELSE /\ disk' = [disk EXCEPT ![m].split = [id |-> n, token |-> endpoint[n].token]]
                /\ process' = [process EXCEPT ![m] = "installing"]
                /\ session' = [session EXCEPT ![m] = Nothing]
                /\ UNCHANGED edits
  BY DEF PollSplit
<1>5. /\ n \in Id /\ command[n].status \in {"Pending", "Delivered"}
      /\ command[n].source = e /\ command[n].target = s
  <2>1. /\ n \in Id /\ Finish(e)[n].status \in {"Pending", "Delivered"}
        /\ Finish(e)[n].source = e /\ Finish(e)[n].target = s
    BY <1>4 DEF Ordered
  <2> QED
    BY <1>2, <2>1, Finished
<1>6. n # e /\ endpoint[n].token # Nothing /\ endpoint[n].token \in Token
      /\ endpoint[n].status # "none"
  <2>1. n # e /\ endpoint[n].token # Nothing
    BY <1>5 DEF IInv, CommandInv
  <2>2. endpoint[n] \in Endpoint
    BY <1>5 DEF IInv, TypeOK
  <2> QED
    BY <1>5, <2>1, <2>2 DEF Endpoint, IInv, TokenInv
<1>7. Progress(e)
  <2>1. Finish(e) \in [Id -> Command]
    BY <1>2, Finished
  <2>2. [Finish(e)[n] EXCEPT !.status = "Delivered"] \in Command
    BY <1>5, <2>1 DEF Command
  <2> DEFINE given == [Finish(e)[n] EXCEPT !.status = "Delivered"]
  <2>3. /\ given \in Command /\ given.status = "Delivered"
        /\ given.source = Finish(e)[n].source /\ given.target = Finish(e)[n].target
    BY <1>5, <2>1, <2>2 DEF Command
  <2>4. command' = [Finish(e) EXCEPT ![n] = given]
    BY <1>4 DEF HandedOver
  <2> HIDE DEF given
  <2>5. command' \in [Id -> Command] /\ command'[n] = given
        /\ \A x \in Id : x # n => command'[x] = Finish(e)[x]
    BY <1>5, <2>1, <2>3, <2>4
  <2>6. \A x \in Id :
          /\ Finish(e)[x].source = command[x].source /\ Finish(e)[x].target = command[x].target
          /\ \/ Finish(e)[x].status = command[x].status
             \/ /\ x = e /\ command[x].status = "Delivered" /\ Finish(e)[x].status = "Completed"
    BY <1>2, Finished
  <2> HIDE DEF e
  <2>7. ASSUME NEW x \in Id
        PROVE  /\ command'[x].source = command[x].source
               /\ command'[x].target = command[x].target
               /\ \/ command'[x].status = command[x].status
                  \/ x = e /\ command[x].status = "Delivered" /\ command'[x].status = "Completed"
                  \/ /\ command[x].status \in {"Pending", "Delivered"}
                     /\ command'[x].status = "Delivered"
    <3>1. CASE x = n
      BY <1>5, <2>3, <2>5, <2>6, <3>1
    <3>2. CASE x # n
      BY <2>5, <2>6, <3>2
    <3> QED
      BY <3>1, <3>2
  <2> QED
    BY <2>5, <2>7 DEF Progress
<1>8. CASE lost
  <2>1. UNCHANGED <<disk, process, session, edits>>
    BY <1>4, <1>8 DEF agents
  <2>2. Unmoved /\ Handed
    BY <2>1 DEF Unmoved, Handed
  <2>3. Noted /\ CommandInv' /\ TargetInv' /\ InstanceInv' /\ ConflictInv' /\ TurnInv'
    BY <1>1, <1>3, <1>7, <2>2, PollKeeps
  <2>4. TypeOK' /\ DiskInv' /\ ProcInv'
    BY <1>1, <1>3, <1>7, <2>1, <2>3
    DEF IInv, TypeOK, DiskInv, ProcInv, Running, SameRows, Noted, Progress
  <2>5. TokenInv'
    BY <1>3, <2>1 DEF IInv, TokenInv, SameRows
  <2>6. NewIdentityIsKnown'
    BY <1>1, <1>3, <2>1, DiskFacts DEF IInv, NewIdentityIsKnown, SameRows
  <2> QED
    BY <2>3, <2>4, <2>5, <2>6 DEF IInv
<1>9. CASE ~lost
  <2> DEFINE new == [id |-> n, token |-> endpoint[n].token]
             d == [disk[m] EXCEPT !.split = new]
  <2>1. /\ disk' = [disk EXCEPT ![m] = d]
        /\ process' = [process EXCEPT ![m] = "installing"]
        /\ session' = [session EXCEPT ![m] = Nothing]
        /\ UNCHANGED edits
    BY <1>4, <1>9
  <2>2. disk \in [Machine -> Disk] /\ disk[m] \in Disk
    BY DEF IInv, TypeOK
  <2>3. /\ new.id = n /\ new.token = endpoint[n].token
        /\ new \in [id : Id \cup {Nothing}, token : Token \cup {Nothing}]
    BY <1>5, <1>6
  <2> HIDE DEF new
  <2>4. /\ d \in Disk /\ d.id = e /\ d.token = disk[m].token /\ d.key = disk[m].key
        /\ d.secret = FALSE /\ d.split = new
    BY <1>2, <2>2, <2>3 DEF Disk
  <2> HIDE DEF d
  <2>5. /\ disk' \in [Machine -> Disk] /\ disk'[m] = d
        /\ \A x \in Machine : x # m => disk'[x] = disk[x]
    BY <2>1, <2>2, <2>4
  <2>6. /\ process' \in [Machine -> {"off", "installing", "enrolling", "polling"}]
        /\ process'[m] = "installing" /\ \A x \in Machine : x # m => process'[x] = process[x]
        /\ session' \in [Machine -> Session \cup {Nothing}]
        /\ session'[m] = Nothing /\ \A x \in Machine : x # m => session'[x] = session[x]
    BY <2>1 DEF IInv, TypeOK
  <2>7. \A x \in Machine : session[x] = s => x = m
    BY <1>2 DEF IInv, ProcInv
  <2>8. Unmoved /\ Handed
    <3>1. Unmoved
      BY <2>4, <2>5, <2>6 DEF Unmoved
    <3>2. ASSUME NEW x \in Machine, NEW c \in Id, c = disk'[x].split.id, c # disk[x].split.id
          PROVE  \A y \in Machine : session'[y] # command[c].target
      <4>1. x = m /\ c = n
        BY <2>3, <2>4, <2>5, <3>2
      <4> QED
        BY <1>2, <1>5, <2>6, <2>7, <4>1
    <3> QED
      BY <3>1, <3>2 DEF Handed
  <2>9. Noted /\ CommandInv' /\ TargetInv' /\ InstanceInv' /\ ConflictInv' /\ TurnInv'
    BY <1>1, <1>3, <1>7, <2>8, PollKeeps
  <2>10. TypeOK'
    BY <1>1, <1>3, <1>7, <2>1, <2>5, <2>6, <2>9 DEF IInv, TypeOK, SameRows, Noted, Progress
  <2>11. DiskInv'
    <3>1. endpoint[n].token # endpoint[e].token
      BY <1>2, <1>5, <1>6 DEF IInv, TokenInv
    <3>2. Sound(d)
      BY <1>2, <1>5, <1>6, <2>3, <2>4, <3>1, NothingAssumption DEF Sound
    <3> QED
      BY <2>5, <3>2 DEF IInv, DiskInv
  <2>12. ProcInv'
    <3>1. n # Nothing /\ d.split.id = n
      BY <1>5, <2>3, <2>4, NothingAssumption
    <3> QED
      BY <2>5, <2>6, <3>1 DEF IInv, ProcInv, Running
  <2>13. TokenInv'
    <3>1. Owner(disk[m]) = e
      BY <1>2 DEF Owner
    <3>2. endpoint[n].token # endpoint[e].token
      BY <1>2, <1>5, <1>6 DEF IInv, TokenInv
    <3>3. Owner(d) = e
      BY <1>2, <2>3, <2>4, <3>2 DEF Owner
    <3>4. \A f \in Id : endpoint[f].token # Nothing =>
            /\ endpoint[f].token = d.token => f = Owner(d)
            /\ endpoint[f].token = d.split.token => f = d.split.id
      BY <1>5, <1>6, <2>3, <2>4, <3>1, <3>3 DEF IInv, TokenInv
    <3> QED
      BY <1>3, <2>5, <3>4 DEF IInv, TokenInv, SameRows
  <2>14. NewIdentityIsKnown'
    <3>1. \A f \in Id : endpoint'[f].status = "none" <=> endpoint[f].status = "none"
      BY <1>3 DEF SameRows
    <3>2. ASSUME NEW x \in Machine
          PROVE  /\ disk'[x].token # Nothing =>
                      endpoint'[disk'[x].id].status # "none" \/ disk'[x].id \in struck'
                 /\ disk'[x].split # NoSplit =>
                      endpoint'[disk'[x].split.id].status # "none" \/ disk'[x].split.id \in struck'
      <4>1. CASE x = m
        <5>1. endpoint[e].status # "none"
          BY <1>1 DEF Heard, Authentic
        <5> QED
          BY <1>2, <1>5, <1>6, <2>3, <2>4, <2>5, <3>1, <4>1, <5>1
      <4>2. CASE x # m
        BY <1>1, <2>5, <3>1, <4>2, DiskFacts DEF IInv, NewIdentityIsKnown
      <4> QED
        BY <4>1, <4>2
    <3> QED
      BY <3>2 DEF NewIdentityIsKnown
  <2> QED
    BY <2>9, <2>10, <2>11, <2>12, <2>13, <2>14 DEF IInv
<1> QED
  BY <1>8, <1>9

-----------------------------------------------------------------------------
(* All steps.                                                              *)

LEMMA NextInv == IInv /\ [Next]_vars => IInv'
<1> SUFFICES ASSUME IInv, [Next]_vars PROVE IInv'
  OBVIOUS
<1>1. ASSUME NEW m \in Machine, Agent(m) PROVE IInv'
  <2>1. ASSUME Poll(m) PROVE IInv'
    BY <2>1, PollRefusedInv, PollPendingInv, PollSplitInv, PollTaskInv DEF Poll
  <2> QED
    BY <1>1, <2>1, EnrollInv, ReportInv, StartInv, InstallInv DEF Agent
<1>2. ASSUME NEW m \in Machine, Crash(m) \/ Purge(m) \/ Bootstrap(m) PROVE IInv'
  BY <1>2, CrashInv, PurgeInv, BootstrapInv
<1>3. ASSUME NEW m \in Machine, NEW copy \in Machine, Clone(m, copy) PROVE IInv'
  BY <1>3, CloneInv
<1>4. ASSUME Administrator PROVE IInv'
  <2>1. ASSUME NEW e \in Id, NEW status \in {"Pending", "Approved", "Rejected"}, Approve(e, status)
        PROVE  IInv'
    BY <2>1, ApproveInv
  <2>2. ASSUME NEW e \in Id,
               ToggleBlock(e) \/ AllowReenroll(e) \/ DeleteHost(e) \/ Dismiss(e)
        PROVE  IInv'
    BY <2>2, ToggleBlockInv, AllowReenrollInv, DeleteHostInv, DismissInv
  <2>3. ASSUME NEW e \in Id, NEW f \in Id, MergeDuplicate(e, f) PROVE IInv'
    BY <2>3, MergeDuplicateInv
  <2>4. ASSUME NEW e \in Id, NEW s \in Session, Split(e, s) PROVE IInv'
    BY <2>4, SplitInv
  <2> QED
    BY <1>4, <2>1, <2>2, <2>3, <2>4 DEF Administrator
<1>5. ASSUME NEW e \in Id, WindowCloses(e) \/ CommandExpires(e) PROVE IInv'
  BY <1>5, WindowClosesInv, CommandExpiresInv
<1>6. ASSUME NEW s \in Session, LeaseEnds(s) PROVE IInv'
  BY <1>6, LeaseEndsInv
<1>7. ASSUME UNCHANGED vars PROVE IInv'
  <2>1. SameRows(endpoint') /\ edits' \in 0..MaxEdits
    BY <1>7 DEF IInv, TypeOK, SameRows, vars, server, agents
  <2> QED
    BY <1>7, <2>1, RowsInv DEF vars, server, agents
<1> QED
  BY <1>1, <1>2, <1>3, <1>4, <1>5, <1>6, <1>7 DEF Next

LEMMA IdentityInv == Spec => []IInv
<1> QED
  BY InitInv, NextInv, PTL DEF Spec

\* Every variable has its type.
THEOREM IdentityTypeCorrect == Spec => []TypeOK
<1>1. IInv => TypeOK
  BY DEF IInv
<1> QED
  BY <1>1, IdentityInv, PTL

\* An agent that runs has the key and the token of one identity, though the installation of a
\* new one (RecoverPendingIdentitySplit, Worker.cs) may have been cut short at any write.
THEOREM IdentityStaysWhole == Spec => []IdentityIsWhole
<1>1. ASSUME IInv PROVE IdentityIsWhole
  <2> SUFFICES ASSUME NEW m \in Machine, Running(m), disk[m].token # Nothing
               PROVE  /\ disk[m].key = disk[m].id
                      /\ \A e \in Id : endpoint[e].token = disk[m].token => e = disk[m].id
    BY DEF IdentityIsWhole
  <2>1. disk[m].split.id = Nothing /\ Sound(disk[m])
    BY <1>1 DEF IInv, ProcInv, DiskInv
  <2>2. Owner(disk[m]) = disk[m].id
    BY <2>1 DEF Owner
  <2>3. \A e \in Id : endpoint[e].token = disk[m].token => e = Owner(disk[m])
    BY <1>1 DEF IInv, TokenInv
  <2> QED
    BY <2>1, <2>2, <2>3 DEF Sound
<1> QED
  BY <1>1, IdentityInv, PTL

\* A machine with a token, or with an identity that it was to take up, is known to the server,
\* unless its endpoint was deleted or its command had expired.
THEOREM IdentityStaysKnown == Spec => []NewIdentityIsKnown
<1>1. IInv => NewIdentityIsKnown
  BY DEF IInv
<1> QED
  BY <1>1, IdentityInv, PTL

\* When complete_identity_command_for_new_endpoint takes a split for complete, the session
\* that it was made for is over.
THEOREM IdentitySplitIsDone == Spec => []SplitIsDone
<1>1. ASSUME IInv PROVE SplitIsDone
  BY <1>1 DEF IInv, TargetInv, SplitIsDone
<1> QED
  BY <1>1, IdentityInv, PTL

\* record_endpoint_instance opens a conflict only for an identity that at least two machines
\* had, however often one of them was restarted and whatever was lost.
THEOREM IdentityRestartIsNoClone == Spec => []RestartIsNoClone
<1>1. ASSUME IInv PROVE RestartIsNoClone
  <2> SUFFICES ASSUME NEW e \in Id, conflict[e] # "none" PROVE Cardinality(ran[e]) > 1
    BY DEF RestartIsNoClone
  <2>1. PICK x \in ran[e], y \in ran[e] : x # y
    BY <1>1 DEF IInv, ConflictInv
  <2>2. ran[e] \subseteq Machine
    BY <1>1 DEF IInv, TypeOK
  <2>3. IsFiniteSet(ran[e])
    BY <2>2, MachineAssumption, FS_Subset
  <2>4. Cardinality(ran[e]) \in Nat
    BY <2>3, FS_CardinalityType
  <2>5. Cardinality(ran[e]) # 0
    BY <2>1, <2>3, FS_EmptySet
  <2>6. Cardinality(ran[e]) # 1
    BY <2>1, <2>3, FS_Singleton
  <2> QED
    BY <2>4, <2>5, <2>6
<1> QED
  BY <1>1, IdentityInv, PTL

\* When one session of an endpoint was served after another one was heard of, /poll does not
\* serve the other any more, whatever split, dismissal, restart or long silence of the other
\* comes between, until the former is silent for a whole lease or a row of them is dropped.
THEOREM IdentityNoAlternation == Spec => []TasksDoNotAlternate
<1>1. IInv => TasksDoNotAlternate
  BY DEF IInv, TurnInv, TasksDoNotAlternate
<1> QED
  BY <1>1, IdentityInv, PTL
=============================================================================
