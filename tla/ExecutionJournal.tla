-------------------------- MODULE ExecutionJournal --------------------------
(***************************************************************************)
(* The durable execution journal of one Linux or Windows agent             *)
(* (WinHUBLinuxAgent/Security/ExecutionJournal.cs), at the granularity of  *)
(* its file operations.  Every file operation is one step, so the process  *)
(* may die between any two of them, and any of them may throw.             *)
(*                                                                         *)
(* A task id has an active record (claimed, result, or the acknowledged    *)
(* flat record of agents older than RC3) and, once delivered, a tombstone  *)
(* under acknowledged/.  The dictionary `states` of the class is `cache`:  *)
(* it is volatile, it is what the capacity test and Pending() consult, and *)
(* it may lag behind the directory when an AtomicWrite throws after its    *)
(* rename.                                                                 *)
(***************************************************************************)
EXTENDS Naturals, FiniteSets

CONSTANTS
  TaskId,      \* task ids
  NoTask,      \* not a task id
  MaxPending,  \* capacity of the active journal (32 in the code)
  WriteFaults  \* TRUE: file operations may throw

ASSUME NoTaskAssumption == NoTask \notin TaskId
ASSUME MaxPendingAssumption == MaxPending \in Nat \ {0}
ASSUME WriteFaultsAssumption == WriteFaults \in BOOLEAN

VARIABLES
  disk,       \* disk[t]: state of t's active record, "absent" if no file
  status,     \* status[t]: the outcome written in t's record or tombstone
  archived,   \* ids that have a tombstone
  cache,      \* cache[t]: the dictionary `states`, "absent" if no entry
  phase,      \* where the owning process is
  archiving,  \* id whose tombstone is written and active record not yet deleted
  current,    \* id whose Claim returned to the caller, until it is completed
  fault,      \* Worker._executionPersistenceFault
  granted     \* history: how often Claim returned normally for an id

vars == <<disk, status, archived, cache, phase, archiving, current, fault, granted>>

RecordStates == {"absent", "claimed", "result", "acknowledged"}
Outcomes == {"Success", "Error", "Unknown"}
Phases == {"down", "loading", "recovering", "up"}

EmptyCache == [t \in TaskId |-> "absent"]
Cached == {t \in TaskId : cache[t] # "absent"}
Active == {t \in TaskId : disk[t] \in {"claimed", "result"}}

TypeOK ==
  /\ disk \in [TaskId -> RecordStates]
  /\ status \in [TaskId -> Outcomes \cup {"none"}]
  /\ archived \in SUBSET TaskId
  /\ cache \in [TaskId -> {"absent", "claimed", "result"}]
  /\ phase \in Phases
  /\ archiving \in TaskId \cup {NoTask}
  /\ current \in TaskId \cup {NoTask}
  /\ fault \in BOOLEAN
  /\ granted \in [TaskId -> Nat]

\* An empty directory, or the flat acknowledged records of an older agent.
Init ==
  /\ disk \in [TaskId -> {"absent", "acknowledged"}]
  /\ status = [t \in TaskId |-> "none"]
  /\ archived = {}
  /\ cache = EmptyCache
  /\ phase = "down"
  /\ archiving = NoTask
  /\ current = NoTask
  /\ fault = FALSE
  /\ granted = [t \in TaskId |-> IF disk[t] = "acknowledged" THEN 1 ELSE 0]

-----------------------------------------------------------------------------
(* The process: start, load, recover, die.                                 *)

\* The process is gone and everything it held in memory with it.
Die ==
  /\ phase' = "down"
  /\ cache' = EmptyCache
  /\ archiving' = NoTask
  /\ current' = NoTask
  /\ fault' = FALSE

Crash ==
  /\ phase # "down"
  /\ Die
  /\ UNCHANGED <<disk, status, archived, granted>>

\* The constructor takes the owner lock and begins to read the directory.
Open ==
  /\ phase = "down"
  /\ phase' = "loading"
  /\ UNCHANGED <<disk, status, archived, cache, archiving, current, fault, granted>>

\* The constructor keeps an undelivered record in `states` ...
LoadRecord(t) ==
  /\ phase = "loading" /\ archiving = NoTask
  /\ t \in Active \ Cached
  /\ Cardinality(Cached) < MaxPending
  /\ cache' = [cache EXCEPT ![t] = disk[t]]
  /\ UNCHANGED <<disk, status, archived, phase, archiving, current, fault, granted>>

\* ... and throws when there are more of them than MaxPending.
LoadOverflow ==
  /\ phase = "loading" /\ archiving = NoTask
  /\ Active \ Cached # {}
  /\ Cardinality(Cached) >= MaxPending
  /\ Die
  /\ UNCHANGED <<disk, status, archived, granted>>

\* A flat acknowledged record is moved under acknowledged/.
MigrateRecord(t) ==
  /\ phase = "loading" /\ archiving = NoTask
  /\ disk[t] = "acknowledged"
  /\ archived' = archived \cup {t}
  /\ archiving' = t
  /\ UNCHANGED <<disk, status, cache, phase, current, fault, granted>>

Loaded ==
  /\ phase = "loading" /\ archiving = NoTask
  /\ Active = Cached
  /\ \A t \in TaskId : disk[t] # "acknowledged"
  /\ phase' = "recovering"
  /\ UNCHANGED <<disk, status, archived, cache, archiving, current, fault, granted>>

\* Claims the dictionary holds at startup: their execution was interrupted.
Interrupted(t) == cache[t] = "claimed"

\* Mutant of RecoverInterrupted: the interrupted claim is dropped so that the
\* server may issue the task again.
RecoverByForgetting(t) ==
  /\ phase = "recovering"
  /\ Interrupted(t) /\ disk[t] = "claimed"
  /\ disk' = [disk EXCEPT ![t] = "absent"]
  /\ cache' = [cache EXCEPT ![t] = "absent"]
  /\ UNCHANGED <<status, archived, phase, archiving, current, fault, granted>>

\* RecoverInterrupted: the outcome is recorded as unknown, never re-executed.
RecoverInterrupted(t) ==
  /\ phase = "recovering"
  /\ Interrupted(t) /\ disk[t] = "claimed"
  /\ disk' = [disk EXCEPT ![t] = "result"]
  /\ status' = [status EXCEPT ![t] = "Unknown"]
  /\ cache' = [cache EXCEPT ![t] = "result"]
  /\ UNCHANGED <<archived, phase, archiving, current, fault, granted>>

Recovered ==
  /\ phase = "recovering"
  /\ \A t \in TaskId : ~Interrupted(t)
  /\ phase' = "up"
  /\ UNCHANGED <<disk, status, archived, cache, archiving, current, fault, granted>>

-----------------------------------------------------------------------------
(* Operations of the running agent.  Its worker is sequential: it claims,  *)
(* executes and completes one task, then delivers results.                 *)

\* Mutant of Claimable: the tombstone directory is not consulted.
ClaimableForgetsArchive(t) ==
  /\ disk[t] = "absent"
  /\ Cardinality(Cached) < MaxPending

\* Claim refuses an id with an active record or a tombstone, and a full journal.
Claimable(t) ==
  /\ disk[t] = "absent"
  /\ t \notin archived
  /\ Cardinality(Cached) < MaxPending

\* No task claimed and no record being archived.
AtRest == phase = "up" /\ current = NoTask /\ archiving = NoTask

Claim(t) ==
  /\ AtRest /\ ~fault
  /\ Claimable(t)
  /\ disk' = [disk EXCEPT ![t] = "claimed"]
  /\ cache' = [cache EXCEPT ![t] = "claimed"]
  /\ current' = t
  /\ granted' = [granted EXCEPT ![t] = @ + 1]
  /\ UNCHANGED <<status, archived, phase, archiving, fault>>

\* AtomicWrite throws after its rename: the record exists, `states` does not
\* know it, and the caller refuses the task and goes on polling.
ClaimFault(t) ==
  /\ WriteFaults
  /\ AtRest /\ ~fault
  /\ Claimable(t)
  /\ disk' = [disk EXCEPT ![t] = "claimed"]
  /\ UNCHANGED <<status, archived, cache, phase, archiving, current, fault, granted>>

\* The caller gives a granted claim up before executing it: saving the signing
\* sequence failed.  The claim stays in the journal until the next start.
Abandon ==
  /\ phase = "up" /\ current # NoTask
  /\ current' = NoTask
  /\ UNCHANGED <<disk, status, archived, cache, phase, archiving, fault, granted>>

Complete(t, o) ==
  /\ phase = "up" /\ current = t
  /\ disk[t] = "claimed"
  /\ disk' = [disk EXCEPT ![t] = "result"]
  /\ status' = [status EXCEPT ![t] = o]
  /\ cache' = [cache EXCEPT ![t] = "result"]
  /\ current' = NoTask
  /\ UNCHANGED <<archived, phase, archiving, fault, granted>>

\* AtomicWrite throws before or after its rename; ReportResultAsync then
\* refuses further polls until a restart.
CompleteFault(t, o) ==
  /\ WriteFaults
  /\ phase = "up" /\ current = t
  /\ disk[t] = "claimed"
  /\ \/ UNCHANGED <<disk, status>>
     \/ /\ disk' = [disk EXCEPT ![t] = "result"]
        /\ status' = [status EXCEPT ![t] = o]
  /\ current' = NoTask
  /\ fault' = TRUE
  /\ UNCHANGED <<archived, cache, phase, archiving, granted>>

\* Pending(): the results the agent will send, those whose entry says "result".
Deliverable(t) == cache[t] = "result"

\* Mutant of Acknowledge: the entry leaves `states` before the files are moved.
AcknowledgeForgetsEntry(t) ==
  /\ AtRest
  /\ Deliverable(t) /\ disk[t] = "result"
  /\ archived' = archived \cup {t}
  /\ archiving' = t
  /\ cache' = [cache EXCEPT ![t] = "absent"]
  /\ UNCHANGED <<disk, status, phase, current, fault, granted>>

\* The server acknowledged t: its tombstone is written first ...
Acknowledge(t) ==
  /\ AtRest
  /\ Deliverable(t) /\ disk[t] = "result"
  /\ archived' = archived \cup {t}
  /\ archiving' = t
  /\ UNCHANGED <<disk, status, cache, phase, current, fault, granted>>

\* ... and only then its active record is deleted.
RemoveArchived ==
  /\ archiving # NoTask
  /\ disk' = [disk EXCEPT ![archiving] = "absent"]
  /\ cache' = [cache EXCEPT ![archiving] = "absent"]
  /\ archiving' = NoTask
  /\ UNCHANGED <<status, archived, phase, current, fault, granted>>

\* The deletion, or the directory flush after it, throws.  At startup the
\* constructor fails with it; later the result counts as not acknowledged.
RemoveFault ==
  /\ WriteFaults
  /\ archiving # NoTask
  /\ \/ UNCHANGED disk
     \/ disk' = [disk EXCEPT ![archiving] = "absent"]
  /\ IF phase = "loading" THEN Die
     ELSE archiving' = NoTask /\ UNCHANGED <<cache, phase, current, fault>>
  /\ UNCHANGED <<status, archived, granted>>

\* Pending() reads the record of an entry whose file is already deleted: the
\* exception leaves ExecuteAsync and the service manager restarts the agent.
PendingReadFault ==
  /\ AtRest
  /\ \E t \in TaskId : Deliverable(t) /\ disk[t] = "absent"
  /\ Die
  /\ UNCHANGED <<disk, status, archived, granted>>

-----------------------------------------------------------------------------
Next ==
  \/ Crash
  \/ Open
  \/ \E t \in TaskId : LoadRecord(t)
  \/ LoadOverflow
  \/ \E t \in TaskId : MigrateRecord(t)
  \/ Loaded
  \/ \E t \in TaskId : RecoverInterrupted(t)
  \/ Recovered
  \/ \E t \in TaskId : Claim(t)
  \/ \E t \in TaskId : ClaimFault(t)
  \/ Abandon
  \/ \E t \in TaskId, o \in {"Success", "Error"} : Complete(t, o)
  \/ \E t \in TaskId, o \in {"Success", "Error"} : CompleteFault(t, o)
  \/ \E t \in TaskId : Acknowledge(t)
  \/ RemoveArchived
  \/ RemoveFault
  \/ PendingReadFault

Spec == Init /\ [][Next]_vars

-----------------------------------------------------------------------------
(* Properties.                                                             *)

\* Claim never returns normally twice for one id, whatever crashes and failed
\* writes happen in between: a script the agent may have started is never
\* started again (ExecutionJournal.cs:17-18).
GrantedAtMostOnce == \A t \in TaskId : granted[t] <= 1

\* An id whose claim was granted is remembered on disk in one of its two places
\* at every instant, also between the two file operations of Archive.
NothingForgotten ==
  \A t \in TaskId : granted[t] > 0 => disk[t] # "absent" \/ t \in archived

\* A running agent that still polls can deliver every undelivered result it has
\* on disk without a restart: a failed archive step loses no result.
ResultsDeliverable ==
  phase = "up" /\ ~fault =>
    \A t \in TaskId : disk[t] = "result" => Deliverable(t)

\* The active journal never holds more than MaxPending records, so that the
\* constructor, which throws above that number, can always open it again.
ActiveBounded == Cardinality(Active) <= MaxPending

\* How far t has got, read off its two files.
Stage(t) ==
  IF disk[t] # "absent" THEN disk[t]
  ELSE IF t \in archived THEN "acknowledged" ELSE "absent"

Ledger == INSTANCE TaskLedger WITH
  ledger <- [t \in TaskId |-> Stage(t)],
  outcome <- status

\* The files implement the ledger: a stage is never left backwards, an outcome
\* is recorded once and never changed.
ImplementsLedger == Ledger!LSpec
=============================================================================
