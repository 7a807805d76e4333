----------------------- MODULE ExecutionJournalProofs -----------------------
(***************************************************************************)
(* TLAPS proofs about ExecutionJournal, for every set of task ids, every   *)
(* capacity, and with or without failing writes.                           *)
(***************************************************************************)
EXTENDS ExecutionJournal, FiniteSetTheorems, TLAPS

\* The record being archived has its tombstone, and is no claim.
ArchivingInv ==
  archiving # NoTask =>
    /\ archiving \in archived
    /\ disk[archiving] \in {"result", "acknowledged"}
    /\ phase \in {"loading", "up"}
    /\ cache[archiving] = IF phase = "up" THEN "result" ELSE "absent"

\* A granted claim is on disk and in the dictionary until it is completed.
CurrentInv ==
  current # NoTask => phase = "up" /\ disk[current] = "claimed" /\ ~fault

\* What an entry of the dictionary says about the file behind it.
CacheInv ==
  \A t \in TaskId :
    /\ cache[t] = "claimed" => disk[t] = "claimed" \/ (fault /\ disk[t] = "result")
    /\ cache[t] = "result" => disk[t] = "result" \/ (disk[t] = "absent" /\ t \in archived)

\* What each phase of the process has established.
PhaseInv ==
  /\ fault => phase = "up"
  /\ phase = "down" => cache = EmptyCache
  /\ phase = "loading" => \A t \in TaskId : cache[t] \in {"absent", disk[t]}
  /\ phase \in {"recovering", "up"} /\ ~fault =>
       \A t \in TaskId : disk[t] = "result" => cache[t] = "result"

\* The inductive invariant.
IInv ==
  /\ TypeOK
  /\ GrantedAtMostOnce
  /\ NothingForgotten
  /\ ArchivingInv
  /\ CurrentInv
  /\ CacheInv
  /\ PhaseInv

-----------------------------------------------------------------------------
LEMMA InitEstablishesIInv == Init => IInv
<1> SUFFICES ASSUME Init PROVE IInv
  OBVIOUS
<1> USE NoTaskAssumption DEF Init
<1>1. \A t \in TaskId : granted[t] = IF disk[t] = "acknowledged" THEN 1 ELSE 0
  OBVIOUS
<1>2. granted \in [TaskId -> Nat]
  OBVIOUS
<1>3. \A t \in TaskId : disk[t] \in {"absent", "acknowledged"} /\ cache[t] = "absent"
  BY DEF EmptyCache
<1>4. TypeOK
  BY <1>2, <1>3 DEF TypeOK, RecordStates, Outcomes, Phases, EmptyCache
<1>5. GrantedAtMostOnce /\ NothingForgotten
  BY <1>1, <1>3 DEF GrantedAtMostOnce, NothingForgotten
<1>6. ArchivingInv /\ CurrentInv /\ CacheInv /\ PhaseInv
  BY <1>3 DEF ArchivingInv, CurrentInv, CacheInv, PhaseInv
<1>7. QED
  BY <1>4, <1>5, <1>6 DEF IInv

\* Every step of the journal preserves the invariant.
LEMMA NextPreservesIInv == IInv /\ [Next]_vars => IInv'
<1> SUFFICES ASSUME IInv, [Next]_vars PROVE IInv'
  OBVIOUS
<1> USE NoTaskAssumption DEF IInv, TypeOK, GrantedAtMostOnce, NothingForgotten, ArchivingInv,
     CurrentInv, CacheInv, PhaseInv, RecordStates, Outcomes, Phases, Deliverable
<1>1. CASE Crash
  BY <1>1 DEF Crash, Die, EmptyCache
<1>2. CASE Open
  BY <1>2 DEF Open, EmptyCache
<1>3. ASSUME NEW t \in TaskId, LoadRecord(t) PROVE IInv'
  BY <1>3 DEF LoadRecord, Active, Cached
<1>4. CASE LoadOverflow
  BY <1>4 DEF LoadOverflow, Die, EmptyCache
<1>5. ASSUME NEW t \in TaskId, MigrateRecord(t) PROVE IInv'
  BY <1>5 DEF MigrateRecord
<1>6. CASE Loaded
  BY <1>6 DEF Loaded, Active, Cached
<1>7. ASSUME NEW t \in TaskId, RecoverInterrupted(t) PROVE IInv'
  BY <1>7 DEF RecoverInterrupted, Interrupted
<1>8. CASE Recovered
  BY <1>8 DEF Recovered, Interrupted
<1>9. ASSUME NEW t \in TaskId, Claim(t) PROVE IInv'
  BY <1>9 DEF Claim, AtRest, Claimable
<1>10. ASSUME NEW t \in TaskId, ClaimFault(t) PROVE IInv'
  BY <1>10 DEF ClaimFault, AtRest, Claimable
<1>11. CASE Abandon
  BY <1>11 DEF Abandon
<1>12. ASSUME NEW t \in TaskId, NEW o \in {"Success", "Error"}, Complete(t, o) PROVE IInv'
  BY <1>12 DEF Complete
<1>13. ASSUME NEW t \in TaskId, NEW o \in {"Success", "Error"}, CompleteFault(t, o) PROVE IInv'
  BY <1>13 DEF CompleteFault
<1>14. ASSUME NEW t \in TaskId, Acknowledge(t) PROVE IInv'
  BY <1>14 DEF Acknowledge, AtRest, Deliverable
<1>15. CASE RemoveArchived
  BY <1>15 DEF RemoveArchived
<1>16. CASE RemoveFault
  <2>1. \A t \in TaskId : disk'[t] = disk[t] \/ (t \in archived /\ disk'[t] = "absent")
    BY <1>16 DEF RemoveFault
  <2>2. disk' \in [TaskId -> RecordStates] /\ UNCHANGED <<status, archived, granted>>
    BY <1>16 DEF RemoveFault
  <2>3. CASE phase = "loading"
    <3>1. Die
      BY <1>16, <2>3 DEF RemoveFault
    <3>2. TypeOK' /\ ArchivingInv' /\ CurrentInv' /\ CacheInv' /\ PhaseInv'
      BY <2>2, <3>1 DEF Die, EmptyCache
    <3>3. GrantedAtMostOnce' /\ NothingForgotten'
      BY <2>1, <2>2
    <3>4. QED
      BY <3>2, <3>3
  <2>4. CASE phase # "loading"
    <3>1. archiving' = NoTask /\ UNCHANGED <<cache, phase, current, fault>>
      BY <1>16, <2>4 DEF RemoveFault
    <3>2. current # NoTask => disk'[current] = "claimed"
      BY <1>16 DEF RemoveFault
    <3>3. TypeOK' /\ ArchivingInv' /\ CurrentInv'
      BY <2>2, <3>1, <3>2
    <3>4. GrantedAtMostOnce' /\ NothingForgotten'
      BY <2>1, <2>2
    <3>5. \A t \in TaskId : cache[t] = "claimed" => disk'[t] = disk[t]
      BY <1>16 DEF RemoveFault
    <3>6. CacheInv'
      BY <2>1, <2>2, <3>1, <3>5
    <3>7. PhaseInv'
      BY <2>1, <2>2, <2>4, <3>1
    <3>8. QED
      BY <3>3, <3>4, <3>6, <3>7
  <2>5. QED
    BY <2>3, <2>4
<1>17. CASE PendingReadFault
  BY <1>17 DEF PendingReadFault, Die, EmptyCache
<1>18. CASE UNCHANGED vars
  BY <1>18 DEF vars
<1>19. QED
  BY <1>1, <1>2, <1>3, <1>4, <1>5, <1>6, <1>7, <1>8, <1>9, <1>10, <1>11, <1>12, <1>13, <1>14, <1>15, <1>16, <1>17, <1>18 DEF Next

-----------------------------------------------------------------------------
\* The invariant holds in every reachable state.
THEOREM JournalInvariant == Spec => []IInv
  BY InitEstablishesIInv, NextPreservesIInv, PTL DEF Spec

\* Every reachable state of the journal is well typed.
THEOREM JournalTypeCorrect == Spec => []TypeOK
<1>1. IInv => TypeOK
  BY DEF IInv
<1>2. QED
  BY <1>1, JournalInvariant, PTL

\* However often the agent dies and whichever of its writes fail, no task id is
\* granted to the executing worker a second time.
THEOREM JournalGrantsOnce == Spec => []GrantedAtMostOnce
<1>1. IInv => GrantedAtMostOnce
  BY DEF IInv
<1>2. QED
  BY <1>1, JournalInvariant, PTL

\* A granted id is on disk as an active record or as a tombstone at every instant.
THEOREM JournalForgetsNothing == Spec => []NothingForgotten
<1>1. IInv => NothingForgotten
  BY DEF IInv
<1>2. QED
  BY <1>1, JournalInvariant, PTL

\* Failed archive steps leave every undelivered result in the delivery queue.
THEOREM JournalKeepsResultsDeliverable == Spec => []ResultsDeliverable
<1>1. IInv => ResultsDeliverable
  BY DEF IInv, PhaseInv, ResultsDeliverable, Deliverable
<1>2. QED
  BY <1>1, JournalInvariant, PTL

-----------------------------------------------------------------------------
(* The capacity, as long as no file operation throws.                      *)

BoundInv ==
  /\ IsFiniteSet(Active)
  /\ ActiveBounded
  /\ ~fault
  /\ phase \in {"recovering", "up"} => Active = Cached

LEMMA BoundPreserved ==
  ASSUME ~WriteFaults, IInv, BoundInv, [Next]_vars PROVE BoundInv'
<1> USE DEF IInv, TypeOK, BoundInv, ActiveBounded
<1>1. CASE Crash \/ Open \/ LoadOverflow \/ PendingReadFault \/ Abandon \/ Recovered \/ UNCHANGED vars
  BY <1>1 DEF Crash, Open, LoadOverflow, PendingReadFault, Abandon, Recovered, Die, vars,
     Active, Cached
<1>2. ASSUME NEW t \in TaskId, LoadRecord(t) \/ MigrateRecord(t) PROVE BoundInv'
  <2>1. phase = "loading" /\ phase' = phase /\ fault' = fault
    BY <1>2 DEF LoadRecord, MigrateRecord
  <2>2. Active' = Active
    BY <1>2 DEF LoadRecord, MigrateRecord, Active
  <2> QED
    BY <2>1, <2>2
<1>3. CASE Loaded
  BY <1>3 DEF Loaded, Active, Cached
<1>4. ASSUME NEW t \in TaskId, NEW o \in Outcomes,
             RecoverInterrupted(t) \/ Complete(t, o) \/ Acknowledge(t) PROVE BoundInv'
  <2>1. Active' = Active /\ fault' = fault
    BY <1>4 DEF RecoverInterrupted, Complete, Acknowledge, Active
  <2>2. phase \in {"recovering", "up"} => Cached' = Cached
    BY <1>4 DEF RecoverInterrupted, Interrupted, Complete, Acknowledge, Active, Cached
  <2>3. QED
    BY <1>4, <2>1, <2>2 DEF RecoverInterrupted, Complete, Acknowledge
<1>5. ASSUME NEW t \in TaskId, Claim(t) PROVE BoundInv'
  <2>1. Active' = Active \cup {t} /\ Cached' = Cached \cup {t}
    BY <1>5 DEF Claim, Active, Cached
  <2>2. Active = Cached /\ Cardinality(Active) < MaxPending /\ t \notin Active
    BY <1>5 DEF Claim, AtRest, Claimable, Active
  <2>3. Cardinality(Active) \in Nat
    BY FS_CardinalityType
  <2>4. IsFiniteSet(Active') /\ Cardinality(Active') = Cardinality(Active) + 1
    BY <2>1, <2>2, FS_AddElement
  <2>5. Cardinality(Active') <= MaxPending
    BY <2>2, <2>3, <2>4, MaxPendingAssumption
  <2>6. QED
    BY <1>5, <2>1, <2>2, <2>4, <2>5 DEF Claim
<1>6. CASE RemoveArchived
  <2>1. Active' = Active \ {archiving}
    BY <1>6 DEF RemoveArchived, Active
  <2>2. Cached' = Cached \ {archiving}
    BY <1>6 DEF RemoveArchived, Cached
  <2>3. Active' \in SUBSET Active
    BY <2>1
  <2>4. IsFiniteSet(Active') /\ Cardinality(Active') <= Cardinality(Active)
    BY <2>3, FS_Subset
  <2>5. Cardinality(Active) \in Nat /\ Cardinality(Active') \in Nat
    BY <2>4, FS_CardinalityType
  <2>6. Cardinality(Active') <= MaxPending
    BY <2>4, <2>5, MaxPendingAssumption
  <2>7. QED
    BY <1>6, <2>1, <2>2, <2>4, <2>6 DEF RemoveArchived
<1>7. CASE RemoveFault \/ \E t \in TaskId : ClaimFault(t) \/ \E o \in Outcomes : CompleteFault(t, o)
  BY <1>7 DEF RemoveFault, ClaimFault, CompleteFault
<1>8. QED
  BY <1>1, <1>2, <1>3, <1>4, <1>5, <1>6, <1>7 DEF Next, Outcomes

\* As long as no file operation throws, the journal never holds more undelivered
\* records than its constructor is able to load again.
THEOREM JournalBounded == ~WriteFaults => (Spec => []ActiveBounded)
<1> SUFFICES ASSUME ~WriteFaults PROVE Spec => []ActiveBounded
  OBVIOUS
<1>1. Init => BoundInv
  <2> SUFFICES ASSUME Init PROVE BoundInv
    OBVIOUS
  <2>1. Active = {}
    BY DEF Init, Active
  <2>2. QED
    BY <2>1, FS_EmptySet, MaxPendingAssumption DEF BoundInv, ActiveBounded, Init
<1>2. IInv /\ BoundInv /\ [Next]_vars => BoundInv'
  BY BoundPreserved
<1>3. BoundInv => ActiveBounded
  BY DEF BoundInv
<1>4. QED
  BY <1>1, <1>2, <1>3, JournalInvariant, PTL DEF Spec

-----------------------------------------------------------------------------
(* Refinement of TaskLedger.                                               *)

\* A step that changes neither the files nor the outcomes is a stutter.
LEMMA SameFilesSameLedger ==
  ASSUME UNCHANGED <<disk, status, archived>>
  PROVE  UNCHANGED Ledger!lvars
  BY DEF Ledger!lvars, Stage

\* A step that moves one id to another stage changes only that id of the ledger.
LEMMA OneStageMoves ==
  ASSUME NEW t \in TaskId, NEW stage,
         \A u \in TaskId \ {t} : Stage(u)' = Stage(u),
         Stage(t)' = stage
  PROVE  [u \in TaskId |-> Stage(u)]' = [[u \in TaskId |-> Stage(u)] EXCEPT ![t] = stage]
  OBVIOUS

LEMMA InitRefines == Init => Ledger!LInit
  BY DEF Init, Ledger!LInit, Stage

LEMMA NextRefines == IInv /\ [Next]_vars => [Ledger!LNext]_(Ledger!lvars)
<1> SUFFICES ASSUME IInv, [Next]_vars PROVE [Ledger!LNext]_(Ledger!lvars)
  OBVIOUS
<1> USE DEF IInv, TypeOK, RecordStates
<1>1. CASE UNCHANGED <<disk, status, archived>>
  BY <1>1, SameFilesSameLedger
<1>2. ASSUME NEW t \in TaskId, MigrateRecord(t) PROVE UNCHANGED Ledger!lvars
  BY <1>2 DEF MigrateRecord, Ledger!lvars, Stage
<1>3. ASSUME NEW t \in TaskId, RecoverInterrupted(t) PROVE Ledger!LFinish(t, "Unknown")
  <2>1. Stage(t)' = "result" /\ Stage(t) = "claimed"
    BY <1>3 DEF RecoverInterrupted, Stage
  <2>2. \A u \in TaskId \ {t} : Stage(u)' = Stage(u)
    BY <1>3 DEF RecoverInterrupted, Stage
  <2>3. status' = [status EXCEPT ![t] = "Unknown"]
    BY <1>3 DEF RecoverInterrupted
  <2>4. QED
    BY <2>1, <2>2, <2>3, OneStageMoves DEF Ledger!LFinish
<1>4. ASSUME NEW t \in TaskId, Claim(t) \/ ClaimFault(t) PROVE Ledger!LClaim(t)
  <2>1. Stage(t)' = "claimed" /\ Stage(t) = "absent"
    BY <1>4 DEF Claim, ClaimFault, Claimable, Stage
  <2>2. \A u \in TaskId \ {t} : Stage(u)' = Stage(u)
    BY <1>4 DEF Claim, ClaimFault, Stage
  <2>3. UNCHANGED status
    BY <1>4 DEF Claim, ClaimFault
  <2>4. QED
    BY <2>1, <2>2, <2>3, OneStageMoves DEF Ledger!LClaim
<1>5. ASSUME NEW t \in TaskId, NEW o \in {"Success", "Error"},
             Complete(t, o) \/ CompleteFault(t, o)
      PROVE  Ledger!LFinish(t, o) \/ UNCHANGED <<disk, status, archived>>
  <2>1. ASSUME disk' = [disk EXCEPT ![t] = "result"],
               status' = [status EXCEPT ![t] = o],
               disk[t] = "claimed", archived' = archived
        PROVE  Ledger!LFinish(t, o)
    <3>1. Stage(t)' = "result" /\ Stage(t) = "claimed"
      BY <2>1 DEF Stage
    <3>2. \A u \in TaskId \ {t} : Stage(u)' = Stage(u)
      BY <2>1 DEF Stage
    <3>3. QED
      BY <2>1, <3>1, <3>2, OneStageMoves DEF Ledger!LFinish
  <2>2. QED
    BY <1>5, <2>1 DEF Complete, CompleteFault
<1>6. ASSUME NEW t \in TaskId, Acknowledge(t) PROVE UNCHANGED Ledger!lvars
  BY <1>6 DEF Acknowledge, Ledger!lvars, Stage
<1>7. ASSUME NEW a \in TaskId, archiving = a, RemoveArchived \/ RemoveFault
      PROVE  Ledger!LAcknowledge(a) \/ UNCHANGED Ledger!lvars
  <2>1. /\ a \in archived
        /\ disk[a] \in {"result", "acknowledged"}
        /\ UNCHANGED <<status, archived>>
        /\ disk' = [disk EXCEPT ![a] = "absent"] \/ disk' = disk
    BY <1>7 DEF RemoveArchived, RemoveFault, ArchivingInv
  <2>2. CASE disk' = disk
    BY <2>1, <2>2, SameFilesSameLedger
  <2>3. CASE disk' = [disk EXCEPT ![a] = "absent"]
    <3>1. \A u \in TaskId \ {a} : Stage(u)' = Stage(u)
      BY <2>1, <2>3 DEF Stage
    <3>2. Stage(a)' = "acknowledged" /\ Stage(a) = disk[a]
      BY <2>1, <2>3 DEF Stage
    <3>3. CASE disk[a] = "result"
      BY <2>1, <3>1, <3>2, <3>3, OneStageMoves DEF Ledger!LAcknowledge
    <3>4. CASE disk[a] = "acknowledged"
      BY <2>1, <3>1, <3>2, <3>4 DEF Ledger!lvars
    <3>5. QED
      BY <2>1, <3>3, <3>4
  <2>4. QED
    BY <2>1, <2>2, <2>3
<1>8. QED
  <2>1. ASSUME Crash \/ Open \/ LoadOverflow \/ Loaded \/ Recovered \/ Abandon
               \/ PendingReadFault \/ UNCHANGED vars
               \/ \E t \in TaskId : LoadRecord(t)
        PROVE  UNCHANGED <<disk, status, archived>>
    BY <2>1 DEF Crash, Open, LoadOverflow, Loaded, Recovered, Abandon,
       PendingReadFault, LoadRecord, vars
  <2>2. RemoveArchived \/ RemoveFault => archiving \in TaskId
    BY DEF RemoveArchived, RemoveFault
  <2>3. QED
    BY <1>1, <1>2, <1>3, <1>4, <1>5, <1>6, <1>7, <2>1, <2>2
       DEF Next, Ledger!LNext, Outcomes

\* The journal's files implement the ledger: a stage is never left backwards and
\* an outcome, once recorded, never changes.
THEOREM JournalImplementsLedger == Spec => ImplementsLedger
  BY InitRefines, NextRefines, JournalInvariant, PTL DEF Spec, ImplementsLedger, Ledger!LSpec
=============================================================================
