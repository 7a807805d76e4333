------------------------- MODULE AgentRolloutProofs -------------------------
(***************************************************************************)
(* Proofs about AgentRollout: types, what a closed rollout never does,     *)
(* that no host is updated twice, and how many a completed rollout may     *)
(* have missed, for any number of hosts and checkers and any size of the   *)
(* waves.                                                                  *)
(***************************************************************************)
EXTENDS AgentRollout, FunctionTheorems, FiniteSetTheorems, TLAPS

\* The tasks of a host as a transaction sees them: committed ones and its own.
Tasks(committed, own) == [h \in Host |-> committed[h] + own[h]]

\* The lock: at most one transaction, and only of a running rollout.
LockInv ==
  /\ \A c, d \in ticking : c = d
  /\ ticking # {} => row.status = "Running"
  /\ \A c \in ticking : draft[c].status # "none"
  /\ \A c \in Checker \ ticking : fresh[c] = NoTasks
  /\ row.status = "none" => sent = NoTasks

Packaged(S, P) == {h \in S : PlatformOf[h] \in P}

\* The updated hosts of a plan stand before its wave n.
Behind(plan, n, tasks) ==
  \A h \in plan : tasks[h] > 0 => Rank(h, plan) < (n - 1) * WaveSize

Single(tasks) == \A h \in Host : tasks[h] <= 1

RankInv ==
  ~returned =>
    /\ Single(sent)
    /\ row.status = "Running" => Behind(Packaged(row.targets, packages), row.next, sent)
    /\ \A c \in ticking :
         /\ Single(Tasks(sent, fresh[c]))
         /\ draft[c].status = "Running" =>
              Behind(Packaged(draft[c].targets, packages), draft[c].next, Tasks(sent, fresh[c]))

IInv == TypeOK /\ LockInv /\ RankInv

-----------------------------------------------------------------------------
(* Ranks and waves.                                                        *)

LEMMA RankType ==
  ASSUME NEW S \in SUBSET Host, NEW h \in Host
  PROVE  Rank(h, S) \in Nat
<1>1. IsFiniteSet({g \in S : g < h})
  BY HostAssumption, FS_Subset
<1> QED
  BY <1>1, FS_CardinalityType DEF Rank

\* A host can only move forward when the plan shrinks.
LEMMA RankMonotone ==
  ASSUME NEW T \in SUBSET Host, NEW S \in SUBSET T, NEW h \in Host
  PROVE  Rank(h, S) <= Rank(h, T)
<1>1. IsFiniteSet({g \in T : g < h})
  BY HostAssumption, FS_Subset
<1>2. {g \in S : g < h} \subseteq {g \in T : g < h}
  OBVIOUS
<1> QED
  BY <1>1, <1>2, FS_Subset DEF Rank

LEMMA NextSlice ==
  ASSUME NEW n \in Nat
  PROVE  /\ (n + 1 - 1) * WaveSize = n * WaveSize
         /\ (n - 1) * WaveSize <= n * WaveSize
         /\ n * WaveSize \in Int /\ (n - 1) * WaveSize \in Int
<1>1. (n - 1) * WaveSize = n * WaveSize - WaveSize
  BY SizeAssumption
<1>2. n + 1 - 1 = n
  OBVIOUS
<1>3. n * WaveSize \in Int
  BY SizeAssumption
<1> QED
  BY <1>1, <1>2, <1>3, SizeAssumption

\* A smaller plan, the same tasks and the same wave: what was behind stays behind.
LEMMA BehindShrinks ==
  ASSUME NEW T \in SUBSET Host, NEW S \in SUBSET T, NEW n \in Nat,
         NEW tasks \in [Host -> Nat], Behind(T, n, tasks)
  PROVE  Behind(S, n, tasks)
<1> SUFFICES ASSUME NEW h \in S, tasks[h] > 0
             PROVE  Rank(h, S) < (n - 1) * WaveSize
  BY DEF Behind
<1>1. Rank(h, S) <= Rank(h, T)
  BY RankMonotone
<1>2. Rank(h, T) < (n - 1) * WaveSize
  BY DEF Behind
<1>3. Rank(h, T) \in Nat /\ Rank(h, S) \in Nat
  BY RankType
<1> QED
  BY <1>1, <1>2, <1>3, NextSlice

\* The next wave takes no host that was updated, and leaves all it took behind.
LEMMA BehindWave ==
  ASSUME NEW S \in SUBSET Host, NEW n \in Nat, NEW tasks \in [Host -> Nat],
         NEW more \in [Host -> Nat],
         \A h \in Host : more[h] = IF h \in Wave(S, n) THEN tasks[h] + 1 ELSE tasks[h],
         Behind(S, n, tasks), Single(tasks)
  PROVE  Single(more) /\ Behind(S, n + 1, more)
<1>1. ASSUME NEW h \in Wave(S, n) PROVE tasks[h] = 0
  <2>1. h \in S /\ (n - 1) * WaveSize <= Rank(h, S)
    BY DEF Wave
  <2>2. ~(Rank(h, S) < (n - 1) * WaveSize)
    BY <2>1, RankType, NextSlice
  <2> QED
    BY <2>1, <2>2 DEF Behind
<1>2. Single(more)
  BY <1>1 DEF Single
<1>3. ASSUME NEW h \in S, more[h] > 0 PROVE Rank(h, S) < (n + 1 - 1) * WaveSize
  <2>1. Rank(h, S) \in Nat
    BY RankType
  <2>2. CASE h \in Wave(S, n)
    BY <2>2, NextSlice DEF Wave
  <2>3. CASE h \notin Wave(S, n)
    <3>1. Rank(h, S) < (n - 1) * WaveSize
      BY <1>3, <2>3 DEF Behind
    <3> QED
      BY <2>1, <3>1, NextSlice
  <2> QED
    BY <2>2, <2>3
<1> QED
  BY <1>2, <1>3 DEF Behind

-----------------------------------------------------------------------------
(* Types.                                                                  *)

LEMMA BlankTyped == Blank \in Row /\ NoTasks \in [Host -> Nat]
  BY DEF Blank, Row, Statuses, NoTasks

LEMMA InitTyped == Init => TypeOK
<1> SUFFICES ASSUME Init PROVE TypeOK
  OBVIOUS
<1>1. made \in [Checker -> 0..MaxWavesPerTick] /\ \A c \in Checker : made[c] = 0
  BY SizeAssumption DEF Init
<1> QED
  BY <1>1, BlankTyped DEF Init, TypeOK

\* What a step that makes no wave leaves of the transaction's row.
LEMMA QuietDraft ==
  ASSUME TypeOK, NEW c \in Checker, ReasonRequired(c) \/ NothingLeft(c)
  PROVE  \E r \in Row :
           /\ draft' = [draft EXCEPT ![c] = r]
           /\ r.status \in {"Reason required", "Completed"}
<1> DEFINE blocked == [draft[c] EXCEPT !.status = "Reason required", !.due = FALSE]
           closed == [draft[c] EXCEPT !.status = "Completed", !.targets = @ \cap exists]
<1>1. blocked \in Row /\ closed \in Row
  BY DEF TypeOK, Row, Statuses
<1>2. blocked.status = "Reason required" /\ closed.status = "Completed"
  BY DEF TypeOK, Row
<1>3. draft' = [draft EXCEPT ![c] = blocked] \/ draft' = [draft EXCEPT ![c] = closed]
  BY DEF ReasonRequired, NothingLeft
<1> QED
  BY <1>1, <1>2, <1>3

LEMMA NextTyped == TypeOK /\ [Next]_vars => TypeOK'
<1> SUFFICES ASSUME TypeOK, [Next]_vars PROVE TypeOK'
  OBVIOUS
<1> USE SizeAssumption DEF TypeOK, tick, history
<1>1. CASE Launch
  <2>1. PICK targets \in SUBSET Host :
          row' = [status |-> "Running", next |-> 1, targets |-> targets, due |-> TRUE]
          /\ requested' = targets
    BY <1>1 DEF Launch, Plan
  <2>2. row' \in Row
    BY <2>1 DEF Row, Statuses
  <2> QED
    BY <1>1, <2>1, <2>2 DEF Launch
<1>2. CASE TimePasses \/ Cancel
  BY <1>2 DEF TimePasses, Cancel, Row, Statuses
<1>3. ASSUME NEW h \in Host, DeleteHost(h) \/ EnrolHost(h) PROVE TypeOK'
  BY <1>3 DEF DeleteHost, EnrolHost, Lose
<1>4. ASSUME NEW p \in Platform, WithdrawPackage(p) \/ UploadPackage(p) PROVE TypeOK'
  BY <1>4 DEF WithdrawPackage, UploadPackage, Lose
<1>5. ASSUME NEW c \in Checker, TickBegins(c) PROVE TypeOK'
  BY <1>5 DEF TickBegins
<1>6. ASSUME NEW c \in Checker, ReasonRequired(c) \/ NothingLeft(c) PROVE TypeOK'
  <2>1. \E r \in Row : draft' = [draft EXCEPT ![c] = r]
    BY <1>6, QuietDraft
  <2>2. draft' \in [Checker -> Row]
    BY <2>1
  <2> QED
    BY <1>6, <2>2 DEF ReasonRequired, NothingLeft
<1>7. ASSUME NEW c \in Checker, MakeWave(c) PROVE TypeOK'
  <2> DEFINE status == IF draft[c].next < WaveTotal(Plan(draft[c].targets))
                       THEN "Running" ELSE "Completed"
  <2>1. PICK due \in BOOLEAN :
          draft' = [draft EXCEPT ![c] = [status |-> status, next |-> draft[c].next + 1,
                                         targets |-> draft[c].targets \cap exists, due |-> due]]
    <3>1. PICK due \in IF draft[c].next < WaveTotal(Plan(draft[c].targets))
                       THEN BOOLEAN ELSE {TRUE} :
            draft' = [draft EXCEPT ![c] = [status |-> status, next |-> draft[c].next + 1,
                                           targets |-> draft[c].targets \cap exists, due |-> due]]
      BY <1>7 DEF MakeWave
    <3>2. due \in BOOLEAN
      OBVIOUS
    <3> QED
      BY <3>1, <3>2
  <2>2. draft' \in [Checker -> Row]
    <3>1. status \in Statuses
      BY DEF Statuses
    <3>2. draft[c].next \in Nat /\ draft[c].targets \in SUBSET Host
      BY DEF Row
    <3> HIDE DEF status
    <3>3. [status |-> status, next |-> draft[c].next + 1,
           targets |-> draft[c].targets \cap exists, due |-> due] \in Row
      BY <3>1, <3>2 DEF Row
    <3> QED
      BY <2>1, <3>3
  <2>3. made' \in [Checker -> 0..MaxWavesPerTick]
    BY <1>7 DEF MakeWave, MoreWaves
  <2>4. fresh' \in [Checker -> [Host -> Nat]]
    BY <1>7 DEF MakeWave
  <2> QED
    BY <1>7, <2>2, <2>3, <2>4 DEF MakeWave
<1>8. ASSUME NEW c \in Checker, Commit(c) \/ Rollback(c) PROVE TypeOK'
  <2>1. Blank \in Row /\ NoTasks \in [Host -> Nat]
    BY BlankTyped
  <2>2. Release(c)
    BY <1>8 DEF Commit, Rollback
  <2>3. row' \in Row /\ sent' \in [Host -> Nat]
    BY <1>8 DEF Commit, Rollback
  <2> QED
    BY <1>8, <2>1, <2>2, <2>3 DEF Commit, Rollback, Release
<1>9. CASE UNCHANGED vars
  BY <1>9 DEF vars
<1> QED
  BY <1>1, <1>2, <1>3, <1>4, <1>5, <1>6, <1>7, <1>8, <1>9 DEF Next, Environment, ProcessOne

-----------------------------------------------------------------------------
(* The lock.                                                               *)

LEMMA InitLocked == Init => LockInv
  BY DEF Init, LockInv, Blank

LEMMA NextLocked == TypeOK /\ LockInv /\ [Next]_vars => LockInv'
<1> SUFFICES ASSUME TypeOK, LockInv, [Next]_vars PROVE LockInv'
  OBVIOUS
<1> USE DEF TypeOK, LockInv, tick, history
<1>1. CASE Launch \/ TimePasses \/ Cancel
  <2>1. UNCHANGED <<sent, ticking, fresh, draft>>
    BY <1>1 DEF Launch, TimePasses, Cancel
  <2>2. row'.status # "none" /\ (ticking # {} => row'.status = "Running")
    <3>1. CASE Launch
      BY <3>1 DEF Launch
    <3>2. CASE TimePasses
      BY <3>2 DEF TimePasses, Row
    <3>3. CASE Cancel
      BY <3>3 DEF Cancel, Row
    <3> QED
      BY <1>1, <3>1, <3>2, <3>3
  <2> QED
    BY <2>1, <2>2
<1>2. ASSUME NEW h \in Host, DeleteHost(h) \/ EnrolHost(h) PROVE LockInv'
  BY <1>2 DEF DeleteHost, EnrolHost, Lose
<1>3. ASSUME NEW p \in Platform, WithdrawPackage(p) \/ UploadPackage(p) PROVE LockInv'
  BY <1>3 DEF WithdrawPackage, UploadPackage, Lose
<1>4. ASSUME NEW c \in Checker, TickBegins(c) PROVE LockInv'
  BY <1>4 DEF TickBegins
<1>5. ASSUME NEW c \in Checker, ProcessOne(c) PROVE LockInv'
  <2>1. /\ UNCHANGED <<row, sent, ticking>> /\ c \in ticking
        /\ \A d \in Checker \ {c} : fresh'[d] = fresh[d] /\ draft'[d] = draft[d]
    BY <1>5 DEF ProcessOne, ReasonRequired, NothingLeft, MakeWave
  <2>2. draft'[c].status # "none"
    <3>1. CASE ReasonRequired(c) \/ NothingLeft(c)
      <4>1. PICK r \in Row : /\ draft' = [draft EXCEPT ![c] = r]
                            /\ r.status \in {"Reason required", "Completed"}
        BY <3>1, QuietDraft
      <4>2. draft'[c] = r
        BY <4>1
      <4> QED
        BY <4>1, <4>2
    <3>2. CASE MakeWave(c)
      <4>1. draft'[c].status =
              IF draft[c].next < WaveTotal(Plan(draft[c].targets)) THEN "Running" ELSE "Completed"
        BY <3>2 DEF MakeWave
      <4> QED
        BY <4>1
    <3> QED
      BY <1>5, <3>1, <3>2 DEF ProcessOne
  <2> QED
    BY <2>1, <2>2
<1>6. ASSUME NEW c \in Checker, Commit(c) \/ Rollback(c) PROVE LockInv'
  <2>1. ticking = {c} /\ ticking' = {} /\ row.status = "Running"
    BY <1>6 DEF Commit, Rollback, Release
  <2>2. \A d \in Checker : fresh'[d] = NoTasks
    BY <1>6, <2>1 DEF Commit, Rollback, Release
  <2>3. row'.status = "none" => sent' = NoTasks
    <3>1. CASE Commit(c)
      BY <2>1, <3>1 DEF Commit
    <3> QED
      BY <1>6, <2>1, <3>1 DEF Rollback
  <2> QED
    BY <2>1, <2>2, <2>3
<1>7. CASE UNCHANGED vars
  BY <1>7 DEF vars
<1> QED
  BY <1>1, <1>2, <1>3, <1>4, <1>5, <1>6, <1>7 DEF Next, Environment

-----------------------------------------------------------------------------
(* The waves.                                                              *)

LEMMA InitRanked == Init => RankInv
<1> SUFFICES ASSUME Init PROVE RankInv
  OBVIOUS
<1>1. sent = NoTasks /\ ticking = {} /\ row.status = "none"
  BY DEF Init, Blank
<1> QED
  BY <1>1 DEF RankInv, Single, NoTasks

\* Hosts and packages that leave make the plans smaller.
LEMMA EnvironmentRanked ==
  ASSUME IInv, Environment PROVE RankInv'
<1> SUFFICES ASSUME ~returned' PROVE RankInv'
  BY DEF RankInv
<1> USE DEF IInv, TypeOK, tick, history
<1>1. ~returned /\ UNCHANGED <<sent, tick>>
  BY DEF Environment, Launch, TimePasses, Cancel, DeleteHost, EnrolHost, WithdrawPackage,
     UploadPackage, Lose
<1>2. CASE Launch
  <2>1. ticking' = {} /\ \A h \in Host : sent'[h] = 0
    BY <1>1, <1>2 DEF Launch, LockInv, NoTasks
  <2>2. Packaged(row'.targets, packages') \subseteq Host
    <3>1. PICK targets \in SUBSET Host :
            row' = [status |-> "Running", next |-> 1, targets |-> targets, due |-> TRUE]
      BY <1>2 DEF Launch, Plan
    <3> QED
      BY <3>1 DEF Packaged
  <2>3. Single(sent') /\ Behind(Packaged(row'.targets, packages'), row'.next, sent')
    BY <2>1, <2>2 DEF Single, Behind
  <2> QED
    BY <2>1, <2>3 DEF RankInv, Single
<1>3. CASE TimePasses \/ Cancel
  <2>1. /\ row'.status = "Running" => row.status = "Running"
        /\ row'.targets = row.targets /\ row'.next = row.next
        /\ UNCHANGED packages
    BY <1>3 DEF TimePasses, Cancel, Row
  <2> QED
    BY <1>1, <2>1 DEF RankInv, Single, Packaged, Tasks
<1>4. ASSUME NEW h \in Host, DeleteHost(h) \/ EnrolHost(h) PROVE RankInv'
  BY <1>1, <1>4 DEF DeleteHost, EnrolHost, Lose, RankInv, Single, Packaged, Tasks
<1>5. ASSUME NEW p \in Platform, WithdrawPackage(p) PROVE RankInv'
  <2>1. packages' \subseteq packages /\ UNCHANGED row
    BY <1>5 DEF WithdrawPackage, Lose
  <2>2. \A T \in SUBSET Host : Packaged(T, packages') \subseteq Packaged(T, packages) /\ Packaged(T, packages) \in SUBSET Host
    BY <2>1 DEF Packaged
  <2>3. row.status = "Running" => Behind(Packaged(row.targets, packages'), row.next, sent)
    <3>1. row.next \in Nat /\ row.targets \in SUBSET Host
      BY DEF Row
    <3> QED
      BY <1>1, <2>1, <2>2, <3>1, BehindShrinks DEF RankInv
  <2>4. ASSUME NEW c \in ticking, draft[c].status = "Running"
        PROVE  Behind(Packaged(draft[c].targets, packages'), draft[c].next, Tasks(sent, fresh[c]))
    <3>1. draft[c].next \in Nat /\ draft[c].targets \in SUBSET Host
      BY DEF Row
    <3>2. Tasks(sent, fresh[c]) \in [Host -> Nat]
      BY DEF Tasks
    <3>3. Packaged(draft[c].targets, packages') \subseteq Packaged(draft[c].targets, packages)
      BY <1>1, <2>1 DEF Packaged
    <3>4. Behind(Packaged(draft[c].targets, packages), draft[c].next, Tasks(sent, fresh[c]))
      BY <1>1, <2>4 DEF RankInv
    <3>5. Packaged(draft[c].targets, packages) \in SUBSET Host
      BY <3>1 DEF Packaged
    <3> HIDE DEF IInv, TypeOK
    <3> QED
      BY <3>1, <3>2, <3>3, <3>4, <3>5, BehindShrinks
  <2> QED
    BY <1>1, <2>1, <2>3, <2>4 DEF RankInv, Single, Tasks
<1>6. ASSUME NEW p \in Platform, UploadPackage(p) PROVE RankInv'
  <2>1. row.status # "Running" /\ UNCHANGED row
    BY <1>6 DEF UploadPackage
  <2>2. ticking = {}
    BY <2>1 DEF LockInv
  <2> QED
    BY <1>1, <2>1, <2>2 DEF RankInv, Single
<1> QED
  BY <1>2, <1>3, <1>4, <1>5, <1>6 DEF Environment

LEMMA WaveRanked ==
  ASSUME IInv, NEW c \in Checker, MakeWave(c) PROVE RankInv'
<1> SUFFICES ASSUME ~returned PROVE RankInv'
  BY DEF RankInv, MakeWave, history
<1> USE DEF IInv, TypeOK
<1> DEFINE plan == Plan(draft[c].targets)
           next == draft[c].next
<1>1. /\ c \in ticking /\ ticking = {c}
      /\ UNCHANGED <<row, sent, packages, ticking>>
  BY DEF MakeWave, LockInv
<1>2. /\ next \in Nat /\ draft[c].targets \in SUBSET Host
      /\ plan \in SUBSET Host /\ plan \subseteq Packaged(draft[c].targets, packages)
      /\ Packaged(draft[c].targets, packages) \in SUBSET Host
  BY DEF Row, Plan, Packaged
<1>3. Tasks(sent, fresh[c]) \in [Host -> Nat] /\ Tasks(sent', fresh'[c]) \in [Host -> Nat]
  <2>1. fresh' \in [Checker -> [Host -> Nat]]
    BY DEF MakeWave
  <2> QED
    BY <1>1, <2>1 DEF Tasks
<1>4. Behind(plan, next, Tasks(sent, fresh[c])) /\ Single(Tasks(sent, fresh[c]))
  <2>1. draft[c].status = "Running"
    BY DEF MakeWave, MoreWaves
  <2>2. Behind(Packaged(draft[c].targets, packages), next, Tasks(sent, fresh[c])) /\ Single(Tasks(sent, fresh[c]))
    BY <1>1, <2>1 DEF RankInv
  <2> HIDE DEF IInv, TypeOK, plan, next
  <2> QED
    BY <1>2, <1>3, <2>2, BehindShrinks
<1>5. \A h \in Host :
        Tasks(sent', fresh'[c])[h] = IF h \in Wave(plan, next) THEN Tasks(sent, fresh[c])[h] + 1 ELSE Tasks(sent, fresh[c])[h]
  <2>1. \A h \in Host :
          fresh'[c][h] = IF h \in Wave(plan, next) THEN fresh[c][h] + 1 ELSE fresh[c][h]
    BY DEF MakeWave
  <2>2. \A h \in Host : sent[h] \in Nat /\ fresh[c][h] \in Nat
    OBVIOUS
  <2>3. \A h \in Host : /\ Tasks(sent', fresh'[c])[h] = sent[h] + fresh'[c][h]
                       /\ Tasks(sent, fresh[c])[h] = sent[h] + fresh[c][h]
    BY <1>1 DEF Tasks
  <2> HIDE DEF IInv, TypeOK, plan, next
  <2> QED
    BY <2>1, <2>2, <2>3
<1>6. Single(Tasks(sent', fresh'[c])) /\ Behind(plan, next + 1, Tasks(sent', fresh'[c]))
  BY <1>2, <1>3, <1>4, <1>5, BehindWave
<1>7. Packaged(draft'[c].targets, packages') = plan /\ draft'[c].next = next + 1
  <2>1. draft'[c].targets = draft[c].targets \cap exists /\ draft'[c].next = next + 1
    BY DEF MakeWave
  <2> QED
    BY <1>1, <2>1 DEF Packaged, Plan
<1> QED
  BY <1>1, <1>6, <1>7 DEF RankInv, Single

LEMMA NextRanked == IInv /\ [Next]_vars => RankInv'
<1> SUFFICES ASSUME IInv, [Next]_vars PROVE RankInv'
  OBVIOUS
<1> USE DEF IInv, TypeOK, history
<1>1. CASE Environment
  BY <1>1, EnvironmentRanked
<1>2. ASSUME NEW c \in Checker, TickBegins(c) PROVE RankInv'
  <2>1. /\ UNCHANGED <<row, sent, packages, returned>> /\ ticking' = {c}
        /\ draft'[c] = row /\ row.status = "Running"
        /\ fresh' = fresh /\ fresh[c] = NoTasks
    BY <1>2 DEF TickBegins, LockInv
  <2>2. Tasks(sent', fresh'[c]) = sent
    BY <2>1 DEF Tasks, NoTasks
  <2> QED
    BY <2>1, <2>2 DEF RankInv, Single, Packaged
<1>3. ASSUME NEW c \in Checker, ReasonRequired(c) \/ NothingLeft(c) PROVE RankInv'
  <2>1. UNCHANGED <<row, sent, packages, returned, ticking, fresh>>
    BY <1>3 DEF ReasonRequired, NothingLeft
  <2>2. ticking = {c} /\ draft'[c].status # "Running"
    <3>1. draft'[c].status \in {"Reason required", "Completed"}
      <4>1. PICK r \in Row : /\ draft' = [draft EXCEPT ![c] = r]
                            /\ r.status \in {"Reason required", "Completed"}
        BY <1>3, QuietDraft
      <4>2. draft'[c] = r
        BY <4>1
      <4> QED
        BY <4>1, <4>2
    <3> QED
      BY <1>3, <3>1 DEF ReasonRequired, NothingLeft, LockInv
  <2> QED
    BY <2>1, <2>2 DEF RankInv, Single, Packaged, Tasks
<1>4. ASSUME NEW c \in Checker, MakeWave(c) PROVE RankInv'
  BY <1>4, WaveRanked
<1>5. ASSUME NEW c \in Checker, Commit(c) PROVE RankInv'
  <2>1. /\ ticking = {c} /\ ticking' = {} /\ row' = draft[c]
        /\ sent' = Tasks(sent, fresh[c]) /\ UNCHANGED <<packages, returned>>
    BY <1>5 DEF Commit, Release, LockInv, Tasks
  <2> QED
    BY <2>1 DEF RankInv, Single, Packaged
<1>6. ASSUME NEW c \in Checker, Rollback(c) PROVE RankInv'
  <2>1. /\ ticking' = {} /\ UNCHANGED <<row, sent, packages, returned>>
    BY <1>6 DEF Rollback, Release, LockInv
  <2> QED
    BY <2>1 DEF RankInv, Single, Packaged
<1>7. CASE UNCHANGED vars
  BY <1>7 DEF vars, tick, RankInv, Single, Packaged, Tasks
<1> QED
  BY <1>1, <1>2, <1>3, <1>4, <1>5, <1>6, <1>7 DEF Next, ProcessOne

-----------------------------------------------------------------------------
(* How many hosts stand at which ranks.                                    *)

LEMMA FiniteHosts ==
  ASSUME NEW S \in SUBSET Host
  PROVE  IsFiniteSet(S) /\ Cardinality(S) \in Nat
  BY HostAssumption, FS_Subset, FS_CardinalityType

LEMMA IntervalSize ==
  ASSUME NEW a \in Int, NEW b \in Int, a <= b
  PROVE  IsFiniteSet(a..b) /\ Cardinality(a..b) = b - a + 1
<1>1. ~(a > b)
  OBVIOUS
<1> QED
  BY <1>1, FS_Interval

LEMMA RankStrict ==
  ASSUME NEW S \in SUBSET Host, NEW g \in S, NEW h \in Host, g < h
  PROVE  Rank(g, S) < Rank(h, S)
<1> DEFINE G == {x \in S : x < g}
           H == {x \in S : x < h}
<1>1. IsFiniteSet(G) /\ IsFiniteSet(H) /\ Cardinality(G) \in Nat /\ Cardinality(H) \in Nat
  <2>1. G \in SUBSET Host /\ H \in SUBSET Host
    OBVIOUS
  <2> HIDE DEF G, H
  <2> QED
    BY <2>1, FiniteHosts
<1>2. g \notin G /\ G \cup {g} \subseteq H
  <2>1. \A x \in S : x \in Nat
    BY HostAssumption
  <2>2. h \in Nat
    BY HostAssumption
  <2>3. ~(g < g) /\ \A x \in S : x < g => x < h
    BY <2>1, <2>2
  <2> QED
    BY <2>3
<1> HIDE DEF G, H
<1>3. Cardinality(G \cup {g}) = Cardinality(G) + 1
  BY <1>1, <1>2, FS_AddElement
<1>4. Cardinality(G \cup {g}) <= Cardinality(H)
  BY <1>1, <1>2, FS_Subset
<1>5. Rank(g, S) = Cardinality(G) /\ Rank(h, S) = Cardinality(H)
  BY DEF Rank, G, H
<1> QED
  BY <1>1, <1>3, <1>4, <1>5

LEMMA RankBelow ==
  ASSUME NEW S \in SUBSET Host, NEW h \in S
  PROVE  Rank(h, S) < Cardinality(S)
<1> DEFINE H == {x \in S : x < h}
<1>1. H \in SUBSET Host /\ h \notin H /\ H \cup {h} \in SUBSET S
  <2>1. h \in Nat
    BY HostAssumption
  <2>2. ~(h < h)
    BY <2>1
  <2> QED
    BY <2>2
<1> HIDE DEF H
<1>2. IsFiniteSet(S) /\ IsFiniteSet(H) /\ Cardinality(H) \in Nat /\ Cardinality(S) \in Nat
  BY <1>1, FiniteHosts
<1>3. Cardinality(H \cup {h}) = Cardinality(H) + 1
  BY <1>1, <1>2, FS_AddElement
<1>4. Cardinality(H \cup {h}) <= Cardinality(S)
  BY <1>1, <1>2, FS_Subset
<1>5. Rank(h, S) = Cardinality(H)
  BY DEF Rank, H
<1> QED
  BY <1>2, <1>3, <1>4, <1>5

\* No two hosts of a plan have the same rank.
LEMMA RankInjective ==
  ASSUME NEW S \in SUBSET Host, NEW T \in SUBSET S, NEW R, \A h \in T : Rank(h, S) \in R
  PROVE  [h \in T |-> Rank(h, S)] \in Injection(T, R)
<1> DEFINE f == [h \in T |-> Rank(h, S)]
<1>1. f \in [T -> R]
  OBVIOUS
<1>2. ASSUME NEW g \in T, NEW h \in T, f[g] = f[h] PROVE g = h
  <2>1. Rank(g, S) = Rank(h, S) /\ Rank(g, S) \in Nat
    BY <1>2, RankType
  <2>2. ~(g < h) /\ ~(h < g)
    BY <2>1, RankStrict
  <2> QED
    BY <2>2, HostAssumption
<1> HIDE DEF f
<1>3. f \in Injection(T, R)
  BY <1>1, <1>2, Fun_IsInj
<1> QED
  BY <1>3 DEF f

\* Of the ranks below k there are at most k hosts.
LEMMA RankCount ==
  ASSUME NEW S \in SUBSET Host, NEW k \in Nat
  PROVE  Cardinality({h \in S : Rank(h, S) < k}) <= k
<1> DEFINE T == {h \in S : Rank(h, S) < k}
<1>1. \A h \in T : Rank(h, S) \in 0..(k - 1)
  BY RankType
<1>2. IsFiniteSet(0..(k - 1)) /\ Cardinality(0..(k - 1)) = k
  <2>1. CASE k = 0
    <3>1. 0..(k - 1) = {}
      BY <2>1
    <3> QED
      BY <2>1, <3>1, FS_EmptySet
  <2>2. CASE k # 0
    <3>1. 0 <= k - 1 /\ k - 1 \in Int
      BY <2>2
    <3>2. IsFiniteSet(0..(k - 1)) /\ Cardinality(0..(k - 1)) = k - 1 - 0 + 1
      BY <3>1, IntervalSize
    <3> QED
      BY <3>2
  <2> QED
    BY <2>1, <2>2
<1>3. T \in SUBSET S
  OBVIOUS
<1> HIDE DEF T
<1>4. [h \in T |-> Rank(h, S)] \in Injection(T, 0..(k - 1))
  BY <1>1, <1>3, RankInjective
<1>5. Cardinality(T) <= Cardinality(0..(k - 1))
  BY <1>2, <1>4, FS_Injection
<1> QED
  BY <1>2, <1>5 DEF T

\* Every rank below the number of hosts is taken.
LEMMA RankTaken ==
  ASSUME NEW S \in SUBSET Host, NEW k \in Nat, k < Cardinality(S)
  PROVE  \E h \in S : Rank(h, S) = k
<1> DEFINE R == 0..(Cardinality(S) - 1)
           f == [h \in S |-> Rank(h, S)]
<1>1. IsFiniteSet(S) /\ Cardinality(S) \in Nat
  BY FiniteHosts
<1>2. IsFiniteSet(R) /\ Cardinality(R) = Cardinality(S)
  <2>1. 0 <= Cardinality(S) - 1 /\ Cardinality(S) - 1 \in Int
    BY <1>1
  <2>2. IsFiniteSet(R) /\ Cardinality(R) = Cardinality(S) - 1 - 0 + 1
    BY <2>1, IntervalSize
  <2> QED
    BY <1>1, <2>2
<1>3. \A h \in S : Rank(h, S) \in R
  BY <1>1, RankType, RankBelow
<1>4. f \in Injection(S, R)
  BY <1>3, RankInjective
<1>5. k \in R
  BY <1>1
<1>6. \A h \in S : f[h] = Rank(h, S)
  OBVIOUS
<1> HIDE DEF f, R
<1>7. f \in Surjection(S, R)
  BY <1>2, <1>4, FS_Injection
<1>8. PICK h \in S : f[h] = k
  BY <1>5, <1>7 DEF Surjection
<1> QED
  BY <1>6, <1>8

\* A wave that is not the last one is full.
LEMMA WaveFull ==
  ASSUME NEW S \in SUBSET Host, NEW n \in Nat \ {0}, n * WaveSize < Cardinality(S)
  PROVE  Cardinality(Wave(S, n)) = WaveSize
<1> DEFINE T == Wave(S, n)
           R == ((n - 1) * WaveSize)..(n * WaveSize - 1)
           f == [h \in T |-> Rank(h, S)]
<1>1. /\ (n - 1) * WaveSize = n * WaveSize - WaveSize
      /\ n * WaveSize \in Nat /\ (n - 1) * WaveSize \in Nat
  BY SizeAssumption
<1>2. IsFiniteSet(R) /\ Cardinality(R) = WaveSize
  <2> DEFINE a == (n - 1) * WaveSize
             b == n * WaveSize - 1
  <2>1. a \in Int /\ b \in Int /\ a <= b /\ b - a + 1 = WaveSize
    BY <1>1, SizeAssumption
  <2>2. R = a..b
    OBVIOUS
  <2> HIDE DEF a, b, R
  <2>3. IsFiniteSet(a..b) /\ Cardinality(a..b) = b - a + 1
    BY <2>1, IntervalSize
  <2> QED
    BY <2>1, <2>2, <2>3
<1>3. T \in SUBSET S /\ \A h \in S : h \in T <=> Rank(h, S) \in R
  <2>1. \A h \in S : Rank(h, S) \in Nat
    BY RankType
  <2> QED
    BY <1>1, <2>1 DEF Wave
<1>4. IsFiniteSet(T)
  BY <1>3, FiniteHosts
<1> HIDE DEF T, R
<1>5. f \in Injection(T, R)
  BY <1>3, RankInjective
<1>6. f \in Surjection(T, R)
  <2>1. ASSUME NEW k \in R PROVE \E h \in T : f[h] = k
    <3>1. k \in Nat /\ k < Cardinality(S)
      BY <1>1, FiniteHosts, SizeAssumption DEF R
    <3>2. PICK h \in S : Rank(h, S) = k
      BY <3>1, RankTaken
    <3> QED
      BY <1>3, <3>2
  <2>2. f \in [T -> R]
    BY <1>3
  <2> QED
    BY <2>1, <2>2 DEF Surjection
<1> HIDE DEF f
<1>7. Cardinality(T) = Cardinality(R)
  BY <1>2, <1>5, <1>6, FS_Injection
<1> QED
  BY <1>2, <1>7 DEF T

\* U was updated, at least m hosts; A, all that could be updated so far of plan P, is at
\* most m hosts and holds all of U that P does.  What A misses, G outside P makes up for.
LEMMA MissedForGone ==
  ASSUME NEW P \in SUBSET Host, NEW A \in SUBSET P, NEW U \in SUBSET Host,
         NEW M \in SUBSET (A \ U), NEW G \in SUBSET Host, NEW m \in Nat,
         Cardinality(A) <= m, m <= Cardinality(U), U \cap P \subseteq A, U \ P \subseteq G
  PROVE  Cardinality(M) <= Cardinality(G)
<1>1. /\ IsFiniteSet(A) /\ IsFiniteSet(U) /\ IsFiniteSet(A \ U) /\ IsFiniteSet(G)
      /\ Cardinality(A) \in Nat /\ Cardinality(U) \in Nat /\ Cardinality(A \cap U) \in Nat
      /\ Cardinality(M) \in Nat /\ Cardinality(G) \in Nat
      /\ Cardinality(A \ U) \in Nat /\ Cardinality(U \ P) \in Nat
  <2>1. /\ A \in SUBSET Host /\ A \cap U \in SUBSET Host /\ M \in SUBSET Host
        /\ A \ U \in SUBSET Host /\ U \ P \in SUBSET Host
    OBVIOUS
  <2> QED
    BY <2>1, FiniteHosts
<1>2. Cardinality(M) <= Cardinality(A \ U) /\ Cardinality(U \ P) <= Cardinality(G)
  BY <1>1, FS_Subset
<1>3. Cardinality(A \ U) = Cardinality(A) - Cardinality(A \cap U)
  BY <1>1, FS_Difference
<1>4. Cardinality(U \ P) = Cardinality(U) - Cardinality(A \cap U)
  <2>1. Cardinality(U \ P) = Cardinality(U) - Cardinality(U \cap P)
    BY <1>1, FS_Difference
  <2>2. U \cap P = A \cap U
    OBVIOUS
  <2> QED
    BY <2>1, <2>2
<1> QED
  BY <1>1, <1>2, <1>3, <1>4

LEMMA WaveTotalBounds ==
  ASSUME NEW S \in SUBSET Host, NEW n \in Nat
  PROVE  /\ WaveTotal(S) \in Nat
         /\ n < WaveTotal(S) => n * WaveSize < Cardinality(S)
         /\ ~(n < WaveTotal(S)) => Cardinality(S) <= n * WaveSize
<1> DEFINE s == Cardinality(S)
           q == WaveTotal(S)
<1>1. s \in Nat /\ WaveSize \in Nat /\ WaveSize > 0
  BY FiniteHosts, SizeAssumption
<1>2. q \in Nat /\ q * WaveSize <= s + WaveSize - 1 /\ s + WaveSize - 1 < q * WaveSize + WaveSize
  <2> HIDE DEF s
  <2> QED
    BY <1>1 DEF WaveTotal, s
<1> HIDE DEF s, q
<1>3. ASSUME n < q PROVE n * WaveSize < s
  <2>1. (n + 1) * WaveSize <= q * WaveSize
    BY <1>1, <1>2, <1>3
  <2>2. (n + 1) * WaveSize = n * WaveSize + WaveSize
    BY <1>1
  <2>3. n * WaveSize \in Int /\ q * WaveSize \in Int /\ (n + 1) * WaveSize \in Int
    BY <1>1, <1>2
  <2> QED
    BY <1>1, <1>2, <2>1, <2>2, <2>3
<1>4. ASSUME ~(n < q) PROVE s <= n * WaveSize
  <2>1. q * WaveSize <= n * WaveSize
    BY <1>1, <1>2, <1>4
  <2>3. n * WaveSize \in Int /\ q * WaveSize \in Int
    BY <1>1, <1>2
  <2> QED
    BY <1>1, <1>2, <2>1, <2>3
<1> QED
  BY <1>2, <1>3, <1>4 DEF s, q

-----------------------------------------------------------------------------
(* The hosts a completed rollout has missed.                               *)

Updated(tasks) == {h \in Host : tasks[h] > 0}

\* MissedForRemoved's bound for hosts req, of which lost were lost.
MissedBound(req, lost, tasks) ==
  Cardinality({h \in req \ lost : tasks[h] = 0}) <= Cardinality(lost \cap Updated(tasks))

\* The row r is running: the hosts that were not lost are in its plan, and the waves it
\* made were full.  It is complete: the bound.
CountFor(req, lost, plan, r, tasks) ==
  /\ Updated(tasks) \subseteq req
  /\ r.status = "Running" =>
       /\ req \ lost \subseteq plan
       /\ r.targets \subseteq req
       /\ r.next > 0 /\ (r.next - 1) * WaveSize <= Cardinality(Updated(tasks))
  /\ r.status = "Completed" => MissedBound(req, lost, tasks)

\* Plan as a function of the hosts and packages there are.
PlanOf(targets, hosts, platforms) == {h \in targets \cap hosts : PlatformOf[h] \in platforms}

CountInv ==
  ~returned =>
    /\ CountFor(requested, gone, PlanOf(row.targets, exists, packages), row, sent)
    /\ \A c \in ticking : CountFor(requested, gone, PlanOf(draft[c].targets, exists, packages),
                                   draft[c], Tasks(sent, fresh[c]))

\* Losing more hosts, those that leave the plan among them.
LEMMA CountLost ==
  ASSUME NEW req \in SUBSET Host, NEW lost \in SUBSET Host, NEW more \in SUBSET Host,
         lost \subseteq more, NEW plan, NEW smaller, plan \ more \subseteq smaller,
         NEW r, NEW tasks, CountFor(req, lost, plan, r, tasks)
  PROVE  CountFor(req, more, smaller, r, tasks)
<1>1. ASSUME MissedBound(req, lost, tasks) PROVE MissedBound(req, more, tasks)
  <2> DEFINE A == {h \in req \ lost : tasks[h] = 0}
             B == {h \in req \ more : tasks[h] = 0}
             C == lost \cap Updated(tasks)
             D == more \cap Updated(tasks)
  <2>1. /\ A \in SUBSET Host /\ B \in SUBSET Host /\ C \in SUBSET Host /\ D \in SUBSET Host
        /\ B \in SUBSET A /\ C \in SUBSET D
    OBVIOUS
  <2>2. Cardinality(A) <= Cardinality(C)
    BY <1>1 DEF MissedBound
  <2> HIDE DEF A, B, C, D
  <2>3. Cardinality(B) <= Cardinality(A) /\ Cardinality(C) <= Cardinality(D)
    BY <2>1, FiniteHosts, FS_Subset
  <2>4. /\ Cardinality(A) \in Nat /\ Cardinality(B) \in Nat
        /\ Cardinality(C) \in Nat /\ Cardinality(D) \in Nat
    BY <2>1, FiniteHosts
  <2>5. Cardinality(B) <= Cardinality(D)
    BY <2>2, <2>3, <2>4
  <2> QED
    BY <2>5 DEF MissedBound, B, D
<1> QED
  BY <1>1 DEF CountFor

\* All waves of the plan are made: the unlost hosts that were not updated had their
\* places taken by updated hosts that were lost.
LEMMA CountNothingLeft ==
  ASSUME NEW req \in SUBSET Host, NEW lost \in SUBSET Host, NEW plan \in SUBSET Host,
         NEW r, r.status = "Running", r.next \in Nat, NEW tasks \in [Host -> Nat],
         CountFor(req, lost, plan, r, tasks), r.next > WaveTotal(plan)
  PROVE  MissedBound(req, lost, tasks)
<1> DEFINE U == Updated(tasks)
           M == {h \in req \ lost : tasks[h] = 0}
           G == lost \cap Updated(tasks)
           m == (r.next - 1) * WaveSize
<1>1. /\ U \subseteq req /\ req \ lost \subseteq plan /\ r.next > 0 /\ m <= Cardinality(U)
  BY DEF CountFor
<1>2. r.next - 1 \in Nat /\ ~(r.next - 1 < WaveTotal(plan)) /\ m \in Nat
  <2>1. WaveTotal(plan) \in Nat
    BY WaveTotalBounds
  <2>2. r.next - 1 \in Nat /\ ~(r.next - 1 < WaveTotal(plan))
    BY <1>1, <2>1
  <2> QED
    BY <2>2, SizeAssumption
<1>3. Cardinality(plan) <= m
  BY <1>2, WaveTotalBounds
<1>4. /\ U \in SUBSET Host /\ M \in SUBSET (plan \ U) /\ G \in SUBSET Host
      /\ U \cap plan \subseteq plan /\ U \ plan \subseteq G
  <2>1. \A h \in Host : tasks[h] = 0 => h \notin U
    BY DEF Updated
  <2> QED
    BY <1>1, <2>1 DEF Updated
<1> HIDE DEF U, M, G, m
<1>5. Cardinality(M) <= Cardinality(G)
  BY <1>1, <1>2, <1>3, <1>4, MissedForGone
<1> QED
  BY <1>5 DEF MissedBound, M, G

\* What wave r.next adds: a full wave, or the last one, after which the bound holds.
LEMMA CountWave ==
  ASSUME NEW req \in SUBSET Host, NEW lost \in SUBSET Host, NEW plan \in SUBSET Host,
         plan \subseteq req,
         NEW r, r.status = "Running", r.next \in Nat, NEW tasks \in [Host -> Nat],
         NEW more \in [Host -> Nat],
         \A h \in Host : more[h] = IF h \in Wave(plan, r.next) THEN tasks[h] + 1 ELSE tasks[h],
         CountFor(req, lost, plan, r, tasks), Behind(plan, r.next, tasks)
  PROVE  /\ Updated(more) \subseteq req
         /\ r.next < WaveTotal(plan) => r.next * WaveSize <= Cardinality(Updated(more))
         /\ ~(r.next < WaveTotal(plan)) => MissedBound(req, lost, more)
<1> DEFINE n == r.next
           U == Updated(tasks)
           V == Updated(more)
           W == Wave(plan, n)
           m == (n - 1) * WaveSize
<1>1. U \subseteq req /\ req \ lost \subseteq plan /\ n \in Nat /\ n > 0 /\ m <= Cardinality(U)
  BY DEF CountFor
<1>2. m \in Nat /\ n * WaveSize = m + WaveSize /\ n * WaveSize \in Nat
  BY <1>1, SizeAssumption
<1>3. W \in SUBSET plan /\ \A h \in plan : Rank(h, plan) \in Nat
  BY RankType DEF Wave
<1>4. \A h \in plan : h \in U => Rank(h, plan) < m
  BY DEF Behind, Updated
<1>5. U \cap W = {}
  <2>1. \A h \in W : m <= Rank(h, plan)
    BY DEF Wave
  <2> HIDE DEF U, W, m
  <2>2. ASSUME NEW h \in U \cap W PROVE FALSE
    BY <1>2, <1>3, <1>4, <2>1
  <2> QED
    BY <2>2
<1>6. V = U \cup W
  <2>1. \A h \in Host : more[h] > 0 <=> tasks[h] > 0 \/ h \in W
    <3> SUFFICES ASSUME NEW h \in Host PROVE more[h] > 0 <=> tasks[h] > 0 \/ h \in W
      OBVIOUS
    <3>1. tasks[h] \in Nat /\ more[h] = IF h \in W THEN tasks[h] + 1 ELSE tasks[h]
      OBVIOUS
    <3> HIDE DEF W
    <3> QED
      BY <3>1
  <2> HIDE DEF W
  <2> QED
    BY <1>3, <2>1 DEF Updated
<1>7. U \in SUBSET Host /\ W \in SUBSET Host /\ V \in SUBSET Host
  BY <1>3 DEF Updated
<1>8. ASSUME n < WaveTotal(plan) PROVE n * WaveSize <= Cardinality(V)
  <2>1. Cardinality(W) = WaveSize
    <3>1. n * WaveSize < Cardinality(plan) /\ n \in Nat \ {0}
      BY <1>1, <1>8, WaveTotalBounds
    <3> QED
      BY <3>1, WaveFull
  <2> HIDE DEF U, V, W, m, n
  <2>2. Cardinality(V) = Cardinality(U) + Cardinality(W) - Cardinality(U \cap W)
    BY <1>6, <1>7, FiniteHosts, FS_Union
  <2>3. Cardinality(U \cap W) = 0
    BY <1>5, FS_EmptySet
  <2>4. Cardinality(U) \in Nat
    BY <1>7, FiniteHosts
  <2> QED
    BY <1>1, <1>2, <2>1, <2>2, <2>3, <2>4, SizeAssumption
<1>9. ASSUME ~(n < WaveTotal(plan)) PROVE MissedBound(req, lost, more)
  <2> DEFINE A == {h \in plan : Rank(h, plan) < m}
             M == {h \in req \ lost : more[h] = 0}
             G == lost \cap V
  <2>1. Cardinality(plan) <= n * WaveSize
    BY <1>1, <1>9, WaveTotalBounds
  <2>2. Cardinality(A) <= m
    <3> HIDE DEF m
    <3> QED
      BY <1>2, RankCount
  <2>3. \A h \in plan : h \in W \/ h \in A
    <3> SUFFICES ASSUME NEW h \in plan, h \notin A PROVE h \in W
      OBVIOUS
    <3>1. Rank(h, plan) < Cardinality(plan) /\ Cardinality(plan) \in Nat
      BY RankBelow, FiniteHosts
    <3>2. Rank(h, plan) < n * WaveSize /\ m <= Rank(h, plan)
      <4> HIDE DEF m, n
      <4> QED
        BY <1>2, <1>3, <2>1, <3>1
    <3> QED
      BY <3>2 DEF Wave
  <2>4. M \cap W = {} /\ M \cap U = {}
    <3>1. \A h \in Host : h \in V <=> more[h] > 0
      BY DEF Updated
    <3>2. \A h \in M : h \notin V
      <4> HIDE DEF V
      <4> QED
        BY <3>1
    <3> HIDE DEF U, V, W, M
    <3> QED
      BY <1>6, <3>2
  <2>5. M \subseteq plan
    BY <1>1
  <2>6. /\ A \in SUBSET plan /\ M \in SUBSET (A \ U) /\ G \in SUBSET Host
        /\ U \cap plan \subseteq A /\ U \ plan \subseteq G
    <3>1. A \subseteq plan /\ U \cap plan \subseteq A
      BY <1>4
    <3> HIDE DEF A, M, U, V, W
    <3> QED
      BY <1>1, <1>6, <1>7, <2>3, <2>4, <2>5, <3>1
  <2> HIDE DEF A, M, G, U, V, W, m, n
  <2>7. Cardinality(M) <= Cardinality(G)
    BY <1>1, <1>2, <1>7, <2>2, <2>6, MissedForGone
  <2> QED
    BY <2>7 DEF MissedBound, M, G, V
<1>10. V \subseteq req
  <2> HIDE DEF U, V, W
  <2> QED
    BY <1>1, <1>3, <1>6
<1> QED
  BY <1>8, <1>9, <1>10

LEMMA InitCounted == Init => CountInv
<1> SUFFICES ASSUME Init PROVE CountInv
  OBVIOUS
<1>1. ticking = {} /\ row.status = "none" /\ \A h \in Host : sent[h] = 0
  BY DEF Init, Blank, NoTasks
<1> QED
  BY <1>1 DEF CountInv, CountFor, Updated

LEMMA EnvironmentCounted ==
  ASSUME IInv, CountInv, Environment PROVE CountInv'
<1> SUFFICES ASSUME ~returned' PROVE CountInv'
  BY DEF CountInv
<1> USE DEF tick, history
<1>1. ~returned /\ UNCHANGED <<sent, tick>>
  BY DEF Environment, Launch, TimePasses, Cancel, DeleteHost, EnrolHost, WithdrawPackage,
     UploadPackage, Lose, IInv, TypeOK
<1>2. /\ CountFor(requested, gone, PlanOf(row.targets, exists, packages), row, sent)
      /\ \A c \in ticking : CountFor(requested, gone, PlanOf(draft[c].targets, exists, packages), draft[c],
                                     Tasks(sent, fresh[c]))
  BY <1>1 DEF CountInv
<1>3. row \in Row /\ requested \subseteq Host /\ gone \subseteq Host
  BY DEF IInv, TypeOK
<1>4. CASE Launch
  <2>1. PICK targets \in SUBSET Plan(Host) :
          /\ row' = [status |-> "Running", next |-> 1, targets |-> targets, due |-> TRUE]
          /\ requested' = targets
    BY <1>4 DEF Launch
  <2>2. /\ ticking' = {} /\ UNCHANGED <<exists, packages>>
        /\ \A h \in Host : sent'[h] = 0
    BY <1>1, <1>4 DEF Launch, IInv, LockInv, NoTasks
  <2>3. Updated(sent') = {}
    BY <2>2 DEF Updated
  <2>4. row'.status = "Running" /\ row'.next = 1 /\ row'.targets = targets
    BY <2>1
  <2>5. targets \subseteq PlanOf(targets, exists', packages') /\ (1 - 1) * WaveSize = 0
    <3>1. PlanOf(targets, exists', packages') = Plan(targets)
      BY <2>2 DEF Plan, PlanOf
    <3> QED
      BY <3>1, SizeAssumption DEF Plan, PlanOf
  <2>6. CountFor(requested', gone', PlanOf(row'.targets, exists', packages'), row', sent')
    BY <2>1, <2>3, <2>4, <2>5, FS_EmptySet DEF CountFor
  <2> QED
    BY <2>2, <2>6 DEF CountInv
<1>5. CASE TimePasses \/ Cancel
  <2>1. /\ UNCHANGED <<exists, packages, requested, gone>>
        /\ row'.status = row.status \/ row'.status = "Cancelled"
        /\ row'.targets = row.targets /\ row'.next = row.next
    BY <1>3, <1>5 DEF TimePasses, Cancel, Row
  <2> QED
    BY <1>1, <1>2, <2>1 DEF CountInv, CountFor, PlanOf, Tasks
<1>6. ASSUME Lose(gone' \ gone), row.status = "Running", gone \subseteq gone',
             \A T \in SUBSET Host : PlanOf(T, exists, packages) \ gone' \subseteq PlanOf(T, exists', packages')
      PROVE  CountInv'
  <2>1. UNCHANGED <<row, requested>> /\ gone' \in SUBSET Host
    <3>1. TypeOK'
      BY NextTyped DEF IInv, Next
    <3> QED
      BY <1>6, <3>1 DEF Lose, TypeOK
  <2>2. CountFor(requested', gone', PlanOf(row'.targets, exists', packages'), row', sent')
    <3>1. PlanOf(row.targets, exists, packages) \ gone' \subseteq PlanOf(row.targets, exists', packages')
      BY <1>3, <1>6 DEF Row
    <3>2. CountFor(requested, gone', PlanOf(row.targets, exists', packages'), row, sent)
      BY <1>2, <1>3, <1>6, <2>1, <3>1, CountLost
    <3> QED
      BY <1>1, <2>1, <3>2
  <2>3. ASSUME NEW c \in ticking
        PROVE  CountFor(requested', gone', PlanOf(draft'[c].targets, exists', packages'), draft'[c],
                        Tasks(sent', fresh'[c]))
    <3> DEFINE tasks == Tasks(sent, fresh[c])
               r == draft[c]
    <3>1. r.targets \in SUBSET Host
      BY DEF IInv, TypeOK, Row
    <3>2. CountFor(requested, gone, PlanOf(r.targets, exists, packages), r, tasks)
      BY <1>2
    <3>3. PlanOf(r.targets, exists, packages) \ gone' \subseteq PlanOf(r.targets, exists', packages')
      BY <1>1, <1>6, <3>1
    <3>4. UNCHANGED draft /\ Tasks(sent', fresh'[c]) = tasks
      BY <1>1
    <3>5. draft'[c] = r
      BY <3>4
    <3> HIDE DEF tasks, r
    <3>6. CountFor(requested, gone', PlanOf(r.targets, exists', packages'), r, tasks)
      BY <1>3, <1>6, <2>1, <3>2, <3>3, CountLost
    <3> QED
      BY <2>1, <3>4, <3>5, <3>6
  <2>4. UNCHANGED ticking
    BY <1>1
  <2> QED
    BY <2>2, <2>3, <2>4 DEF CountInv
<1>7. ASSUME row.status # "Running", UNCHANGED <<row, requested, gone>> PROVE CountInv'
  <2>1. ticking' = {}
    BY <1>1, <1>7 DEF IInv, LockInv
  <2> QED
    BY <1>1, <1>2, <1>7, <2>1 DEF CountInv, CountFor
<1>8. ASSUME NEW h \in Host, DeleteHost(h) \/ EnrolHost(h) PROVE CountInv'
  <2>1. CASE row.status = "Running"
    <3>1. gone' \in {gone \cup {h}, gone} /\ UNCHANGED <<row, requested, packages>>
      BY <1>8, <2>1 DEF DeleteHost, EnrolHost, Lose
    <3>2. exists \ gone' \subseteq exists'
      BY <1>8, <2>1 DEF DeleteHost, EnrolHost, Lose
    <3>3. Lose(gone' \ gone)
      BY <1>1, <1>8, <2>1, <3>1 DEF DeleteHost, EnrolHost, Lose
    <3> QED
      BY <1>6, <2>1, <3>1, <3>2, <3>3 DEF Plan, PlanOf
  <2>2. CASE row.status # "Running"
    BY <1>7, <1>8, <2>2 DEF DeleteHost, EnrolHost, Lose
  <2> QED
    BY <2>1, <2>2
<1>9. ASSUME NEW p \in Platform, WithdrawPackage(p) PROVE CountInv'
  <2>1. CASE row.status = "Running"
    <3>1. /\ gone' = gone \cup {h \in Host : PlatformOf[h] = p} /\ UNCHANGED <<row, requested, exists>>
          /\ packages' = packages \ {p}
      BY <1>9, <2>1 DEF WithdrawPackage, Lose
    <3>2. Lose(gone' \ gone)
      BY <1>1, <1>9, <2>1, <3>1 DEF WithdrawPackage, Lose
    <3> QED
      BY <1>6, <2>1, <3>1, <3>2 DEF Plan, PlanOf
  <2>2. CASE row.status # "Running"
    BY <1>7, <1>9, <2>2 DEF WithdrawPackage, Lose
  <2> QED
    BY <2>1, <2>2
<1>10. ASSUME NEW p \in Platform, UploadPackage(p) PROVE CountInv'
  <2>1. row.status # "Running" /\ UNCHANGED <<row, requested, gone>>
    BY <1>10 DEF UploadPackage
  <2> QED
    BY <1>7, <2>1
<1> QED
  BY <1>4, <1>5, <1>8, <1>9, <1>10 DEF Environment

LEMMA ProcessCounted ==
  ASSUME IInv, CountInv, NEW c \in Checker, ProcessOne(c) PROVE CountInv'
<1>0. UNCHANGED returned
  BY DEF ProcessOne, ReasonRequired, NothingLeft, MakeWave, history
<1> SUFFICES ASSUME ~returned PROVE CountInv'
  BY <1>0 DEF CountInv
<1> DEFINE r == draft[c]
           tasks == Tasks(sent, fresh[c])
           plan == Plan(r.targets)
<1>1. /\ ticking = {c} /\ r.status = "Running"
      /\ UNCHANGED <<row, sent, exists, packages, ticking, requested, gone>>
  BY DEF ProcessOne, ReasonRequired, NothingLeft, MakeWave, MoreWaves, IInv, LockInv, history
<1>2. /\ CountFor(requested, gone, PlanOf(row.targets, exists, packages), row, sent)
      /\ CountFor(requested, gone, plan, r, tasks)
  BY <1>1 DEF CountInv, Plan, PlanOf
<1>3. /\ requested \in SUBSET Host /\ gone \in SUBSET Host /\ r \in Row
      /\ r.next \in Nat /\ r.targets \in SUBSET Host /\ plan \in SUBSET Host
      /\ sent \in [Host -> Nat] /\ fresh[c] \in [Host -> Nat] /\ tasks \in [Host -> Nat]
      /\ draft \in [Checker -> Row] /\ fresh \in [Checker -> [Host -> Nat]]
  BY DEF IInv, TypeOK, Row, Plan, Tasks
<1>4. SUFFICES CountFor(requested', gone', PlanOf(draft'[c].targets, exists', packages'), draft'[c],
                        Tasks(sent', fresh'[c]))
  <2>1. CountFor(requested', gone', PlanOf(row'.targets, exists', packages'), row', sent')
    BY <1>1, <1>2
  <2>2. ticking' = {c}
    BY <1>1
  <2> QED
    BY <2>1, <2>2 DEF CountInv
<1>5. CASE ReasonRequired(c) \/ NothingLeft(c)
  <2>1. UNCHANGED fresh /\ draft'[c].status # "Running"
    <3>1. PICK q \in Row : /\ draft' = [draft EXCEPT ![c] = q]
                          /\ q.status \in {"Reason required", "Completed"}
      BY <1>5, QuietDraft DEF IInv
    <3>2. draft'[c] = q
      BY <1>3, <3>1
    <3> QED
      BY <1>5, <3>1, <3>2 DEF ReasonRequired, NothingLeft
  <2>2. draft'[c].status = "Completed" => MissedBound(requested, gone, tasks)
    <3>1. CASE ReasonRequired(c)
      <4>1. draft'[c].status = "Reason required"
        BY <1>3, <3>1 DEF ReasonRequired, Row
      <4> QED
        BY <4>1
    <3>2. CASE NothingLeft(c)
      <4>1. r.next > WaveTotal(plan)
        BY <3>2 DEF NothingLeft
      <4> HIDE DEF r, plan, tasks
      <4> QED
        BY <1>1, <1>2, <1>3, <4>1, CountNothingLeft
    <3> QED
      BY <1>5, <3>1, <3>2
  <2> QED
    BY <1>1, <1>2, <2>1, <2>2 DEF CountFor
<1>6. CASE MakeWave(c)
  <2> DEFINE more == Tasks(sent', fresh'[c])
  <2>1. more \in [Host -> Nat] /\ \A h \in Host :
          more[h] = IF h \in Wave(plan, r.next) THEN tasks[h] + 1 ELSE tasks[h]
    <3>1. /\ fresh'[c] \in [Host -> Nat]
          /\ \A h \in Host :
               fresh'[c][h] = IF h \in Wave(plan, r.next) THEN fresh[c][h] + 1 ELSE fresh[c][h]
      BY <1>3, <1>6 DEF MakeWave
    <3>2. \A h \in Host : more[h] = sent[h] + fresh'[c][h] /\ tasks[h] = sent[h] + fresh[c][h]
      BY <1>1 DEF Tasks
    <3>3. more \in [Host -> Nat]
      BY <1>1, <1>3, <3>1 DEF Tasks
    <3> HIDE DEF r, plan, tasks, more
    <3> QED
      BY <1>3, <3>1, <3>2, <3>3
  <2>2. Behind(plan, r.next, tasks)
    <3>1. Behind(Packaged(r.targets, packages), r.next, tasks)
      BY <1>1 DEF IInv, RankInv
    <3>2. plan \subseteq Packaged(r.targets, packages) /\ Packaged(r.targets, packages) \in SUBSET Host
      BY <1>3 DEF Plan, Packaged
    <3> HIDE DEF r, plan, tasks
    <3> QED
      BY <1>3, <3>1, <3>2, BehindShrinks
  <2>3. plan \subseteq requested /\ r.targets \subseteq requested /\ requested \ gone \subseteq plan
        /\ r.next > 0
    BY <1>1, <1>2 DEF CountFor, Plan
  <2>4. /\ draft'[c].status = IF r.next < WaveTotal(plan) THEN "Running" ELSE "Completed"
        /\ draft'[c].next = r.next + 1 /\ draft'[c].targets = r.targets \cap exists
    BY <1>3, <1>6 DEF MakeWave
  <2>5. PlanOf(draft'[c].targets, exists', packages') = plan
    BY <1>1, <2>4 DEF PlanOf, Plan
  <2> HIDE DEF r, plan, tasks, more
  <2>6. /\ Updated(more) \subseteq requested
        /\ r.next < WaveTotal(plan) => r.next * WaveSize <= Cardinality(Updated(more))
        /\ ~(r.next < WaveTotal(plan)) => MissedBound(requested, gone, more)
    BY <1>1, <1>2, <1>3, <2>1, <2>2, <2>3, CountWave
  <2>7. r.next + 1 > 0 /\ r.next + 1 - 1 = r.next
    BY <1>3
  <2>8. CASE r.next < WaveTotal(plan)
    <3>1. draft'[c].status = "Running" /\ draft'[c].targets \subseteq requested
      BY <2>3, <2>4, <2>8
    <3>2. draft'[c].next > 0 /\ (draft'[c].next - 1) * WaveSize <= Cardinality(Updated(more))
      <4>1. draft'[c].next > 0 /\ draft'[c].next - 1 = r.next
        BY <1>3, <2>4, <2>7
      <4>2. r.next * WaveSize <= Cardinality(Updated(more))
        BY <2>6, <2>8
      <4> QED
        BY <4>1, <4>2
    <3> QED
      BY <1>1, <2>3, <2>5, <2>6, <3>1, <3>2 DEF CountFor, more
  <2>9. CASE ~(r.next < WaveTotal(plan))
    <3>1. draft'[c].status = "Completed"
      BY <2>4, <2>9
    <3> QED
      BY <1>1, <2>6, <2>9, <3>1 DEF CountFor, more
  <2> QED
    BY <2>8, <2>9
<1> QED
  BY <1>5, <1>6 DEF ProcessOne

LEMMA NextCounted == IInv /\ CountInv /\ [Next]_vars => CountInv'
<1> SUFFICES ASSUME IInv, CountInv, [Next]_vars PROVE CountInv'
  OBVIOUS
<1> USE DEF history
<1>1. CASE Environment
  BY <1>1, EnvironmentCounted
<1>2. ASSUME NEW c \in Checker, TickBegins(c) PROVE CountInv'
  <2>1. /\ UNCHANGED <<row, sent, exists, packages, requested, gone, returned>>
        /\ ticking' = {c} /\ draft'[c] = row /\ fresh' = fresh /\ fresh[c] = NoTasks
    BY <1>2 DEF TickBegins, IInv, LockInv, TypeOK
  <2>2. Tasks(sent', fresh'[c]) = sent
    BY <2>1 DEF Tasks, NoTasks, IInv, TypeOK
  <2> QED
    BY <2>1, <2>2 DEF CountInv
<1>3. ASSUME NEW c \in Checker, ProcessOne(c) PROVE CountInv'
  BY <1>3, ProcessCounted
<1>4. ASSUME NEW c \in Checker, Commit(c) PROVE CountInv'
  <2>1. /\ ticking = {c} /\ ticking' = {} /\ row' = draft[c]
        /\ sent' = Tasks(sent, fresh[c])
        /\ UNCHANGED <<exists, packages, requested, gone, returned>>
    BY <1>4 DEF Commit, Release, IInv, LockInv, Tasks
  <2> QED
    BY <2>1 DEF CountInv
<1>5. ASSUME NEW c \in Checker, Rollback(c) PROVE CountInv'
  <2>1. ticking' = {} /\ UNCHANGED <<row, sent, exists, packages, requested, gone, returned>>
    BY <1>5 DEF Rollback, Release, IInv, LockInv
  <2> QED
    BY <2>1 DEF CountInv
<1>6. CASE UNCHANGED vars
  BY <1>6 DEF vars, tick, CountInv
<1> QED
  BY <1>1, <1>2, <1>3, <1>4, <1>5, <1>6 DEF Next

-----------------------------------------------------------------------------
(* The theorems.                                                           *)

LEMMA Invariance == Spec => []IInv
<1>1. Init => IInv
  BY InitTyped, InitLocked, InitRanked DEF IInv
<1>2. IInv /\ [Next]_vars => IInv'
  BY NextTyped, NextLocked, NextRanked DEF IInv
<1> QED
  BY <1>1, <1>2, PTL DEF Spec

\* Every reachable state of the rollout, its transactions and its hosts is well typed.
THEOREM RolloutTypeCorrect == Spec => []TypeOK
<1>1. IInv => TypeOK
  BY DEF IInv
<1> QED
  BY <1>1, Invariance, PTL

\* Whatever hosts and packages leave, whoever processes the rollout and however often
\* a transaction is rolled back, no host gets two update tasks.
THEOREM RolloutUpdatesOnce == Spec => []UpdatedAtMostOnce
<1>1. IInv => UpdatedAtMostOnce
  BY DEF IInv, RankInv, Single, UpdatedAtMostOnce
<1> QED
  BY <1>1, Invariance, PTL

\* A rollout that was completed or cancelled makes no wave any more.
THEOREM RolloutClosedIsClosed == Spec => ClosedIsClosed
<1> DEFINE Kept == row.status \in {"Completed", "Cancelled"} =>
                     row'.status = row.status /\ sent' = sent
<1>1. IInv /\ [Next]_vars => Kept
  <2> SUFFICES ASSUME IInv, [Next]_vars, row.status \in {"Completed", "Cancelled"}
               PROVE  row'.status = row.status /\ sent' = sent
    OBVIOUS
  <2>1. ticking = {}
    BY DEF IInv, LockInv
  <2>2. UNCHANGED <<row, sent>>
    BY <2>1 DEF Next, Environment, Launch, TimePasses, Cancel, DeleteHost, EnrolHost,
       WithdrawPackage, UploadPackage, Lose, TickBegins, ProcessOne, ReasonRequired,
       NothingLeft, MakeWave, Commit, Rollback, vars
  <2> QED
    BY <2>2
<1>2. IInv /\ [Next]_vars => [Kept]_vars
  BY <1>1
<1> QED
  BY <1>2, Invariance, PTL DEF Spec, ClosedIsClosed

\* A completed rollout has passed over no more hosts than updated ones were lost while it
\* ran: every wave but the last was full, so the hosts that fill the places before the
\* last wave are the updated ones, and only a lost one can leave its place to a host
\* that the plan has moved forward.
THEOREM RolloutMissedForRemoved == Spec => []MissedForRemoved
<1>1. IInv /\ CountInv => MissedForRemoved
  <2> SUFFICES ASSUME IInv, CountInv, row.status = "Completed", ~returned
               PROVE  Cardinality(Missed) <= Cardinality({h \in gone : sent[h] > 0})
    BY DEF MissedForRemoved
  <2>1. MissedBound(requested, gone, sent)
    BY DEF CountInv, CountFor
  <2>2. gone \cap Updated(sent) = {h \in gone : sent[h] > 0}
    BY DEF Updated, IInv, TypeOK
  <2> QED
    BY <2>1, <2>2 DEF MissedBound, Missed
<1>2. Init => CountInv
  BY InitCounted
<1>3. IInv /\ CountInv /\ [Next]_vars => CountInv'
  BY NextCounted
<1> QED
  BY <1>1, <1>2, <1>3, Invariance, PTL DEF Spec
=============================================================================
