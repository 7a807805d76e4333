---------------------------- MODULE AgentRollout ----------------------------
(***************************************************************************)
(* One rollout of an agent version (modules/Infrastructure/routes.py): its *)
(* row, the waves that two checkers, the scheduler's job and the thread of *)
(* the report mailer, make of it, and the hosts and packages that come and *)
(* go meanwhile.                                                           *)
(*                                                                         *)
(* A checker works in one transaction under a lock on the row.  Nothing it *)
(* does is seen before its commit, but each of its waves reads the hosts   *)
(* and the package registry afresh, so it is several steps.  Rollouts      *)
(* share no rows; one stands for all.                                      *)
(***************************************************************************)
EXTENDS Integers, FiniteSets

CONSTANTS
  Host,             \* endpoint ids, numbered in the order of target_ids
  PlatformOf,       \* PlatformOf[h]: the platform of h
  WaveSize,
  MaxWavesPerTick,  \* AGENT_UPDATE_ROLLOUT_MAX_WAVES_PER_TICK (25 by default)
  Checker           \* the threads that process due rollouts

ASSUME HostAssumption == Host \subseteq Nat /\ IsFiniteSet(Host)
ASSUME SizeAssumption == WaveSize \in Nat \ {0} /\ MaxWavesPerTick \in Nat \ {0}

Platform == {PlatformOf[h] : h \in Host}

VARIABLES
  row,        \* the committed AgentUpdateRollout
  reason,     \* whether it has a launch_reason
  sent,       \* sent[h]: committed update tasks for h
  exists,     \* hosts that have an Endpoint row
  packages,   \* platforms that have a package of the rollout's version
  ticking,    \* checkers that hold the lock on the row
  draft,      \* draft[c]: the row as c's transaction sees it
  fresh,      \* fresh[c][h]: update tasks for h in c's transaction
  made,       \* made[c]: waves in c's transaction
  requested,  \* history: the hosts the rollout was launched for
  gone,       \* history: hosts of a running rollout that were deleted, or whose
              \* package was
  returned    \* history: a deleted package came back while the rollout ran

tick == <<ticking, draft, fresh, made>>
history == <<requested, gone, returned>>
vars == <<row, reason, sent, exists, packages, tick, history>>

Statuses == {"none", "Running", "Reason required", "Completed", "Cancelled"}
Row == [status : Statuses, next : Nat, targets : SUBSET Host, due : BOOLEAN]

Blank == [status |-> "none", next |-> 1, targets |-> {}, due |-> FALSE]
NoTasks == [h \in Host |-> 0]

TypeOK ==
  /\ row \in Row
  /\ reason \in BOOLEAN
  /\ sent \in [Host -> Nat]
  /\ exists \subseteq Host
  /\ packages \subseteq Platform
  /\ ticking \subseteq Checker
  /\ draft \in [Checker -> Row]
  /\ fresh \in [Checker -> [Host -> Nat]]
  /\ made \in [Checker -> 0..MaxWavesPerTick]
  /\ \A c \in Checker \ ticking : made[c] = 0
  /\ requested \subseteq Host /\ gone \subseteq Host
  /\ returned \in BOOLEAN

Init ==
  /\ row = Blank /\ reason = TRUE /\ sent = NoTasks
  /\ exists = Host /\ packages = Platform
  /\ ticking = {} /\ draft = [c \in Checker |-> Blank]
  /\ fresh = [c \in Checker |-> NoTasks] /\ made = [c \in Checker |-> 0]
  /\ requested = {} /\ gone = {} /\ returned = FALSE

-----------------------------------------------------------------------------
(* Waves.                                                                  *)

\* build_agent_update_plan: the targets that exist and have a package, in order.
Plan(targets) == {h \in targets \cap exists : PlatformOf[h] \in packages}

Rank(h, S) == Cardinality({g \in S : g < h})

WaveTotal(S) == (Cardinality(S) + WaveSize - 1) \div WaveSize

\* Mutant of Wave: waves are counted from zero.
WaveFromZero(S, i) == {h \in S : i * WaveSize <= Rank(h, S) /\ Rank(h, S) < (i + 1) * WaveSize}

\* The slice of the plan that wave i updates.
Wave(S, i) == {h \in S : (i - 1) * WaveSize <= Rank(h, S) /\ Rank(h, S) < i * WaveSize}

-----------------------------------------------------------------------------
(* Administrators, agents, the clock.                                      *)

\* run_fleet_update; a row of an older server version has no launch reason.
Launch ==
  /\ row.status = "none"
  /\ \E targets \in SUBSET Plan(Host) \ {{}} :
       /\ row' = [status |-> "Running", next |-> 1, targets |-> targets, due |-> TRUE]
       /\ requested' = targets
  /\ reason' \in BOOLEAN
  /\ UNCHANGED <<sent, exists, packages, tick, gone, returned>>

\* next_run_at is reached.
TimePasses ==
  /\ row.status = "Running" /\ ~row.due
  /\ row' = [row EXCEPT !.due = TRUE]
  /\ UNCHANGED <<reason, sent, exists, packages, tick, history>>

\* Mutant of Cancel: the row is written without waiting for its lock.
CancelUnlocked ==
  /\ row.status \in {"Running", "Reason required"}
  /\ row' = [row EXCEPT !.status = "Cancelled"]
  /\ UNCHANGED <<reason, sent, exists, packages, tick, history>>

\* cancel_agent_update_rollout waits for the lock and reads the row behind it.
Cancel ==
  /\ ticking = {}
  /\ row.status \in {"Running", "Reason required"}
  /\ row' = [row EXCEPT !.status = "Cancelled"]
  /\ UNCHANGED <<reason, sent, exists, packages, tick, history>>

Lose(hosts) ==
  /\ gone' = IF row.status = "Running" THEN gone \cup hosts ELSE gone
  /\ UNCHANGED <<row, reason, sent, tick, requested, returned>>

\* A host that an uncommitted task refers to cannot be deleted.
DeleteHost(h) ==
  /\ h \in exists
  /\ \A c \in ticking : fresh[c][h] = 0
  /\ exists' = exists \ {h}
  /\ Lose({h})
  /\ UNCHANGED packages

\* delete_agent_package
WithdrawPackage(p) ==
  /\ p \in packages
  /\ packages' = packages \ {p}
  /\ Lose({h \in Host : PlatformOf[h] = p})
  /\ UNCHANGED exists

\* A deleted host enrols again under its hardware id.
EnrolHost(h) ==
  /\ h \in Host \ exists
  /\ exists' = exists \cup {h}
  /\ UNCHANGED <<row, reason, sent, packages, tick, history>>

\* The version's package for p is uploaded again.
UploadPackage(p) ==
  /\ p \in Platform \ packages
  /\ packages' = packages \cup {p}
  /\ returned' = (returned \/ row.status = "Running")
  /\ UNCHANGED <<row, reason, sent, exists, tick, requested, gone>>

-----------------------------------------------------------------------------
(* process_due_agent_update_rollouts.                                      *)

\* Mutant of TickBegins: the row is read without a lock.
TickBeginsUnlocked(c) ==
  /\ c \notin ticking
  /\ row.status = "Running" /\ row.due
  /\ ticking' = ticking \cup {c}
  /\ draft' = [draft EXCEPT ![c] = row]
  /\ UNCHANGED <<row, reason, sent, exists, packages, fresh, made, history>>

\* A due row is locked; one that another transaction holds is passed over.
TickBegins(c) ==
  /\ ticking = {}
  /\ row.status = "Running" /\ row.due
  /\ ticking' = {c}
  /\ draft' = [draft EXCEPT ![c] = row]
  /\ UNCHANGED <<row, reason, sent, exists, packages, fresh, made, history>>

\* The condition of the loop over waves.
MoreWaves(c) ==
  draft[c].status = "Running" /\ draft[c].due /\ made[c] < MaxWavesPerTick

\* process_one_agent_update_rollout has no reason to give to its tasks.
ReasonRequired(c) ==
  /\ c \in ticking /\ MoreWaves(c) /\ ~reason
  /\ draft' = [draft EXCEPT ![c].status = "Reason required", ![c].due = FALSE]
  /\ UNCHANGED <<row, reason, sent, exists, packages, ticking, fresh, made, history>>

\* Mutant of NothingLeft: it returns without closing the rollout.
NothingLeftStaysOpen(c) ==
  /\ c \in ticking /\ MoreWaves(c) /\ reason
  /\ draft[c].next > WaveTotal(Plan(draft[c].targets))
  /\ draft' = [draft EXCEPT ![c].due = FALSE, ![c].targets = @ \cap exists]
  /\ UNCHANGED <<row, reason, sent, exists, packages, ticking, fresh, made, history>>

\* Missing hosts leave target_ids; the plan is cut into waves anew.  Nothing is left
\* to be planned, or all waves are made.
NothingLeft(c) ==
  /\ c \in ticking /\ MoreWaves(c) /\ reason
  /\ draft[c].next > WaveTotal(Plan(draft[c].targets))
  /\ draft' = [draft EXCEPT ![c].status = "Completed", ![c].targets = @ \cap exists]
  /\ UNCHANGED <<row, reason, sent, exists, packages, ticking, fresh, made, history>>

\* create_agent_update_wave: a task for each host of the wave; the last wave closes
\* the rollout, another is due after the delay, which may be over already.
MakeWave(c) ==
  LET plan == Plan(draft[c].targets)
      next == draft[c].next
  IN /\ c \in ticking /\ MoreWaves(c) /\ reason
     /\ next <= WaveTotal(plan)
     /\ fresh' = [fresh EXCEPT ![c] =
          [h \in Host |-> IF h \in Wave(plan, next) THEN @[h] + 1 ELSE @[h]]]
     /\ \E due \in IF next < WaveTotal(plan) THEN BOOLEAN ELSE {TRUE} :
          draft' = [draft EXCEPT ![c] =
            [status |-> IF next < WaveTotal(plan) THEN "Running" ELSE "Completed",
             next |-> next + 1,
             targets |-> @.targets \cap exists,
             due |-> due]]
     /\ made' = [made EXCEPT ![c] = @ + 1]
     /\ UNCHANGED <<row, reason, sent, exists, packages, ticking, history>>

\* The transaction of c is over.
Release(c) ==
  /\ ticking' = ticking \ {c}
  /\ draft' = [draft EXCEPT ![c] = Blank]
  /\ fresh' = [fresh EXCEPT ![c] = NoTasks]
  /\ made' = [made EXCEPT ![c] = 0]

Commit(c) ==
  /\ c \in ticking /\ ~MoreWaves(c)
  /\ row' = draft[c]
  /\ sent' = [h \in Host |-> sent[h] + fresh[c][h]]
  /\ Release(c)
  /\ UNCHANGED <<reason, exists, packages, history>>

\* An exception, such as a host deleted under its new task, or the process's death.
Rollback(c) ==
  /\ c \in ticking
  /\ Release(c)
  /\ UNCHANGED <<row, reason, sent, exists, packages, history>>

ProcessOne(c) == ReasonRequired(c) \/ NothingLeft(c) \/ MakeWave(c)

Environment ==
  \/ Launch
  \/ TimePasses
  \/ Cancel
  \/ \E h \in Host : DeleteHost(h) \/ EnrolHost(h)
  \/ \E p \in Platform : WithdrawPackage(p) \/ UploadPackage(p)

Next ==
  \/ Environment
  \/ \E c \in Checker : TickBegins(c)
  \/ \E c \in Checker : ProcessOne(c)
  \/ \E c \in Checker : Commit(c)
  \/ \E c \in Checker : Rollback(c)

Spec == Init /\ [][Next]_vars

\* Time goes on, the checkers come round every few seconds, and transactions may be
\* rolled back for ever, but not at the same point of it each time.
FairSpec ==
  /\ Spec
  /\ WF_vars(TimePasses)
  /\ \A c \in Checker :
       /\ WF_vars(TickBegins(c))
       /\ \A k \in 0..(MaxWavesPerTick - 1) : SF_vars(made[c] = k /\ ProcessOne(c))
       /\ SF_vars(Commit(c))

-----------------------------------------------------------------------------
(* Properties.                                                             *)

\* No host is given the update twice, although waves are cut anew from a plan that
\* shrinks, two checkers work on it, and transactions are rolled back and repeated;
\* only a package that comes back can move an updated host into a later wave.
UpdatedAtMostOnce == ~returned => \A h \in Host : sent[h] <= 1

\* A closed rollout stays closed and makes no more tasks, also when a checker is at
\* work while it is cancelled (infrastructure.js:6175).
ClosedIsClosed ==
  [][row.status \in {"Completed", "Cancelled"} =>
       row'.status = row.status /\ sent' = sent]_vars

Missed == {h \in requested \ gone : sent[h] = 0}

\* When the rollout is complete, the hosts it has passed over are no more than the
\* updated hosts that were deleted, or lost their package, while it ran.
MissedForRemoved ==
  row.status = "Completed" /\ ~returned =>
    Cardinality(Missed) <= Cardinality({h \in gone : sent[h] > 0})

\* A rollout does not run for ever.
RolloutEnds == row.status = "Running" ~> row.status # "Running"
=============================================================================
