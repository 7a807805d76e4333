---------------------------- MODULE TaskDelivery ----------------------------
(***************************************************************************)
(* One endpoint's tasks from dispatch to final status: the task rows of    *)
(* the server (core/agent_gateway.py, Infrastructure/routes.py,            *)
(* core/__init__.py), the HTTP calls between agent and server, and the     *)
(* agent's sequential worker loop (WinHUBLinuxAgent/Worker.cs) with the    *)
(* state it keeps on disk: execution journal, task-signing-state.json and  *)
(* the runtime config.                                                     *)
(*                                                                         *)
(* A request handler of the server is one step: it runs its queries on a   *)
(* connection that does not yield to other handlers and commits once.  A   *)
(* call may be answered, fail, or be given up by the agent and processed   *)
(* by the server later (`late`).  The agent may die between any two steps. *)
(* The journal is used through TaskLedger, which ExecutionJournal is shown *)
(* to implement.  Task ids are numbers in order of created_at.             *)
(***************************************************************************)
EXTENDS Integers, FiniteSets

CONSTANTS
  TaskId,       \* task ids, in creation order
  Prepare,      \* Prepare[t]: the updater preparation t waits for, or NoTask
  Reboots,      \* tasks whose action is "reboot"
  Deadlined,    \* tasks whose payload has a __deadline_utc
  MaxPending,   \* capacity of the agent's journal (32 in the code)
  RestartAfter, \* RestartAfterConsecutivePollFailures (10 by default), 0: never
  MaxLate,      \* bound: calls given up by the agent and still in flight
  MaxRestores,  \* bound: database restores
  AllowDelete,  \* TRUE: administrators delete task rows
  Faults,       \* TRUE: the agent's file writes may throw
  Crashes       \* TRUE: the agent may be killed at any time

NoTask == 0

ASSUME TaskIdAssumption == TaskId \subseteq Nat \ {NoTask}
ASSUME PrepareAssumption ==
  /\ Prepare \in [TaskId -> TaskId \cup {NoTask}]
  /\ \A t \in TaskId : Prepare[t] < t
ASSUME KindAssumption == Reboots \subseteq TaskId /\ Deadlined \subseteq TaskId
ASSUME BoundAssumption ==
  /\ MaxPending \in Nat /\ RestartAfter \in Nat /\ MaxLate \in Nat /\ MaxRestores \in Nat
  /\ AllowDelete \in BOOLEAN /\ Faults \in BOOLEAN /\ Crashes \in BOOLEAN

VARIABLES
  status,     \* status[t]: AgentTask.status; "none" before dispatch
  issued,     \* Endpoint.task_signing_sequence
  backup,     \* the database dump a restore brings back
  restores,   \* how many restores there have been
  call,       \* the call the agent is waiting for, NoCall if it has reached the server
  late,       \* calls the agent gave up that may still reach the server
  reply,      \* the answer on its way to the agent
  ledger,     \* the execution journal, see TaskLedger
  outcome,    \* the outcome recorded in the journal
  seqOf,      \* sequence recorded in the journal
  sequence,   \* _config.TaskSigningLastSequence in memory
  stateSeq,   \* the sequence in task-signing-state.json, 0 if there is no file
  configSeq,  \* the sequence in the runtime config
  pc,         \* where the worker is
  cur,        \* the task whose result the worker sends, or which it executes
  failed,     \* the task whose Complete threw (_executionPersistenceFault)
  misses,     \* consecutivePollFailures, 0 while RestartAfter is 0
  runs,       \* history: how often t's action was started on the host
  withdrawn   \* history: tasks closed or deleted before any agent got them

server == <<status, issued, withdrawn>>
dump == <<backup, restores>>
net == <<call, late, reply>>
journal == <<ledger, outcome, seqOf>>
pins == <<sequence, stateSeq, configSeq>>
worker == <<pc, cur, failed, misses>>
history == <<runs>>
vars == <<server, dump, net, journal, pins, worker, history>>

Outcomes == {"Success", "Error", "Unknown"}
Final == {"Success", "Error", "Cancelled"}
Open == {"Pending", "PickedUp"}
Statuses == {"none", "deleted"} \cup Open \cup Final

NoCall == [kind |-> "none", task |-> NoTask, outcome |-> "none"]
Poll == [kind |-> "poll", task |-> NoTask, outcome |-> "none"]
Result(t) == [kind |-> "result", task |-> t, outcome |-> outcome[t]]
Calls == {Poll} \cup [kind : {"result"}, task : TaskId, outcome : Outcomes]

NoReply == [kind |-> "none", task |-> NoTask, seq |-> 0]
Answer(kind) == [kind |-> kind, task |-> NoTask, seq |-> 0]
Envelope(t, s) == [kind |-> "task", task |-> t, seq |-> s]

Awaiting == {"flushing", "polling", "reporting"}
Places == Awaiting \cup {"down", "recovering", "flush", "poll", "saveState",
                         "saveConfig", "execute", "running", "report", "reboot"}

Journal == INSTANCE TaskLedger

TypeOK ==
  /\ status \in [TaskId -> Statuses]
  /\ issued \in Nat
  /\ backup \in [status : [TaskId -> Statuses], issued : Nat]
  /\ restores \in 0..MaxRestores
  /\ call \in Calls \cup {NoCall}
  /\ late \subseteq Calls
  /\ reply \in [kind : {"none", "idle", "task", "success", "error"},
                task : TaskId \cup {NoTask}, seq : Nat]
  /\ Journal!LTypeOK
  /\ seqOf \in [TaskId -> Nat]
  /\ sequence \in Nat /\ stateSeq \in Nat /\ configSeq \in Nat
  /\ pc \in Places
  /\ cur \in TaskId \cup {NoTask}
  /\ failed \in TaskId \cup {NoTask}
  /\ misses \in Nat /\ (misses > 0 => misses < RestartAfter)
  /\ runs \in [TaskId -> Nat]
  /\ withdrawn \subseteq TaskId

Init ==
  /\ status = [t \in TaskId |-> "none"]
  /\ issued = 0
  /\ backup = [status |-> status, issued |-> 0]
  /\ restores = 0
  /\ call = NoCall /\ late = {} /\ reply = NoReply
  /\ ledger = [t \in TaskId |-> "absent"]
  /\ outcome = [t \in TaskId |-> "none"]
  /\ seqOf = [t \in TaskId |-> 0]
  /\ sequence = 0 /\ stateSeq = 0 /\ configSeq = 0
  /\ pc = "down" /\ cur = NoTask /\ failed = NoTask /\ misses = 0
  /\ runs = [t \in TaskId |-> 0]
  /\ withdrawn = {}

-----------------------------------------------------------------------------
(* The server: administrators and scheduled jobs.                          *)

\* The tasks one job has for this endpoint: an update and its preparation.
Job(t) == {u \in TaskId : u = t \/ Prepare[u] = t \/ Prepare[t] = u}

\* The statuses of the tasks of S become s; those never handed out are withdrawn.
Close(S, s) ==
  /\ status' = [t \in TaskId |-> IF t \in S THEN s ELSE status[t]]
  /\ withdrawn' = withdrawn \cup {t \in S : status[t] = "Pending"}
  /\ UNCHANGED <<issued, dump, net, journal, pins, worker, history>>

\* A job is dispatched; its tasks are younger than every task before them.
Dispatch(t) ==
  /\ \A u \in Job(t) : status[u] = "none"
  /\ \A u \in TaskId : u < t /\ u \notin Job(t) => status[u] # "none"
  /\ status' = [u \in TaskId |-> IF u \in Job(t) THEN "Pending" ELSE status[u]]
  /\ UNCHANGED <<issued, withdrawn, dump, net, journal, pins, worker, history>>

\* cancel_pending_job: every open task of the job, also one already handed out.
CancelPendingJob(t) ==
  /\ \E u \in Job(t) : status[u] \in Open
  /\ Close({u \in Job(t) : status[u] \in Open}, "Cancelled")

\* delete_job and cleanup_tasks remove rows whatever their status.
DeleteJob(t) ==
  /\ AllowDelete
  /\ status[t] \notin {"none", "deleted"}
  /\ Close({u \in Job(t) : status[u] # "none"}, "deleted")

\* scheduled_cleanup: picked-up tasks created before the threshold, and open tasks
\* whose deadline has passed, become errors in one transaction.
ScheduledCleanup ==
  \E threshold \in TaskId \cup {NoTask}, overdue \in SUBSET Deadlined :
    LET zombies == {t \in TaskId : t <= threshold /\ status[t] = "PickedUp"}
        late_ones == {t \in overdue : status[t] \in Open}
    IN /\ zombies \cup late_ones # {}
       /\ Close(zombies \cup late_ones, "Error")

\* backup_winhub.sh dumps the database while the server runs.
Backup ==
  /\ restores < MaxRestores
  /\ backup' = [status |-> status, issued |-> issued]
  /\ UNCHANGED <<server, restores, net, journal, pins, worker, history>>

\* restore_winhub.sh stops the server, brings the dump back and starts it again.
\* Rows younger than the dump are gone; a task dumped as Pending is on offer again.
Restore ==
  /\ restores < MaxRestores
  /\ restores' = restores + 1
  /\ status' = [t \in TaskId |->
       IF backup.status[t] = "none" /\ status[t] # "none" THEN "deleted"
       ELSE backup.status[t]]
  /\ issued' = backup.issued
  /\ call' = NoCall /\ late' = {}
  /\ UNCHANGED <<withdrawn, backup, reply, journal, pins, worker, history>>

-----------------------------------------------------------------------------
(* The server: the agent gateway.                                          *)

\* The call c reaches a handler, which answers r: the agent hears it only if it
\* is still waiting for that call.
Handle(c, r) ==
  \/ c = call /\ call' = NoCall /\ reply' = r /\ UNCHANGED late
  \/ c \in late /\ late' = late \ {c} /\ UNCHANGED <<call, reply>>

\* Mutant of Waiting: a cancelled task is still on offer.
WaitingOrCancelled(t) == status[t] \in {"Pending", "Cancelled"}

\* Tasks a poll may be answered with.
Waiting(t) == status[t] = "Pending"

Oldest(t) == Waiting(t) /\ \A u \in TaskId : u < t => ~Waiting(u)

\* Mutant of Prepared: a preparation still on its way counts as done.
PreparedUnlessFailed(t) ==
  IF Prepare[t] = NoTask THEN "ready"
  ELSE IF status[Prepare[t]] \in Open \cup {"Success"} THEN "ready" ELSE "failed"

\* update_preparation_state
Prepared(t) ==
  IF Prepare[t] = NoTask THEN "ready"
  ELSE CASE status[Prepare[t]] = "Success" -> "ready"
         [] status[Prepare[t]] \in Open -> "wait"
         [] OTHER -> "failed"

\* The oldest pending task is handed out under the next sequence number.
PollDelivers(t) ==
  /\ Oldest(t) /\ Prepared(t) = "ready"
  /\ Handle(Poll, Envelope(t, issued + 1))
  /\ issued' = issued + 1
  /\ status' = [status EXCEPT ![t] = "PickedUp"]
  /\ UNCHANGED <<withdrawn, dump, journal, pins, worker, history>>

\* An update whose preparation failed, or is gone, is closed instead.
PollRejects(t) ==
  /\ Oldest(t) /\ Prepared(t) = "failed"
  /\ Handle(Poll, Answer("idle"))
  /\ status' = [status EXCEPT ![t] = "Error"]
  /\ withdrawn' = withdrawn \cup {t}
  /\ UNCHANGED <<issued, dump, journal, pins, worker, history>>

\* Nothing to hand out, or the oldest task waits for its preparation.  For some
\* seconds after a miss pending_task_miss_cache also hides a task just dispatched.
PollIdle ==
  /\ Handle(Poll, Answer("idle"))
  /\ UNCHANGED <<server, dump, journal, pins, worker, history>>

\* /result without a row for the task: 404.
ResultUnknownTask(t) ==
  /\ status[t] \in {"none", "deleted"}
  /\ \E o \in Outcomes :
       Handle([kind |-> "result", task |-> t, outcome |-> o], Answer("error"))
  /\ UNCHANGED <<server, dump, journal, pins, worker, history>>

\* Mutant of ResultFinalizes: the first final status is not protected.
ResultOverwrites(t) ==
  /\ status[t] \in Open \cup {"Error"}
  /\ \E o \in Outcomes :
       /\ Handle([kind |-> "result", task |-> t, outcome |-> o], Answer("success"))
       /\ status' = [status EXCEPT ![t] = IF o = "Success" THEN o ELSE "Error"]
  /\ UNCHANGED <<issued, withdrawn, dump, journal, pins, worker, history>>


\* /result for a task that already has a final status: acknowledged, not applied.
ResultAlreadyFinal(t) ==
  /\ status[t] \in Final
  /\ \E o \in Outcomes :
       Handle([kind |-> "result", task |-> t, outcome |-> o], Answer("success"))
  /\ UNCHANGED <<server, dump, journal, pins, worker, history>>

\* /result closes an open task; the agent reports an unknown outcome as an error.
ResultFinalizes(t) ==
  /\ status[t] \in Open
  /\ \E o \in Outcomes :
       /\ Handle([kind |-> "result", task |-> t, outcome |-> o], Answer("success"))
       /\ status' = [status EXCEPT ![t] = IF o = "Success" THEN o ELSE "Error"]
  /\ UNCHANGED <<issued, withdrawn, dump, journal, pins, worker, history>>

-----------------------------------------------------------------------------
(* The agent: process and configuration.                                   *)

\* The call the agent was waiting for is over for it; the request is lost or is
\* still under way.
Forsake ==
  /\ call' = NoCall /\ reply' = NoReply
  /\ \/ UNCHANGED late
     \/ call # NoCall /\ Cardinality(late) < MaxLate /\ late' = late \cup {call}

\* The process is gone, and what it held in memory with it.
Stop ==
  /\ pc' = "down" /\ cur' = NoTask /\ failed' = NoTask /\ misses' = 0
  /\ sequence' = 0

\* Killed or powered off.
Crash ==
  /\ Crashes /\ pc # "down"
  /\ Stop
  /\ Forsake
  /\ UNCHANGED <<server, dump, journal, stateSeq, configSeq, history>>

\* A mass configuration sync writes a config without signing state.
ConfigSync ==
  /\ configSeq # 0
  /\ configSeq' = 0
  /\ UNCHANGED <<server, dump, net, journal, sequence, stateSeq, worker, history>>

Larger(a, b) == IF a >= b THEN a ELSE b

\* LoadTaskSigningState: the larger sequence wins and is written to both files.
Boot ==
  /\ pc = "down"
  /\ pc' = "recovering"
  /\ sequence' = Larger(stateSeq, configSeq)
  /\ stateSeq' = sequence' /\ configSeq' = sequence'
  /\ UNCHANGED <<server, dump, net, journal, cur, failed, misses, history>>

\* RecoverInterrupted: a claim left by an earlier process becomes an error report.
Recover(t) ==
  /\ pc = "recovering"
  /\ Journal!LFinish(t, "Unknown")
  /\ UNCHANGED <<server, dump, net, seqOf, pins, worker, history>>

Recovered ==
  /\ pc = "recovering"
  /\ \A t \in TaskId : ledger[t] # "claimed"
  /\ pc' = "flush"
  /\ UNCHANGED <<server, dump, net, journal, pins, cur, failed, misses, history>>

-----------------------------------------------------------------------------
(* The agent: the worker loop.  It first delivers the results the journal  *)
(* still holds, oldest sequence first, and stops at the first that is not  *)
(* acknowledged; then it polls.                                            *)

Deliverable == {t \in TaskId : ledger[t] = "result" /\ t # failed}

SendPending(t) ==
  /\ pc = "flush"
  /\ t \in Deliverable /\ \A u \in Deliverable : seqOf[t] <= seqOf[u]
  /\ call' = Result(t)
  /\ pc' = "flushing" /\ cur' = t
  /\ UNCHANGED <<server, dump, late, reply, journal, pins, failed, misses, history>>

\* PollServerAsync returned a timing: the streak of failures is over.
PollReturns == pc' = "flush" /\ cur' = NoTask /\ misses' = 0

\* PollServerAsync returned null: one more failure in a row; at the limit the process
\* exits and the service manager restarts it.  Otherwise f is the failed task.
PollReturnsNull(f) ==
  \/ /\ RestartAfter = 0 \/ misses + 1 < RestartAfter
     /\ misses' = IF RestartAfter = 0 THEN 0 ELSE misses + 1
     /\ pc' = "flush" /\ cur' = NoTask /\ failed' = f
     /\ UNCHANGED sequence
  \/ /\ RestartAfter > 0 /\ misses + 1 >= RestartAfter
     /\ Stop

\* Where the worker goes after sending a result.  A flush ends at the first result
\* that is not acknowledged; a reboot just reported, answered or not, is still to do.
AfterSend(acked) ==
  IF pc = "flushing"
  THEN pc' = (IF acked THEN "flush" ELSE "poll") /\ cur' = NoTask /\ UNCHANGED misses
  ELSE IF cur \in Reboots /\ outcome[cur] = "Success"
       THEN pc' = "reboot" /\ UNCHANGED <<cur, misses>>
       ELSE PollReturns

\* Only a success answer archives the result; the flush goes on with the next.
Acknowledged ==
  /\ pc \in {"flushing", "reporting"}
  /\ reply.kind = "success" /\ reply' = NoReply
  /\ Journal!LAcknowledge(cur)
  /\ AfterSend(TRUE)
  /\ UNCHANGED <<server, dump, call, late, seqOf, pins, failed, history>>

\* Mutant of NotAcknowledged: having sent the result is enough to archive it.
NotAcknowledgedButArchived ==
  /\ pc \in {"flushing", "reporting"}
  /\ Forsake
  /\ Journal!LAcknowledge(cur)
  /\ AfterSend(FALSE)
  /\ UNCHANGED <<server, dump, seqOf, pins, failed, history>>

\* Another answer, no answer, or an archive step that throws: the result is kept
\* for the next round and the flush is over.
NotAcknowledged ==
  /\ pc \in {"flushing", "reporting"}
  /\ Faults \/ reply.kind # "success"
  /\ Forsake
  /\ AfterSend(FALSE)
  /\ UNCHANGED <<server, dump, journal, pins, failed, history>>

FlushDone ==
  /\ pc = "flush" /\ Deliverable = {}
  /\ pc' = "poll"
  /\ UNCHANGED <<server, dump, net, journal, pins, cur, failed, misses, history>>

\* After a failed Complete the worker delivers results but polls no more.
SkipPoll ==
  /\ pc = "poll" /\ failed # NoTask
  /\ PollReturnsNull(failed)
  /\ UNCHANGED <<server, dump, net, journal, stateSeq, configSeq, history>>

StartPoll ==
  /\ pc = "poll" /\ failed = NoTask
  /\ call' = Poll
  /\ pc' = "polling"
  /\ UNCHANGED <<server, dump, late, reply, journal, pins, cur, failed, misses, history>>

PollAnsweredIdle ==
  /\ pc = "polling" /\ reply.kind = "idle" /\ reply' = NoReply
  /\ PollReturns
  /\ UNCHANGED <<server, dump, call, late, journal, pins, failed, history>>

\* The call fails, or its answer is lost with it.
PollFails ==
  /\ pc = "polling"
  /\ Forsake
  /\ PollReturnsNull(failed)
  /\ UNCHANGED <<server, dump, journal, stateSeq, configSeq, history>>

\* Mutant of Acceptable: the journal is not asked whether the id is known.
AcceptableBySequence(t, s) ==
  /\ s > sequence
  /\ Cardinality({u \in TaskId : ledger[u] \in {"claimed", "result"}}) < MaxPending

\* TaskEnvelope.Verify and Claim: a fresh sequence, an unknown id, room for it.
Acceptable(t, s) ==
  /\ s > sequence
  /\ ledger[t] = "absent"
  /\ Cardinality({u \in TaskId : ledger[u] \in {"claimed", "result"}}) < MaxPending

\* The offered task is written to the journal before anything else.
Record(t, s) ==
  /\ ledger' = [ledger EXCEPT ![t] = "claimed"]
  /\ seqOf' = [seqOf EXCEPT ![t] = s]
  /\ UNCHANGED outcome

ClaimTask(t) ==
  /\ pc = "polling" /\ reply = Envelope(t, reply.seq)
  /\ Acceptable(t, reply.seq)
  /\ Record(t, reply.seq)
  /\ sequence' = reply.seq
  /\ reply' = NoReply
  /\ pc' = "saveState" /\ cur' = t
  /\ UNCHANGED <<server, dump, call, late, stateSeq, configSeq, failed, misses, history>>

RefuseTask(t) ==
  /\ pc = "polling" /\ reply = Envelope(t, reply.seq)
  /\ ~Acceptable(t, reply.seq)
  /\ reply' = NoReply
  /\ PollReturns
  /\ UNCHANGED <<server, dump, call, late, journal, pins, failed, history>>

\* Mutant of ClaimFault: the sequence was taken over before the claim.
ClaimFaultAfterSequence(t) ==
  /\ Faults
  /\ pc = "polling" /\ reply = Envelope(t, reply.seq)
  /\ Acceptable(t, reply.seq)
  /\ sequence' = reply.seq
  /\ reply' = NoReply
  /\ PollReturns
  /\ UNCHANGED <<server, dump, call, late, journal, stateSeq, configSeq, failed, history>>

\* Claim throws before or after its record is in place; the task is not run.
ClaimFault(t) ==
  /\ Faults
  /\ pc = "polling" /\ reply = Envelope(t, reply.seq)
  /\ Acceptable(t, reply.seq)
  /\ Record(t, reply.seq) \/ UNCHANGED journal
  /\ reply' = NoReply
  /\ PollReturns
  /\ UNCHANGED <<server, dump, call, late, pins, failed, history>>

SaveState ==
  /\ pc = "saveState"
  /\ stateSeq' = sequence
  /\ pc' = "saveConfig"
  /\ UNCHANGED <<server, dump, net, journal, sequence, configSeq, cur, failed, misses, history>>

SaveConfig ==
  /\ pc = "saveConfig"
  /\ configSeq' = sequence
  /\ pc' = "execute"
  /\ UNCHANGED <<server, dump, net, journal, sequence, stateSeq, cur, failed, misses, history>>

\* One of the two writes throws, before or after its rename: the claimed task is
\* not run by this process.
SaveFault ==
  /\ Faults
  /\ \/ pc = "saveState" /\ stateSeq' \in {stateSeq, sequence} /\ UNCHANGED configSeq
     \/ pc = "saveConfig" /\ configSeq' \in {configSeq, sequence} /\ UNCHANGED stateSeq
  /\ PollReturns
  /\ UNCHANGED <<server, dump, net, journal, sequence, failed, history>>

\* The action is started on the host, unless it is a reboot.
Start ==
  /\ pc = "execute" /\ cur \notin Reboots
  /\ runs' = [runs EXCEPT ![cur] = @ + 1]
  /\ pc' = "running"
  /\ UNCHANGED <<server, dump, net, journal, pins, cur, failed, misses>>

\* Mutant of MayConclude: every action is reported before it is started.
MayConcludeEarly(o) ==
  \/ pc = "execute" /\ o \in {"Success", "Error"}
  \/ pc = "running" /\ o \in {"Success", "Error"}

\* What ReportResultAsync is called with: a denial by the local policy, the success
\* of a reboot not yet begun, or what the action came to.
MayConclude(o) ==
  \/ pc = "execute" /\ o = "Error"
  \/ pc = "execute" /\ cur \in Reboots /\ o = "Success"
  \/ pc = "running" /\ o \in {"Success", "Error"}

\* Complete: the outcome is on disk before it is sent.
Conclude(o) ==
  /\ MayConclude(o)
  /\ Journal!LFinish(cur, o)
  /\ pc' = "report"
  /\ UNCHANGED <<server, dump, net, seqOf, pins, cur, failed, misses, history>>

\* Complete throws before or after its record is in place; the exception leaves
\* PollServerAsync.
ConcludeFault(o) ==
  /\ Faults
  /\ MayConclude(o)
  /\ \/ Journal!LFinish(cur, o)
     \/ UNCHANGED <<ledger, outcome>>
  /\ PollReturnsNull(cur)
  /\ UNCHANGED <<server, dump, net, seqOf, stateSeq, configSeq, runs>>

\* The task's directory cannot be made, its script not be deleted afterwards, or
\* shutdown not be started: the exception leaves PollServerAsync and nothing is
\* recorded; a claim then stays as it is until the next boot.
RunFault ==
  /\ Faults
  /\ pc \in {"running", "reboot"} \/ (pc = "execute" /\ cur \notin Reboots)
  /\ PollReturnsNull(failed)
  /\ UNCHANGED <<server, dump, net, journal, stateSeq, configSeq, history>>

SendReport ==
  /\ pc = "report"
  /\ call' = Result(cur)
  /\ pc' = "reporting"
  /\ UNCHANGED <<server, dump, late, reply, journal, pins, cur, failed, misses, history>>

\* shutdown is started after the report, answered or not.
Reboot ==
  /\ pc = "reboot"
  /\ runs' = [runs EXCEPT ![cur] = @ + 1]
  /\ PollReturns
  /\ UNCHANGED <<server, dump, net, journal, pins, failed>>

-----------------------------------------------------------------------------
ServerStep ==
  \/ \E t \in TaskId : Dispatch(t)
  \/ \E t \in TaskId : CancelPendingJob(t)
  \/ \E t \in TaskId : DeleteJob(t)
  \/ ScheduledCleanup
  \/ Backup
  \/ Restore

GatewayStep ==
  \/ \E t \in TaskId : PollDelivers(t)
  \/ \E t \in TaskId : PollRejects(t)
  \/ PollIdle
  \/ \E t \in TaskId : ResultUnknownTask(t)
  \/ \E t \in TaskId : ResultAlreadyFinal(t)
  \/ \E t \in TaskId : ResultFinalizes(t)

AgentFault ==
  \/ Crash
  \/ ConfigSync
  \/ \E t \in TaskId : ClaimFault(t)
  \/ SaveFault
  \/ RunFault
  \/ \E o \in {"Success", "Error"} : ConcludeFault(o)

AgentStep ==
  \/ Boot
  \/ \E t \in TaskId : Recover(t)
  \/ Recovered
  \/ \E t \in TaskId : SendPending(t)
  \/ Acknowledged
  \/ NotAcknowledged
  \/ FlushDone
  \/ SkipPoll
  \/ StartPoll
  \/ PollAnsweredIdle
  \/ PollFails
  \/ \E t \in TaskId : ClaimTask(t)
  \/ \E t \in TaskId : RefuseTask(t)
  \/ SaveState
  \/ SaveConfig
  \/ Start
  \/ \E o \in {"Success", "Error"} : Conclude(o)
  \/ SendReport
  \/ Reboot

Next == ServerStep \/ GatewayStep \/ AgentFault \/ AgentStep

Spec == Init /\ [][Next]_vars

\* A result call the agent is still waiting for is handled.
ResultAnswered ==
  /\ \E t \in TaskId :
       ResultUnknownTask(t) \/ ResultAlreadyFinal(t) \/ ResultFinalizes(t)
  /\ reply' # reply

\* The service manager restarts the agent, every call and every script has a
\* timeout, so the worker never stops for good (AgentStep).  Crashes and lost calls
\* may go on for ever, but neither hits the same step each time it is tried: a
\* started agent gets to send its oldest result, the server to handle it, and the
\* answer to arrive, again and again until it has worked.
Fairness ==
  /\ WF_vars(AgentStep)
  /\ SF_vars(Boot)
  /\ SF_vars(\E t \in TaskId : Recover(t))
  /\ SF_vars(Recovered)
  /\ SF_vars(\E t \in TaskId : SendPending(t))
  /\ SF_vars(ResultAnswered)
  /\ SF_vars(Acknowledged)

FairSpec == Spec /\ Fairness

-----------------------------------------------------------------------------
(* Properties.                                                             *)

\* No task's action is started twice on the host, although calls are retried, the
\* server's database may be set back to a time when the task was still pending,
\* and its sequence counter with it (ExecutionJournal.cs:17, Worker.cs:1308).
RunAtMostOnce == \A t \in TaskId : runs[t] <= 1

\* An action is started only after its sequence number is in task-signing-state.json:
\* no crash and no mass sync of the runtime config lets the agent accept a number it
\* has already executed (WinHUBLinuxAgent/README.md:140).
RunIsDurable == \A t \in TaskId : runs[t] > 0 => seqOf[t] <= stateSeq

\* A sequence number the agent has taken over, in memory or in either file, belongs
\* to a journaled task: no accepted task is lost without a report.
SequenceIsJournaled ==
  {sequence, stateSeq, configSeq} \subseteq
    {0} \cup {seqOf[t] : t \in {u \in TaskId : ledger[u] # "absent"}}

\* An update is started only on a host whose own journal says that the preparation
\* succeeded, whatever the server was told when.
UpdateAfterPreparation ==
  \A t \in TaskId : runs[t] > 0 /\ Prepare[t] # NoTask => outcome[Prepare[t]] = "Success"

\* The server shows Success only for an action that was started and that ended in
\* success on the host; a reboot is reported before it is begun.
SuccessIsFaithful ==
  \A t \in TaskId : status[t] = "Success" =>
    outcome[t] = "Success" /\ (t \in Reboots \/ runs[t] > 0)

\* The agent stops delivering a result only when the server's row is final.
AcknowledgedIsFinal ==
  \A t \in TaskId : ledger[t] = "acknowledged" => status[t] \in Final \cup {"deleted"}

\* A task closed or deleted while still pending is never started.
WithdrawnNeverRuns == \A t \in withdrawn : runs[t] = 0

\* A final status is final: no late result, retried result, clean-up or poll
\* changes it; only deleting the row, or restoring a dump, does.
FinalIsFinal ==
  [][\A t \in TaskId : status[t] \in Final =>
       status'[t] \in {status[t], "deleted"} \/ restores' # restores]_vars

=============================================================================
