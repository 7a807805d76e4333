------------------------- MODULE TaskDeliveryProofs -------------------------
(***************************************************************************)
(* Theorems about TaskDelivery for every set of tasks, every bound and     *)
(* every combination of faults.  IInv has four parts: what the worker's    *)
(* place says about its task (WorkInv), where sequence numbers are         *)
(* (SequenceInv), that an outcome on its way to the server is the          *)
(* journal's (FaithInv), and that a task is only offered once its          *)
(* preparation succeeded (PreparationInv).  CallInv and RowInv relate the  *)
(* server's row to the answer under way and to the journal, until a dump   *)
(* is restored.                                                            *)
(***************************************************************************)
EXTENDS TaskDelivery, TLAPS

\* An id without a record has not run; the task being worked on has run exactly
\* as often as its place says.
WorkInv ==
  /\ RunAtMostOnce
  /\ \A t \in TaskId : ledger[t] = "absent" => runs[t] = 0
  /\ pc \in {"saveState", "saveConfig", "execute"} =>
       cur \in TaskId /\ ledger[cur] = "claimed" /\ runs[cur] = 0
  /\ pc = "running" =>
       cur \in TaskId \ Reboots /\ ledger[cur] = "claimed" /\ runs[cur] = 1
  /\ pc \in {"flushing", "report", "reporting"} => cur \in TaskId /\ ledger[cur] = "result"
  /\ pc \in {"report", "reporting"} /\ cur \in Reboots => runs[cur] = 0
  /\ pc = "reboot" => cur \in Reboots /\ ledger[cur] # "absent" /\ runs[cur] = 0

\* The number of the task being worked on is in memory from the claim, and in
\* task-signing-state.json before the task is started.
SequenceInv ==
  /\ RunIsDurable
  /\ pc # "down" => stateSeq <= sequence
  /\ pc = "saveState" => seqOf[cur] = sequence
  /\ pc \in {"saveConfig", "execute", "running", "report", "reporting", "reboot"} =>
       seqOf[cur] <= stateSeq

\* An outcome is written once; every result call carries the journal's outcome.
Finished(t) == ledger[t] \in {"result", "acknowledged"}
Earned(t) == outcome[t] = "Success" /\ (t \in Reboots \/ runs[t] > 0)

FaithInv ==
  /\ \A t \in TaskId : outcome[t] = "Success" => Finished(t) /\ Earned(t)
  /\ \A t \in TaskId : Finished(t) => outcome[t] # "none"
  /\ \A c \in late \cup {call} :
       c.kind = "result" => Finished(c.task) /\ c.outcome = outcome[c.task]
  /\ \A t \in TaskId : status[t] = "Success" => Earned(t)
  /\ \A t \in TaskId : backup.status[t] = "Success" => Earned(t)

\* Offered and journaled tasks have their preparation behind them.
Prepped(t) == Prepare[t] # NoTask => outcome[Prepare[t]] = "Success"

PreparationInv ==
  /\ reply.kind = "task" => reply.task \in TaskId /\ Prepped(reply.task)
  /\ \A t \in TaskId : ledger[t] # "absent" => Prepped(t)

IInv == TypeOK /\ WorkInv /\ SequenceInv /\ FaithInv /\ PreparationInv

-----------------------------------------------------------------------------
(* What the steps of the server leave alone, and what a call may become.   *)

LEMMA ServerFootprint ==
  ASSUME ServerStep \/ GatewayStep
  PROVE  UNCHANGED <<ledger, outcome, seqOf, pins, worker, runs>>
  BY DEF ServerStep, GatewayStep, Dispatch, CancelPendingJob, DeleteJob, ScheduledCleanup,
     Backup, Restore, Close, PollDelivers, PollRejects, PollIdle, ResultUnknownTask,
     ResultAlreadyFinal, ResultFinalizes, journal, pins, worker, history

\* The actions of the agent that touch neither its journal nor its place.
LEMMA QuietFootprint ==
  ASSUME ConfigSync \/ UNCHANGED vars
  PROVE  UNCHANGED <<server, dump, net, journal, sequence, stateSeq, worker, history>>
  BY DEF ConfigSync, vars, pins

-----------------------------------------------------------------------------
(* The worker's place and its task.                                        *)

LEMMA WorkPreserved == IInv /\ [Next]_vars => WorkInv'
<1> SUFFICES ASSUME IInv, [Next]_vars PROVE WorkInv'
  OBVIOUS
<1> USE DEF IInv, TypeOK, Journal!LTypeOK, WorkInv, RunAtMostOnce
<1>1. CASE ServerStep \/ GatewayStep
  BY <1>1, ServerFootprint DEF worker
<1>2. CASE ConfigSync \/ UNCHANGED vars
  BY <1>2, QuietFootprint DEF journal, worker, history
<1>3. CASE Crash \/ Boot \/ Recovered \/ FlushDone \/ StartPoll
  BY <1>3 DEF Crash, Boot, Recovered, FlushDone, StartPoll, Stop, journal, history
<1>4. ASSUME NEW t \in TaskId, Recover(t) PROVE WorkInv'
  BY <1>4 DEF Recover, Journal!LFinish, worker, history
<1>5. ASSUME NEW t \in TaskId, SendPending(t) PROVE WorkInv'
  BY <1>5 DEF SendPending, Deliverable, journal, history
<1>6. CASE Acknowledged
  BY <1>6 DEF Acknowledged, AfterSend, PollReturns, Journal!LAcknowledge, history
<1>7. CASE NotAcknowledged
  BY <1>7 DEF NotAcknowledged, AfterSend, PollReturns, journal, history
<1>8. CASE SkipPoll \/ PollAnsweredIdle \/ PollFails \/ RunFault
  BY <1>8 DEF SkipPoll, PollAnsweredIdle, PollFails, RunFault, PollReturns, PollReturnsNull, Stop,
     journal, history
<1>9. ASSUME NEW t \in TaskId, ClaimTask(t) PROVE WorkInv'
  BY <1>9 DEF ClaimTask, Acceptable, Record, history
<1>10. ASSUME NEW t \in TaskId, RefuseTask(t) PROVE WorkInv'
  BY <1>10 DEF RefuseTask, PollReturns, journal, history
<1>11. ASSUME NEW t \in TaskId, ClaimFault(t) PROVE WorkInv'
  BY <1>11 DEF ClaimFault, Acceptable, Record, PollReturns, journal, history
<1>12. CASE SaveState \/ SaveConfig \/ SaveFault
  BY <1>12 DEF SaveState, SaveConfig, SaveFault, PollReturns, journal, history
<1>13. CASE Start
  BY <1>13 DEF Start, journal
<1>14. ASSUME NEW o \in {"Success", "Error"}, Conclude(o) PROVE WorkInv'
  BY <1>14 DEF Conclude, MayConclude, Journal!LFinish, history
<1>15. ASSUME NEW o \in {"Success", "Error"}, ConcludeFault(o) PROVE WorkInv'
  BY <1>15 DEF ConcludeFault, MayConclude, Journal!LFinish, PollReturnsNull, Stop
<1>16. CASE SendReport
  BY <1>16 DEF SendReport, journal, history
<1>17. CASE Reboot
  BY <1>17, KindAssumption DEF Reboot, PollReturns, journal
<1>18. QED
  BY <1>1, <1>2, <1>3, <1>4, <1>5, <1>6, <1>7, <1>8, <1>9, <1>10, <1>11, <1>12, <1>13,
     <1>14, <1>15, <1>16, <1>17 DEF Next, AgentFault, AgentStep
-----------------------------------------------------------------------------
(* The initial states and the type invariant.                              *)

LEMMA InitEstablishes == Init => IInv
<1> SUFFICES ASSUME Init PROVE IInv
  OBVIOUS
<1> USE DEF Init
<1>1. TypeOK
  <2>1. /\ status \in [TaskId -> Statuses] /\ Journal!LTypeOK
        /\ seqOf \in [TaskId -> Nat] /\ runs \in [TaskId -> Nat]
    BY DEF Journal!LTypeOK, Journal!Stages, Statuses
  <2>2. reply \in [kind : {"none", "idle", "task", "success", "error"},
                  task : TaskId \cup {NoTask}, seq : Nat]
    BY DEF NoReply
  <2>3. restores \in 0..MaxRestores
    BY BoundAssumption
  <2>4. backup \in [status : [TaskId -> Statuses], issued : Nat]
    BY <2>1
  <2>5. pc \in Places
    BY DEF Places
  <2>6. call \in Calls \cup {NoCall} /\ late \subseteq Calls
    OBVIOUS
  <2>7. QED
    BY <2>1, <2>2, <2>3, <2>4, <2>5, <2>6 DEF TypeOK
<1>2. WorkInv /\ SequenceInv
  BY DEF WorkInv, SequenceInv, RunAtMostOnce, RunIsDurable
<1>3. FaithInv /\ PreparationInv
  BY DEF FaithInv, PreparationInv, Finished, NoCall, NoReply
<1>4. QED
  BY <1>1, <1>2, <1>3 DEF IInv

\* A handler answers one call that was on its way and adds none.
LEMMA HandleConsumes ==
  ASSUME NEW c, NEW r, Handle(c, r)
  PROVE  /\ c \in late \cup {call}
         /\ late' \subseteq late
         /\ call' \in {call, NoCall}
         /\ reply' \in {reply, r}
  BY DEF Handle

\* Giving up a call can only move it among the late ones.
LEMMA ForsakeMoves ==
  ASSUME Forsake
  PROVE  /\ call' = NoCall /\ reply' = NoReply
         /\ late' \subseteq late \cup {call}
         /\ call = NoCall => late' = late
  BY DEF Forsake

LEMMA ServerKeepsType ==
  ASSUME TypeOK, ServerStep PROVE TypeOK'
<1> USE DEF TypeOK
<1>1. ASSUME NEW t \in TaskId, Dispatch(t) PROVE TypeOK'
  BY <1>1 DEF Dispatch, Statuses, Open, dump, net, journal, pins, worker, history, Journal!LTypeOK
<1>2. ASSUME NEW S \in SUBSET TaskId, NEW s \in Statuses, Close(S, s) PROVE TypeOK'
  BY <1>2 DEF Close, dump, net, journal, pins, worker, history, Journal!LTypeOK
<1>3. ASSUME NEW t \in TaskId, CancelPendingJob(t) PROVE TypeOK'
  BY <1>3, <1>2 DEF CancelPendingJob, Job, Statuses, Final
<1>4. ASSUME NEW t \in TaskId, DeleteJob(t) PROVE TypeOK'
  BY <1>4, <1>2 DEF DeleteJob, Job, Statuses
<1>5. CASE ScheduledCleanup
  BY <1>5, <1>2, KindAssumption DEF ScheduledCleanup, Statuses, Final
<1>6. CASE Backup
  BY <1>6 DEF Backup, server, net, journal, pins, worker, history, Journal!LTypeOK
<1>7. CASE Restore
  BY <1>7, BoundAssumption DEF Restore, Statuses, journal, pins, worker, history, Journal!LTypeOK
<1>8. QED
  BY <1>1, <1>3, <1>4, <1>5, <1>6, <1>7 DEF ServerStep

LEMMA GatewayKeepsType ==
  ASSUME TypeOK, GatewayStep PROVE TypeOK'
<1> USE DEF TypeOK, Handle, dump, journal, pins, worker, history, Journal!LTypeOK
<1>1. ASSUME NEW t \in TaskId, PollDelivers(t) PROVE TypeOK'
  BY <1>1 DEF PollDelivers, Envelope, Statuses, Open
<1>2. ASSUME NEW t \in TaskId, PollRejects(t) PROVE TypeOK'
  BY <1>2 DEF PollRejects, Answer, Statuses, Final
<1>3. CASE PollIdle
  BY <1>3 DEF PollIdle, Answer, server
<1>4. ASSUME NEW t \in TaskId, ResultUnknownTask(t) PROVE TypeOK'
  BY <1>4 DEF ResultUnknownTask, Answer, server
<1>5. ASSUME NEW t \in TaskId, ResultAlreadyFinal(t) PROVE TypeOK'
  BY <1>5 DEF ResultAlreadyFinal, Answer, server
<1>6. ASSUME NEW t \in TaskId, ResultFinalizes(t) PROVE TypeOK'
  BY <1>6 DEF ResultFinalizes, Answer, Statuses, Final
<1>7. QED
  BY <1>1, <1>2, <1>3, <1>4, <1>5, <1>6 DEF GatewayStep

LEMMA AgentKeepsType ==
  ASSUME IInv, AgentFault \/ AgentStep PROVE TypeOK'
<1>1. TypeOK /\ WorkInv /\ (\A t \in TaskId : Finished(t) => outcome[t] \in Outcomes)
  BY DEF IInv, FaithInv, TypeOK, Journal!LTypeOK
<1> USE <1>1, ForsakeMoves DEF TypeOK, Journal!LTypeOK, Journal!Stages
<1>2. CASE Crash \/ ConfigSync \/ Boot
  <2>1. CASE Crash
    BY <2>1 DEF Crash, Stop, NoReply, Places, server, dump, journal, history
  <2>2. CASE ConfigSync
    BY <2>2 DEF ConfigSync, server, dump, net, journal, worker, history
  <2>3. CASE Boot
    BY <2>3 DEF Boot, Larger, Places, server, dump, net, journal, history
  <2>4. QED
    BY <1>2, <2>1, <2>2, <2>3
<1>3. CASE Recovered \/ FlushDone
  BY <1>3 DEF Recovered, FlushDone, Places, server, dump, net, journal, pins, history
<1>4. ASSUME NEW t \in TaskId, Recover(t) PROVE TypeOK'
  BY <1>4 DEF Recover, Journal!LFinish, Outcomes, server, dump, net, pins, worker, history
<1>5. CASE (\E t \in TaskId : SendPending(t)) \/ StartPoll \/ SendReport
  <2>1. \A t \in TaskId : ledger[t] = "result" => Result(t) \in Calls
    BY DEF Result, Calls, Finished
  <2>2. /\ Poll \in Calls
        /\ {"flushing", "polling", "reporting"} \subseteq Places
    BY DEF Calls, Places, Awaiting
  <2>3. QED
    BY <1>5, <2>1, <2>2 DEF SendPending, StartPoll, SendReport, Deliverable, WorkInv,
       server, dump, journal, pins, history
<1>6. CASE Acknowledged \/ NotAcknowledged
  BY <1>6 DEF Acknowledged, NotAcknowledged, AfterSend, PollReturns, NoReply, Places,
     Journal!LAcknowledge, server, dump, journal, pins, history
<1>7. CASE SkipPoll \/ PollAnsweredIdle \/ PollFails \/ RunFault
  BY <1>7, BoundAssumption DEF SkipPoll, PollAnsweredIdle, PollFails, RunFault, PollReturns, PollReturnsNull,
     Stop, NoReply, Places, server, dump, net, journal, pins, history
<1>8. ASSUME NEW t \in TaskId, ClaimTask(t) \/ RefuseTask(t) \/ ClaimFault(t) PROVE TypeOK'
  BY <1>8 DEF ClaimTask, RefuseTask, ClaimFault, Record, PollReturns, NoReply, Places,
     server, dump, journal, pins, history
<1>9. CASE SaveState \/ SaveConfig \/ SaveFault
  BY <1>9 DEF SaveState, SaveConfig, SaveFault, PollReturns, Places,
     server, dump, net, journal, pins, history
<1>10. CASE Start \/ Reboot
  BY <1>10 DEF Start, Reboot, PollReturns, Places, server, dump, net, journal, pins
<1>11. ASSUME NEW o \in {"Success", "Error"}, Conclude(o) PROVE TypeOK'
  BY <1>11 DEF Conclude, Journal!LFinish, Outcomes, Places, server, dump, net, pins, history
<1>12. ASSUME NEW o \in {"Success", "Error"}, ConcludeFault(o) PROVE TypeOK'
  BY <1>12, BoundAssumption DEF ConcludeFault, Journal!LFinish, PollReturnsNull, Stop, Outcomes,
     Places, server, dump, net
<1>13. QED
  BY <1>2, <1>3, <1>4, <1>5, <1>6, <1>7, <1>8, <1>9, <1>10, <1>11, <1>12
     DEF AgentFault, AgentStep

LEMMA TypePreserved == IInv /\ [Next]_vars => TypeOK'
<1> SUFFICES ASSUME IInv, [Next]_vars PROVE TypeOK'
  OBVIOUS
<1>1. CASE UNCHANGED vars
  BY <1>1 DEF IInv, TypeOK, Journal!LTypeOK, vars, server, dump, net, journal, pins, worker, history
<1>2. QED
  BY <1>1, ServerKeepsType, GatewayKeepsType, AgentKeepsType DEF IInv, Next

-----------------------------------------------------------------------------
(* Sequence numbers: the file only moves forward, and never past memory.   *)

LEMMA SequencePreserved == IInv /\ [Next]_vars => SequenceInv'
<1> SUFFICES ASSUME IInv, [Next]_vars PROVE SequenceInv'
  OBVIOUS
<1> USE DEF IInv, TypeOK, Journal!LTypeOK, WorkInv, SequenceInv, RunIsDurable
<1>1. CASE ServerStep \/ GatewayStep
  BY <1>1, ServerFootprint DEF journal, pins, worker
<1>2. CASE ConfigSync \/ UNCHANGED vars
  BY <1>2, QuietFootprint DEF journal, worker, history
<1>3. CASE Crash \/ Recovered \/ FlushDone \/ StartPoll
  BY <1>3 DEF Crash, Recovered, FlushDone, StartPoll, Stop, journal, pins, history
<1>4. CASE Boot
  BY <1>4 DEF Boot, Larger, journal, history
<1>5. ASSUME NEW t \in TaskId, Recover(t) \/ SendPending(t) PROVE SequenceInv'
  BY <1>5 DEF Recover, SendPending, journal, pins, worker, history
<1>6. CASE Acknowledged \/ NotAcknowledged
  BY <1>6 DEF Acknowledged, NotAcknowledged, AfterSend, PollReturns, journal, pins, history
<1>7. CASE SkipPoll \/ PollAnsweredIdle \/ PollFails \/ RunFault
  BY <1>7 DEF SkipPoll, PollAnsweredIdle, PollFails, RunFault, PollReturns, PollReturnsNull, Stop,
     journal, pins, history
<1>8. ASSUME NEW t \in TaskId, ClaimTask(t) PROVE SequenceInv'
  BY <1>8 DEF ClaimTask, Acceptable, Record, history
<1>9. ASSUME NEW t \in TaskId, RefuseTask(t) \/ ClaimFault(t) PROVE SequenceInv'
  BY <1>9 DEF RefuseTask, ClaimFault, Acceptable, Record, PollReturns, journal, pins, history
<1>10. CASE SaveState \/ SaveConfig \/ SaveFault
  BY <1>10 DEF SaveState, SaveConfig, SaveFault, PollReturns, journal, history
<1>11. CASE Start \/ Reboot
  BY <1>11, KindAssumption DEF Start, Reboot, PollReturns, journal, pins
<1>12. ASSUME NEW o \in {"Success", "Error"}, Conclude(o) PROVE SequenceInv'
  BY <1>12 DEF Conclude, MayConclude, pins, history
<1>13. ASSUME NEW o \in {"Success", "Error"}, ConcludeFault(o) PROVE SequenceInv'
  BY <1>13 DEF ConcludeFault, MayConclude, PollReturnsNull, Stop
<1>14. CASE SendReport
  BY <1>14 DEF SendReport, journal, pins, history
<1>15. QED
  BY <1>1, <1>2, <1>3, <1>4, <1>5, <1>6, <1>7, <1>8, <1>9, <1>10, <1>11, <1>12, <1>13, <1>14
     DEF Next, AgentFault, AgentStep

-----------------------------------------------------------------------------
(* Outcomes: written once, by the task's own conclusion, and carried as    *)
(* they are to the server.                                                 *)

\* A finished task stays as it is; a task just finished has an outcome it earned.
Forward ==
  \A t \in TaskId :
    /\ runs'[t] >= runs[t]
    /\ Finished(t) => Finished(t)' /\ outcome'[t] = outcome[t]
    /\ ~Finished(t) /\ Finished(t)' =>
         /\ outcome'[t] # "none"
         /\ outcome'[t] = "Success" => t \in Reboots \/ runs'[t] > 0
    /\ ~Finished(t)' => outcome'[t] = outcome[t]
    /\ ledger'[t] = "absent" => ledger[t] = "absent"

LEMMA AgentForward == ASSUME IInv, AgentFault \/ AgentStep PROVE Forward
<1> USE DEF IInv, TypeOK, Journal!LTypeOK, Forward, Finished
<1>1. CASE Crash \/ ConfigSync \/ Boot \/ Recovered \/ FlushDone \/ StartPoll \/ SendReport
            \/ SkipPoll \/ PollAnsweredIdle \/ PollFails \/ RunFault
  BY <1>1 DEF Crash, ConfigSync, Boot, Recovered, FlushDone, StartPoll, SendReport, SkipPoll,
     PollAnsweredIdle, PollFails, RunFault, journal, history
<1>2. ASSUME NEW t \in TaskId, Recover(t) PROVE Forward
  BY <1>2 DEF Recover, Journal!LFinish, history
<1>3. ASSUME NEW t \in TaskId, SendPending(t) \/ RefuseTask(t) PROVE Forward
  BY <1>3 DEF SendPending, RefuseTask, journal, history
<1>4. CASE Acknowledged \/ NotAcknowledged
  <2>1. CASE NotAcknowledged
    BY <2>1 DEF NotAcknowledged, journal, history
  <2>2. CASE Acknowledged
    <3>1. Journal!LAcknowledge(cur) /\ UNCHANGED runs /\ cur \in TaskId
      BY <2>2 DEF Acknowledged, WorkInv, history
    <3>2. QED
      BY <3>1 DEF Journal!LAcknowledge
  <2>3. QED
    BY <1>4, <2>1, <2>2
<1>5. ASSUME NEW t \in TaskId, ClaimTask(t) \/ ClaimFault(t) PROVE Forward
  BY <1>5 DEF ClaimTask, ClaimFault, Acceptable, Record, journal, history
<1>6. CASE SaveState \/ SaveConfig \/ SaveFault
  BY <1>6 DEF SaveState, SaveConfig, SaveFault, journal, history
<1>7. CASE Start \/ Reboot
  BY <1>7 DEF Start, Reboot, journal
<1>8. ASSUME NEW o \in {"Success", "Error"}, Conclude(o) \/ ConcludeFault(o) PROVE Forward
  <2>1. UNCHANGED runs
    BY <1>8 DEF Conclude, ConcludeFault, history
  <2>2. cur \in TaskId /\ (o = "Success" => cur \in Reboots \/ runs[cur] > 0)
    BY <1>8 DEF Conclude, ConcludeFault, MayConclude, WorkInv
  <2>3. CASE Journal!LFinish(cur, o)
    BY <2>1, <2>2, <2>3 DEF Journal!LFinish
  <2>4. CASE UNCHANGED <<ledger, outcome>>
    BY <2>1, <2>4
  <2>5. QED
    BY <1>8, <2>3, <2>4 DEF Conclude, ConcludeFault
<1>9. QED
  BY <1>1, <1>2, <1>3, <1>4, <1>5, <1>6, <1>7, <1>8 DEF AgentFault, AgentStep

\* The agent sends no result but the one its journal holds.
LEMMA AgentCalls ==
  ASSUME IInv, AgentFault \/ AgentStep, NEW c \in late' \cup {call'}, c.kind = "result"
  PROVE  \/ c \in late \cup {call}
         \/ Finished(c.task) /\ c.outcome = outcome[c.task]
<1> USE DEF IInv, TypeOK, Finished, NoCall, Poll, Result
<1>1. CASE Crash \/ NotAcknowledged \/ PollFails
  <2>1. call' = NoCall /\ late' \subseteq late \cup {call}
    BY <1>1, ForsakeMoves DEF Crash, NotAcknowledged, PollFails
  <2>2. QED
    BY <2>1
<1>2. CASE \E t \in TaskId : SendPending(t)
  BY <1>2 DEF SendPending, Deliverable
<1>3. CASE SendReport
  BY <1>3 DEF SendReport, WorkInv
<1>4. CASE StartPoll
  BY <1>4 DEF StartPoll
<1>5. CASE UNCHANGED <<call, late>>
  BY <1>5
<1>6. CASE ~(Crash \/ NotAcknowledged \/ PollFails \/ SendReport \/ StartPoll)
             /\ ~\E t \in TaskId : SendPending(t)
  BY <1>5, <1>6 DEF AgentFault, AgentStep, ConfigSync, ClaimFault, SaveFault, RunFault, ConcludeFault, Boot,
     Recover, Recovered, Acknowledged, FlushDone, SkipPoll, PollAnsweredIdle, ClaimTask,
     RefuseTask, SaveState, SaveConfig, Start, Conclude, Reboot, net
<1>7. QED
  BY <1>1, <1>2, <1>3, <1>4, <1>6

LEMMA AgentLeavesServer ==
  ASSUME AgentFault \/ AgentStep PROVE UNCHANGED <<server, dump>>
  BY DEF AgentFault, AgentStep, Crash, ConfigSync, ClaimFault, SaveFault, RunFault, ConcludeFault, Boot,
     Recover, Recovered, SendPending, Acknowledged, NotAcknowledged, FlushDone, SkipPoll,
     StartPoll, PollAnsweredIdle, PollFails, ClaimTask, RefuseTask, SaveState, SaveConfig,
     Start, Conclude, SendReport, Reboot

\* No step of the server makes a result call or changes one.
LEMMA ServerCalls ==
  ASSUME ServerStep \/ GatewayStep
  PROVE  late' \subseteq late /\ call' \in {call, NoCall}
  BY DEF ServerStep, GatewayStep, Dispatch, CancelPendingJob, DeleteJob, ScheduledCleanup,
     Backup, Restore, Close, PollDelivers, PollRejects, PollIdle, ResultUnknownTask,
     ResultAlreadyFinal, ResultFinalizes, Handle, net

\* A task becomes Success on the server by a dump that says so, or by a result
\* call that carries a success.
LEMMA ServerSuccess ==
  ASSUME TypeOK, ServerStep \/ GatewayStep, NEW t \in TaskId, status'[t] = "Success"
  PROVE  \/ status[t] = "Success"
         \/ backup.status[t] = "Success"
         \/ \E c \in late \cup {call} :
              c.kind = "result" /\ c.task = t /\ c.outcome = "Success"
<1> USE DEF TypeOK
<1>1. CASE ServerStep
  BY <1>1 DEF ServerStep, Dispatch, CancelPendingJob, DeleteJob, ScheduledCleanup, Close,
     Backup, Restore, server
<1>2. CASE \E u \in TaskId : ResultFinalizes(u)
  <2>1. PICK u \in TaskId : ResultFinalizes(u)
    BY <1>2
  <2>2. PICK o \in Outcomes :
          /\ Handle([kind |-> "result", task |-> u, outcome |-> o], Answer("success"))
          /\ status' = [status EXCEPT ![u] = IF o = "Success" THEN o ELSE "Error"]
    BY <2>1 DEF ResultFinalizes
  <2>3. [kind |-> "result", task |-> u, outcome |-> o] \in late \cup {call}
    BY <2>2 DEF Handle
  <2>4. QED
    BY <2>2, <2>3
<1>3. CASE ~\E u \in TaskId : ResultFinalizes(u)
  <2>1. CASE \E u \in TaskId : PollDelivers(u) \/ PollRejects(u)
    BY <2>1 DEF PollDelivers, PollRejects
  <2>2. CASE UNCHANGED status
    BY <2>2
  <2>3. CASE PollIdle \/ \E u \in TaskId : ResultUnknownTask(u) \/ ResultAlreadyFinal(u)
    BY <2>2, <2>3 DEF PollIdle, ResultUnknownTask, ResultAlreadyFinal, server
  <2>4. QED
    BY <1>1, <1>3, <2>1, <2>3 DEF GatewayStep
<1>4. QED
  BY <1>2, <1>3

LEMMA ServerBackup ==
  ASSUME ServerStep \/ GatewayStep PROVE backup' = backup \/ backup'.status = status
  BY DEF ServerStep, GatewayStep, Dispatch, CancelPendingJob, DeleteJob, ScheduledCleanup,
     Backup, Restore, Close, PollDelivers, PollRejects, PollIdle, ResultUnknownTask,
     ResultAlreadyFinal, ResultFinalizes, dump

LEMMA FaithPreserved == IInv /\ [Next]_vars => FaithInv'
<1> SUFFICES ASSUME IInv, [Next]_vars PROVE FaithInv'
  OBVIOUS
<1>1. CASE ServerStep \/ GatewayStep
  <2>1. UNCHANGED <<ledger, outcome, runs>>
    BY <1>1, ServerFootprint
  <2>2. \A t \in TaskId : status'[t] = "Success" => Earned(t)
    BY <1>1, ServerSuccess DEF IInv, FaithInv
  <2>3. \A t \in TaskId : backup'.status[t] = "Success" => Earned(t)
    BY <1>1, ServerBackup DEF IInv, FaithInv
  <2>4. \A c \in late' \cup {call'} : c.kind = "result" => c \in late \cup {call}
    BY <1>1, ServerCalls DEF NoCall
  <2>5. QED
    BY <2>1, <2>2, <2>3, <2>4 DEF IInv, FaithInv, Finished, Earned
<1>2. CASE AgentFault \/ AgentStep
  <2>1. Forward /\ UNCHANGED <<server, dump>>
    BY <1>2, AgentForward, AgentLeavesServer
  <2>2. \A t \in TaskId : Earned(t) => Earned(t)'
    <3>1. runs \in [TaskId -> Nat] /\ runs' \in [TaskId -> Nat]
      BY TypePreserved DEF IInv, TypeOK
    <3>2. QED
      BY <2>1, <3>1 DEF IInv, FaithInv, Earned, Forward
  <2>3. \A t \in TaskId : outcome'[t] = "Success" => Finished(t)' /\ Earned(t)'
    BY <2>1, <2>2 DEF IInv, FaithInv, Earned, Forward
  <2>4. \A t \in TaskId : Finished(t)' => outcome'[t] # "none"
    BY <2>1 DEF IInv, FaithInv, Forward
  <2>5. ASSUME NEW c \in late' \cup {call'}, c.kind = "result"
        PROVE  Finished(c.task)' /\ c.outcome = outcome'[c.task]
    <3>1. Finished(c.task) /\ c.outcome = outcome[c.task]
      BY <1>2, <2>5, AgentCalls DEF IInv, FaithInv
    <3>2. c.task \in TaskId
      BY <2>5, TypePreserved DEF TypeOK, Calls, Poll, NoCall
    <3>3. QED
      BY <2>1, <3>1, <3>2 DEF Forward
  <2>6. /\ \A t \in TaskId : status'[t] = "Success" => Earned(t)'
        /\ \A t \in TaskId : backup'.status[t] = "Success" => Earned(t)'
    BY <2>1, <2>2 DEF IInv, FaithInv, server, dump
  <2>7. QED
    BY <2>3, <2>4, <2>5, <2>6 DEF FaithInv
<1>3. CASE UNCHANGED vars
  BY <1>3 DEF vars, server, dump, net, journal, history, IInv, FaithInv, Finished, Earned
<1>4. QED
  BY <1>1, <1>2, <1>3 DEF Next

-----------------------------------------------------------------------------
(* Preparations: the server offers an update only when it shows Success    *)
(* for the preparation, and that Success was earned on the host.           *)

\* The agent consumes answers; it never makes one up.
LEMMA AgentReply ==
  ASSUME AgentFault \/ AgentStep PROVE reply' \in {reply, NoReply}
  BY DEF AgentFault, AgentStep, Crash, Forsake, ConfigSync, ClaimFault, SaveFault, RunFault, ConcludeFault,
     Boot, Recover, Recovered, SendPending, Acknowledged, NotAcknowledged, FlushDone, SkipPoll,
     StartPoll, PollAnsweredIdle, PollFails, ClaimTask, RefuseTask, SaveState, SaveConfig,
     Start, Conclude, SendReport, Reboot, net

\* An offer on its way to the agent has its preparation behind it.
LEMMA OffersPrepped ==
  ASSUME IInv, Next, reply'.kind = "task"
  PROVE  reply'.task \in TaskId /\ Prepped(reply'.task)
<1> USE DEF IInv, PreparationInv
<1>1. CASE reply' = reply
  BY <1>1
<1>2. CASE reply' # reply
  <2>1. PICK t \in TaskId : PollDelivers(t)
    <3>1. CASE ServerStep
      BY <1>2, <3>1 DEF ServerStep, Dispatch, CancelPendingJob, DeleteJob, ScheduledCleanup,
         Close, Backup, Restore, net
    <3>2. CASE AgentFault \/ AgentStep
      BY <1>2, <3>2, AgentReply DEF NoReply
    <3>3. CASE GatewayStep /\ ~\E t \in TaskId : PollDelivers(t)
      <4>1. PICK kind \in {"idle", "success", "error"} : reply' = Answer(kind)
        BY <1>2, <3>3 DEF GatewayStep, PollRejects, PollIdle, ResultUnknownTask,
           ResultAlreadyFinal, ResultFinalizes, Handle
      <4>2. QED
        BY <4>1 DEF Answer
    <3>4. QED
      BY <3>1, <3>2, <3>3 DEF Next
  <2>2. reply' = Envelope(t, issued + 1)
    BY <1>2, <2>1 DEF PollDelivers, Handle
  <2>3. Prepare[t] # NoTask => status[Prepare[t]] = "Success" /\ Prepare[t] \in TaskId
    BY <2>1, PrepareAssumption DEF PollDelivers, Prepared
  <2>4. QED
    BY <2>2, <2>3 DEF FaithInv, Earned, Prepped, Envelope
<1>3. QED
  BY <1>1, <1>2

LEMMA PreparationPreserved == IInv /\ [Next]_vars => PreparationInv'
<1> SUFFICES ASSUME IInv, [Next]_vars PROVE PreparationInv'
  OBVIOUS
<1>1. CASE UNCHANGED vars
  BY <1>1 DEF IInv, PreparationInv, Prepped, vars, net, journal
<1>2. CASE Next
  <2>1. \A t \in TaskId : Prepped(t) => Prepped(t)'
    <3>1. CASE ServerStep \/ GatewayStep
      BY <3>1, ServerFootprint DEF Prepped
    <3>2. CASE AgentFault \/ AgentStep
      BY <3>2, AgentForward, PrepareAssumption DEF Forward, Prepped, IInv, FaithInv
    <3>3. QED
      BY <1>2, <3>1, <3>2 DEF Next
  <2>2. reply'.kind = "task" => reply'.task \in TaskId /\ Prepped(reply.task)'
    BY <1>2, <2>1, OffersPrepped DEF Prepped
  <2>3. ASSUME NEW t \in TaskId, ledger'[t] # "absent" PROVE Prepped(t)'
    <3>1. CASE ledger[t] # "absent"
      BY <2>1, <3>1 DEF IInv, PreparationInv
    <3>2. CASE ledger[t] = "absent"
      <4>1. reply = Envelope(t, reply.seq)
        BY <1>2, <2>3, <3>2, ServerFootprint DEF Next, AgentFault, AgentStep, Crash, ConfigSync,
           ClaimFault, SaveFault, RunFault, ConcludeFault, Boot, Recover, Recovered, SendPending,
           Acknowledged, NotAcknowledged, FlushDone, SkipPoll, StartPoll, PollAnsweredIdle,
           PollFails, ClaimTask, RefuseTask, SaveState, SaveConfig, Start, Conclude, SendReport,
           Reboot, Record, Journal!LFinish, Journal!LAcknowledge, IInv, TypeOK, Journal!LTypeOK,
           journal
      <4>2. QED
        BY <2>1, <4>1 DEF IInv, PreparationInv, Envelope
    <3>3. QED
      BY <3>1, <3>2
  <2>4. QED
    BY <2>2, <2>3 DEF PreparationInv
<1>3. QED
  BY <1>1, <1>2

-----------------------------------------------------------------------------
(* The theorems.                                                           *)

LEMMA Inductive == Spec => []IInv
<1>1. IInv /\ [Next]_vars => IInv'
  BY TypePreserved, WorkPreserved, SequencePreserved, FaithPreserved, PreparationPreserved DEF IInv
<1>2. QED
  BY <1>1, InitEstablishes, PTL DEF Spec

\* Every variable stays within its type: the states of a row, a journal record, a
\* call and the worker are those the code can be in.
THEOREM DeliveryTypeCorrect == Spec => []TypeOK
<1>1. IInv => TypeOK
  BY DEF IInv
<1>2. QED
  BY <1>1, Inductive, PTL

\* No action is started twice on the host, for any number of tasks, retries, crashes
\* and database restores: the journal of ExecutionJournal.cs never forgets an id.
THEOREM DeliveryRunsOnce == Spec => []RunAtMostOnce
<1>1. IInv => RunAtMostOnce
  BY DEF IInv, WorkInv
<1>2. QED
  BY <1>1, Inductive, PTL

\* No action is started before its sequence number is in task-signing-state.json, so
\* neither a crash nor a mass configuration sync makes the agent accept it again.
THEOREM DeliveryRunIsDurable == Spec => []RunIsDurable
<1>1. IInv => RunIsDurable
  BY DEF IInv, SequenceInv
<1>2. QED
  BY <1>1, Inductive, PTL

\* The server shows Success only for what ended in success on the host, whichever
\* calls were lost, late or repeated and whichever dump was restored.
THEOREM DeliverySuccessFaithful == Spec => []SuccessIsFaithful
<1>1. IInv => SuccessIsFaithful
  BY DEF IInv, FaithInv, Earned, SuccessIsFaithful
<1>2. QED
  BY <1>1, Inductive, PTL

\* An update is started only where its preparation succeeded.
THEOREM DeliveryUpdatePrepared == Spec => []UpdateAfterPreparation
<1>1. IInv => UpdateAfterPreparation
  BY DEF IInv, TypeOK, WorkInv, PreparationInv, Prepped, UpdateAfterPreparation
<1>2. QED
  BY <1>1, Inductive, PTL

\* The first final status of a task row stays, short of deletion or a restore: the
\* idempotent branch of /result and the filters of every clean-up agree on it.
THEOREM DeliveryFinalIsFinal == Spec => FinalIsFinal
<1>1. ASSUME TypeOK, [Next]_vars, NEW t \in TaskId, status[t] \in Final
      PROVE  status'[t] \in {status[t], "deleted"} \/ restores' # restores
  <2> USE <1>1 DEF TypeOK, Final
  <2>1. CASE ServerStep
    <3>1. CASE Restore
      BY <3>1, BoundAssumption DEF Restore
    <3>2. CASE ~Restore
      BY <2>1, <3>2 DEF ServerStep, Dispatch, Job, CancelPendingJob, DeleteJob,
         ScheduledCleanup, Close, Backup, Open, server
    <3>3. QED
      BY <3>1, <3>2
  <2>2. CASE GatewayStep
    BY <2>2 DEF GatewayStep, PollDelivers, PollRejects, PollIdle, Oldest, Waiting,
       ResultUnknownTask, ResultAlreadyFinal, ResultFinalizes, Open, server
  <2>3. CASE AgentFault \/ AgentStep
    BY <2>3, AgentLeavesServer DEF server
  <2>4. CASE UNCHANGED vars
    BY <2>4 DEF vars, server
  <2>5. QED
    BY <2>1, <2>2, <2>3, <2>4 DEF Next
<1>2. TypeOK /\ [Next]_vars =>
        [\A t \in TaskId : status[t] \in Final =>
           status'[t] \in {status[t], "deleted"} \/ restores' # restores]_vars
  BY <1>1
<1>3. QED
  BY <1>2, DeliveryTypeCorrect, PTL DEF Spec, FinalIsFinal

\* A journaled task keeps its sequence number.
Numbered(s) == s = 0 \/ \E t \in TaskId : ledger[t] # "absent" /\ seqOf[t] = s

LEMMA NumbersStay ==
  ASSUME IInv, AgentFault \/ AgentStep, NEW s, Numbered(s) PROVE Numbered(s)'
<1>1. \A t \in TaskId : ledger[t] # "absent" => ledger'[t] # "absent" /\ seqOf'[t] = seqOf[t]
  <2>1. \A t \in TaskId : ledger[t] # "absent" => ledger'[t] # "absent"
    BY AgentForward DEF Forward
  <2>2. CASE UNCHANGED seqOf
    BY <2>1, <2>2
  <2>3. CASE \E t \in TaskId : ledger[t] = "absent" /\ Record(t, reply.seq)
    BY <2>1, <2>3 DEF Record, IInv, TypeOK
  <2>4. QED
    BY <2>2, <2>3 DEF AgentFault, AgentStep, Crash, ConfigSync, ClaimFault, SaveFault, RunFault,
       ConcludeFault, Boot, Recover, Recovered, SendPending, Acknowledged, NotAcknowledged,
       FlushDone, SkipPoll, StartPoll, PollAnsweredIdle, PollFails, ClaimTask, RefuseTask,
       SaveState, SaveConfig, Start, Conclude, SendReport, Reboot, Acceptable, journal
<1>2. QED
  BY <1>1 DEF Numbered

\* Whatever sequence number the agent has taken over, in memory or in a file, is the
\* number of a journaled task, whichever write failed: none is skipped unreported.
THEOREM DeliverySequenceJournaled == Spec => []SequenceIsJournaled
<1> DEFINE Inv == \A s \in {sequence, stateSeq, configSeq} : Numbered(s)
<1>1. Init => Inv
  BY DEF Init, Numbered
<1>2. ASSUME IInv, Inv, [Next]_vars PROVE Inv'
  <2>1. CASE ServerStep \/ GatewayStep
    BY <1>2, <2>1, ServerFootprint DEF pins, Numbered
  <2>2. CASE UNCHANGED vars
    BY <1>2, <2>2 DEF vars, pins, journal, Numbered
  <2>3. CASE \E t \in TaskId : ClaimTask(t)
    <3>1. PICK t \in TaskId : ClaimTask(t)
      BY <2>3
    <3>2. ledger'[t] # "absent" /\ seqOf'[t] = sequence'
      BY <1>2, <3>1 DEF ClaimTask, Record, IInv, TypeOK, Journal!LTypeOK
    <3>3. Numbered(stateSeq)' /\ Numbered(configSeq)'
      <4>1. UNCHANGED <<stateSeq, configSeq>>
        BY <3>1 DEF ClaimTask
      <4>2. AgentFault \/ AgentStep
        BY <3>1 DEF AgentStep
      <4>3. \A s : Numbered(s) => Numbered(s)'
        BY <1>2, <4>2, NumbersStay
      <4>4. QED
        BY <1>2, <4>1, <4>3 DEF Numbered
    <3>4. QED
      BY <3>2, <3>3 DEF Numbered
  <2>4. CASE (AgentFault \/ AgentStep) /\ ~\E t \in TaskId : ClaimTask(t)
    <3>1. {sequence', stateSeq', configSeq'} \subseteq {0, sequence, stateSeq, configSeq}
      BY <2>4 DEF AgentFault, AgentStep, Crash, Stop, ConfigSync, ClaimFault, SaveFault, RunFault,
         ConcludeFault, PollReturnsNull, Boot, Larger, Recover, Recovered, SendPending,
         Acknowledged, NotAcknowledged, FlushDone, SkipPoll, StartPoll, PollAnsweredIdle,
         PollFails, RefuseTask, SaveState, SaveConfig, Start, Conclude, SendReport, Reboot, pins
    <3>2. \A s : Numbered(s) => Numbered(s)'
      BY <1>2, <2>4, NumbersStay
    <3>3. QED
      BY <1>2, <3>1, <3>2 DEF Numbered
  <2>5. QED
    BY <1>2, <2>1, <2>2, <2>3, <2>4 DEF Next
<1>3. Inv => SequenceIsJournaled
  BY DEF Numbered, SequenceIsJournaled
<1>4. QED
  BY <1>1, <1>2, <1>3, Inductive, PTL DEF Spec

-----------------------------------------------------------------------------
(* What the server's row, the answer under way and the journal say of one  *)
(* another, as long as no dump was restored.                               *)

\* One call at a time: an answer ends it, and nothing is under way for an agent that
\* waits for nothing.
CallInv ==
  /\ reply # NoReply => call = NoCall
  /\ pc \notin Awaiting => call = NoCall /\ reply = NoReply
  /\ pc \in {"flushing", "reporting"} /\ call # NoCall => call.task = cur

Closed(t) == status[t] \in Final \cup {"deleted"}

\* No agent has heard of t.
Unheard(t) == ledger[t] = "absent" /\ reply.task # t

RowInv ==
  restores = 0 =>
    /\ pc \in {"flushing", "reporting"} /\ reply.kind = "success" => Closed(cur)
    /\ \A t \in TaskId : ledger[t] = "acknowledged" => Closed(t)
    /\ \A t \in TaskId : status[t] \in {"none", "Pending"} => Unheard(t)
    /\ \A t \in withdrawn : Closed(t) /\ Unheard(t)

LEMMA InitRows == Init => CallInv /\ RowInv
<1> SUFFICES ASSUME Init PROVE CallInv /\ RowInv
  OBVIOUS
<1>1. \A t \in TaskId : NoReply.task # t
  BY TaskIdAssumption DEF NoReply
<1>2. CallInv
  BY DEF Init, CallInv, Awaiting
<1>3. RowInv
  BY <1>1 DEF Init, RowInv, Unheard, Closed
<1>4. QED
  BY <1>2, <1>3

\* A handler answers a call that was made.
LEMMA GatewayHandles ==
  ASSUME GatewayStep
  PROVE  \E c, r : c # NoCall /\ Handle(c, r)
<1>1. Poll # NoCall /\ \A t \in TaskId, o \in Outcomes :
        [kind |-> "result", task |-> t, outcome |-> o] # NoCall
  BY DEF Poll, NoCall
<1>2. QED
  BY <1>1 DEF GatewayStep, PollDelivers, PollRejects, PollIdle, ResultUnknownTask,
     ResultAlreadyFinal, ResultFinalizes

LEMMA CallPreserved == IInv /\ CallInv /\ [Next]_vars => CallInv'
<1> SUFFICES ASSUME IInv, CallInv, [Next]_vars PROVE CallInv'
  OBVIOUS
<1> USE DEF CallInv, Awaiting
<1>1. CASE ServerStep
  <2>1. UNCHANGED <<pc, cur, reply>> /\ call' \in {call, NoCall}
    <3>1. UNCHANGED <<pc, cur>>
      BY <1>1, ServerFootprint DEF worker
    <3>2. UNCHANGED reply
      BY <1>1 DEF ServerStep, Dispatch, CancelPendingJob, DeleteJob, ScheduledCleanup,
         Backup, Restore, Close, net
    <3>3. QED
      BY <1>1, <3>1, <3>2, ServerCalls
  <2>2. QED
    BY <2>1
<1>2. CASE GatewayStep
  <2>1. UNCHANGED <<pc, cur>>
    BY <1>2, ServerFootprint DEF worker
  <2>2. PICK c, r : c # NoCall /\ Handle(c, r)
    BY <1>2, GatewayHandles
  <2>3. \/ c = call /\ call' = NoCall
        \/ UNCHANGED <<call, reply>>
    BY <2>2 DEF Handle
  <2>4. QED
    BY <2>1, <2>2, <2>3
<1>3. CASE UNCHANGED vars \/ ConfigSync \/ Boot \/ Recovered \/ FlushDone \/ SkipPoll
            \/ SaveState \/ SaveConfig \/ SaveFault \/ RunFault \/ Start \/ Reboot
            \/ (\E t \in TaskId : Recover(t))
            \/ \E o \in {"Success", "Error"} : Conclude(o) \/ ConcludeFault(o)
  <2>1. UNCHANGED net
    BY <1>3 DEF vars, ConfigSync, Boot, Recovered, FlushDone, SkipPoll, SaveState, SaveConfig,
       SaveFault, RunFault, Start, Reboot, Recover, Conclude, ConcludeFault
  <2>2. \/ UNCHANGED <<pc, cur>>
        \/ pc \notin Awaiting /\ pc' \notin Awaiting
    BY <1>3 DEF vars, ConfigSync, Boot, Recovered, FlushDone, SkipPoll, SaveState, SaveConfig,
       SaveFault, RunFault, Start, Reboot, Recover, Conclude, ConcludeFault, MayConclude,
       PollReturns, PollReturnsNull, Stop, worker
  <2>3. QED
    BY <2>1, <2>2 DEF net
<1>4. CASE Crash \/ PollFails
  BY <1>4, ForsakeMoves DEF Crash, PollFails, Stop, PollReturnsNull
<1>5. CASE Acknowledged \/ NotAcknowledged
  <2>1. pc' \notin Awaiting
    BY <1>5 DEF Acknowledged, NotAcknowledged, AfterSend, PollReturns
  <2>2. call' = NoCall /\ reply' = NoReply
    <3>1. CASE Acknowledged
      <4>1. reply # NoReply /\ UNCHANGED call /\ reply' = NoReply
        BY <3>1 DEF Acknowledged, NoReply
      <4>2. QED
        BY <4>1
    <3>2. CASE NotAcknowledged
      BY <3>2, ForsakeMoves DEF NotAcknowledged
    <3>3. QED
      BY <1>5, <3>1, <3>2
  <2>3. QED
    BY <2>1, <2>2
<1>6. CASE PollAnsweredIdle \/ \E t \in TaskId : ClaimTask(t) \/ RefuseTask(t) \/ ClaimFault(t)
  <2>1. reply # NoReply /\ UNCHANGED call /\ reply' = NoReply /\ pc' \notin Awaiting
    BY <1>6 DEF PollAnsweredIdle, ClaimTask, RefuseTask, ClaimFault, PollReturns, NoReply, Envelope
  <2>2. QED
    BY <2>1
<1>7. CASE StartPoll
  BY <1>7 DEF StartPoll
<1>8. CASE SendReport \/ \E t \in TaskId : SendPending(t)
  BY <1>8 DEF SendReport, SendPending, Result
<1>9. QED
  BY <1>1, <1>2, <1>3, <1>4, <1>5, <1>6, <1>7, <1>8 DEF Next, AgentFault, AgentStep

LEMMA NotRestored ==
  ASSUME TypeOK, ServerStep \/ GatewayStep, restores' = 0 PROVE restores = 0 /\ ~Restore
<1>1. CASE Restore
  BY <1>1, BoundAssumption DEF Restore, TypeOK
<1>2. CASE ~Restore
  BY <1>2 DEF ServerStep, GatewayStep, Dispatch, CancelPendingJob, DeleteJob, ScheduledCleanup,
     Backup, Close, PollDelivers, PollRejects, PollIdle, ResultUnknownTask,
     ResultAlreadyFinal, ResultFinalizes, dump
<1>3. QED
  BY <1>1, <1>2

\* What the server's steps do to a row, and whom they make a withdrawn task.
LEMMA ServerRows ==
  ASSUME TypeOK, ServerStep \/ GatewayStep, restores' = 0, NEW t \in TaskId
  PROVE  /\ Closed(t) => Closed(t)'
         /\ status'[t] \in {"none", "Pending"} => status[t] \in {"none", "Pending"}
         /\ t \in withdrawn' => t \in withdrawn \/ (status[t] = "Pending" /\ Closed(t)')
<1> USE DEF TypeOK, Closed
<1>1. CASE ServerStep
  <2>1. CASE \E u \in TaskId : Dispatch(u)
    BY <2>1 DEF Dispatch, Final
  <2>2. ASSUME NEW S \in SUBSET TaskId, NEW s \in Final \cup {"deleted"}, Close(S, s)
        PROVE  /\ Closed(t) => Closed(t)'
               /\ status'[t] \in {"none", "Pending"} => status[t] \in {"none", "Pending"}
               /\ t \in withdrawn' => t \in withdrawn \/ (status[t] = "Pending" /\ Closed(t)')
    BY <2>2 DEF Close, Final
  <2>3. CASE \E u \in TaskId : CancelPendingJob(u)
    BY <2>2, <2>3 DEF CancelPendingJob, Job, Final
  <2>4. CASE \E u \in TaskId : DeleteJob(u)
    BY <2>2, <2>4 DEF DeleteJob, Job
  <2>5. CASE ScheduledCleanup
    BY <2>2, <2>5, KindAssumption DEF ScheduledCleanup, Final
  <2>6. CASE Backup
    BY <2>6 DEF Backup, server
  <2>7. QED
    BY <1>1, <2>1, <2>3, <2>4, <2>5, <2>6, NotRestored DEF ServerStep
<1>2. CASE GatewayStep
  BY <1>2 DEF GatewayStep, PollDelivers, PollRejects, PollIdle, Oldest, Waiting, Open, Final,
     ResultUnknownTask, ResultAlreadyFinal, ResultFinalizes, server, dump
<1>3. QED
  BY <1>1, <1>2

\* An answer that the server has just given: an offer of a task it closed to other polls,
\* or the acknowledgement of a result whose row is final now.
LEMMA ServerAnswers ==
  ASSUME IInv, CallInv, ServerStep \/ GatewayStep, reply' # reply
  PROVE  /\ call # NoCall
         /\ \A t \in TaskId : reply'.task = t => status[t] = "Pending" /\ status'[t] = "PickedUp"
         /\ reply'.kind = "success" =>
              call.task \in TaskId /\ status'[call.task] \in Final \cup {"deleted"}
<1>0. TypeOK
  BY DEF IInv
<1>1. GatewayStep
  BY DEF ServerStep, Dispatch, CancelPendingJob, DeleteJob, ScheduledCleanup, Close, Backup,
     Restore, net
<1>2. \A kind : \A t \in TaskId : Answer(kind).task # t
  BY TaskIdAssumption DEF Answer
<1>3. ASSUME NEW c, NEW r, Handle(c, r) PROVE c = call /\ reply' = r
  BY <1>3 DEF Handle
<1>4. ASSUME NEW t \in TaskId, PollDelivers(t)
      PROVE  call = Poll /\ reply' = Envelope(t, issued + 1)
             /\ status[t] = "Pending" /\ status'[t] = "PickedUp"
  BY <1>0, <1>3, <1>4 DEF PollDelivers, Oldest, Waiting, TypeOK
<1>5. ASSUME (\E t \in TaskId : PollRejects(t)) \/ PollIdle
      PROVE  call = Poll /\ reply' = Answer("idle")
  BY <1>3, <1>5 DEF PollRejects, PollIdle
<1>6. ASSUME NEW t \in TaskId, ResultUnknownTask(t)
      PROVE  call.kind = "result" /\ reply' = Answer("error")
  BY <1>3, <1>6 DEF ResultUnknownTask
<1>7. ASSUME NEW t \in TaskId, ResultAlreadyFinal(t) \/ ResultFinalizes(t)
      PROVE  call.kind = "result" /\ call.task = t /\ reply' = Answer("success")
             /\ status'[t] \in Final \cup {"deleted"}
  <2>1. PICK o \in Outcomes :
          Handle([kind |-> "result", task |-> t, outcome |-> o], Answer("success"))
    BY <1>7 DEF ResultAlreadyFinal, ResultFinalizes
  <2>2. call = [kind |-> "result", task |-> t, outcome |-> o] /\ reply' = Answer("success")
    BY <1>3, <2>1
  <2>3. status'[t] \in Final \cup {"deleted"}
    BY <1>0, <1>7 DEF ResultAlreadyFinal, ResultFinalizes, server, TypeOK, Final
  <2>4. QED
    BY <2>2, <2>3
<1>8. CASE \E t \in TaskId : PollDelivers(t)
  BY <1>4, <1>8 DEF Envelope, Poll, NoCall
<1>9. CASE (\E t \in TaskId : PollRejects(t)) \/ PollIdle
  BY <1>2, <1>5, <1>9 DEF Poll, NoCall, Answer
<1>10. CASE \E t \in TaskId : ResultUnknownTask(t)
  BY <1>2, <1>6, <1>10 DEF NoCall, Answer
<1>11. CASE \E t \in TaskId : ResultAlreadyFinal(t) \/ ResultFinalizes(t)
  BY <1>2, <1>7, <1>11 DEF NoCall, Answer
<1>12. QED
  BY <1>1, <1>8, <1>9, <1>10, <1>11 DEF GatewayStep

\* The agent journals the task it was offered, and archives the one it was answered about.
LEMMA AgentRows ==
  ASSUME IInv, AgentFault \/ AgentStep, NEW t \in TaskId
  PROVE  /\ ledger'[t] # ledger[t] /\ ledger[t] = "absent" => reply.task = t
         /\ ledger'[t] # ledger[t] /\ ledger'[t] = "acknowledged" =>
              t = cur /\ pc \in {"flushing", "reporting"} /\ reply.kind = "success"
<1> USE DEF IInv, TypeOK, Journal!LTypeOK
<1>1. CASE \E u \in TaskId : ClaimTask(u) \/ ClaimFault(u)
  <2>1. PICK u \in TaskId : ClaimTask(u) \/ ClaimFault(u)
    BY <1>1
  <2>2. reply.task = u
    BY <2>1 DEF ClaimTask, ClaimFault, Envelope
  <2>3. Record(u, reply.seq) \/ UNCHANGED ledger
    BY <2>1 DEF ClaimTask, ClaimFault, journal
  <2>4. QED
    BY <2>2, <2>3 DEF Record
<1>2. CASE Acknowledged
  BY <1>2 DEF Acknowledged, Journal!LAcknowledge
<1>3. ASSUME NEW u, NEW o, Journal!LFinish(u, o) PROVE ledger'[t] # ledger[t] => ledger[t] = "claimed" /\ ledger'[t] = "result"
  BY <1>3 DEF Journal!LFinish
<1>4. CASE \E u \in TaskId : Recover(u)
  BY <1>3, <1>4 DEF Recover
<1>5. CASE \E o \in {"Success", "Error"} : Conclude(o) \/ ConcludeFault(o)
  BY <1>3, <1>5 DEF Conclude, ConcludeFault
<1>6. CASE UNCHANGED ledger
  BY <1>6
<1>7. QED
  BY <1>1, <1>2, <1>4, <1>5, <1>6 DEF AgentFault, AgentStep, Crash, ConfigSync, SaveFault, RunFault, Boot,
     Recovered, SendPending, NotAcknowledged, FlushDone, SkipPoll, StartPoll, PollAnsweredIdle,
     PollFails, RefuseTask, SaveState, SaveConfig, Start, SendReport, Reboot, journal

LEMMA RowPreserved == IInv /\ CallInv /\ RowInv /\ [Next]_vars => RowInv'
<1> SUFFICES ASSUME IInv, CallInv, RowInv, [Next]_vars, restores' = 0 PROVE RowInv'
  BY DEF RowInv
<1>0. TypeOK /\ TypeOK'
  BY TypePreserved DEF IInv
<1>t. withdrawn \subseteq TaskId /\ withdrawn' \subseteq TaskId
  BY <1>0 DEF TypeOK
<1>c. pc \in {"flushing", "reporting"} => cur \in TaskId
  BY DEF IInv, WorkInv
<1>1. CASE ServerStep \/ GatewayStep
  <2>1. UNCHANGED <<ledger, pc, cur>> /\ restores = 0
    <3>1. UNCHANGED <<ledger, pc, cur>>
      BY <1>1, ServerFootprint DEF worker
    <3>2. restores = 0
      BY <1>0, <1>1, NotRestored
    <3>3. QED
      BY <3>1, <3>2
  <2>2. \A t \in TaskId :
          /\ Closed(t) => Closed(t)'
          /\ status'[t] \in {"none", "Pending"} => status[t] \in {"none", "Pending"}
          /\ t \in withdrawn' => t \in withdrawn \/ (status[t] = "Pending" /\ Closed(t)')
    BY <1>0, <1>1, ServerRows
  <2>3. /\ \A t \in TaskId : reply'.task = t =>
             reply.task = t \/ (status[t] = "Pending" /\ status'[t] = "PickedUp")
        /\ pc \in {"flushing", "reporting"} /\ reply'.kind = "success" => reply.kind = "success" \/ Closed(cur)'
    <3>1. CASE reply' = reply
      BY <3>1
    <3>2. CASE reply' # reply
      <4>1. /\ call # NoCall
            /\ \A t \in TaskId : reply'.task = t => status[t] = "Pending" /\ status'[t] = "PickedUp"
            /\ reply'.kind = "success" => status'[call.task] \in Final \cup {"deleted"}
        BY <1>1, <3>2, ServerAnswers
      <4>2. pc \in {"flushing", "reporting"} => call.task = cur
        BY <4>1 DEF CallInv
      <4>3. QED
        BY <2>1, <4>1, <4>2 DEF Closed
    <3>3. QED
      BY <3>1, <3>2
  <2>4. QED
    BY <1>c, <1>t, <2>1, <2>2, <2>3 DEF RowInv, Unheard, Closed, Final
<1>2. CASE AgentFault \/ AgentStep
  <2>1. UNCHANGED <<status, withdrawn, restores>> /\ reply' \in {reply, NoReply}
    BY <1>2, AgentLeavesServer, AgentReply DEF server, dump
  <2>2. \A t \in TaskId : NoReply.task # t
    BY TaskIdAssumption DEF NoReply
  <2>3. pc' \in {"flushing", "reporting"} => reply'.kind # "success" \/ UNCHANGED <<pc, cur, reply>>
    <3>1. CASE reply' = NoReply
      BY <3>1 DEF NoReply
    <3>2. CASE reply' = reply /\ reply # NoReply
      <4>1. pc \in Awaiting
        BY <3>2 DEF CallInv
      <4>2. UNCHANGED <<pc, cur, reply>> \/ pc' \notin {"flushing", "reporting"}
        BY <1>2, <3>2, <4>1, ForsakeMoves DEF AgentFault, AgentStep, Crash, ConfigSync, ClaimFault, SaveFault,
           RunFault, ConcludeFault, MayConclude, Boot, Recover, Recovered, SendPending,
           Acknowledged, NotAcknowledged, FlushDone, SkipPoll, StartPoll, PollAnsweredIdle,
           PollFails, ClaimTask, RefuseTask, SaveState, SaveConfig, Start, Conclude, SendReport,
           Reboot, worker, net, Awaiting, AfterSend, PollReturns, PollReturnsNull, Stop
      <4>3. QED
        BY <4>2
    <3>3. QED
      BY <2>1, <3>1, <3>2
  <2>4. QED
    BY <1>2, <1>c, <1>t, <2>1, <2>2, <2>3, AgentRows DEF RowInv, Unheard, Closed
<1>3. CASE UNCHANGED vars
  BY <1>3 DEF vars, server, dump, net, journal, worker, RowInv, Unheard, Closed
<1>4. QED
  BY <1>1, <1>2, <1>3 DEF Next

LEMMA RowInvariance == Spec => [](IInv /\ CallInv /\ RowInv)
<1>1. IInv /\ CallInv /\ RowInv /\ [Next]_vars => (CallInv /\ RowInv)'
  BY CallPreserved, RowPreserved
<1>2. QED
  BY <1>1, InitRows, Inductive, PTL DEF Spec

\* Until a dump is restored, the agent stops delivering a result only when the row is
\* final or deleted: the success answer it acts on is the answer to its own call about
\* this task, given when the row was final, and a final row stays final.
THEOREM DeliveryAcknowledgedIsFinal == Spec => [](restores = 0 => AcknowledgedIsFinal)
<1>1. RowInv => (restores = 0 => AcknowledgedIsFinal)
  BY DEF RowInv, Closed, AcknowledgedIsFinal
<1>2. QED
  BY <1>1, RowInvariance, PTL

\* Until a dump is restored, a task closed or deleted while it was pending is never
\* started: no answer that offers it was ever given, and a closed row is not offered.
THEOREM DeliveryWithdrawnNeverRuns == Spec => [](restores = 0 => WithdrawnNeverRuns)
<1>1. IInv /\ RowInv => (restores = 0 => WithdrawnNeverRuns)
  BY DEF RowInv, Unheard, WithdrawnNeverRuns, IInv, TypeOK, WorkInv
<1>2. QED
  BY <1>1, RowInvariance, PTL

\* What the whole system does to the agent's journal, faults, crashes and restores
\* included, is what TaskLedger promises: each id is claimed at most once, ends in one
\* outcome, and is remembered once the server acknowledged it.
THEOREM DeliveryImplementsLedger == Spec => Journal!LSpec
<1>1. Init => Journal!LInit
  BY DEF Init, Journal!LInit
<1>2. ASSUME IInv, [Next]_vars PROVE [Journal!LNext]_(Journal!lvars)
  <2> USE DEF Journal!lvars
  <2>1. CASE ServerStep \/ GatewayStep
    BY <2>1, ServerFootprint
  <2>2. CASE \E t \in TaskId : ClaimTask(t) \/ ClaimFault(t)
    <3>1. PICK t \in TaskId : ClaimTask(t) \/ ClaimFault(t)
      BY <2>2
    <3>2. Journal!LClaim(t) \/ UNCHANGED <<ledger, outcome>>
      BY <3>1 DEF ClaimTask, ClaimFault, Acceptable, Record, Journal!LClaim, journal
    <3>3. QED
      BY <3>2 DEF Journal!LNext
  <2>3. CASE Acknowledged
    BY <1>2, <2>3 DEF Acknowledged, IInv, WorkInv, Journal!LNext
  <2>4. CASE \E t \in TaskId : Recover(t)
    BY <2>4 DEF Recover, Journal!LNext, Outcomes
  <2>5. CASE \E o \in {"Success", "Error"} : Conclude(o) \/ ConcludeFault(o)
    <3>1. PICK o \in {"Success", "Error"} : Conclude(o) \/ ConcludeFault(o)
      BY <2>5
    <3>2. cur \in TaskId /\ o \in Outcomes
      BY <1>2, <3>1 DEF Conclude, ConcludeFault, MayConclude, IInv, WorkInv, Outcomes
    <3>3. Journal!LFinish(cur, o) \/ UNCHANGED <<ledger, outcome>>
      BY <3>1 DEF Conclude, ConcludeFault
    <3>4. QED
      BY <3>2, <3>3 DEF Journal!LNext
  <2>6. CASE UNCHANGED <<ledger, outcome>>
    BY <2>6
  <2>7. QED
    BY <1>2, <2>1, <2>2, <2>3, <2>4, <2>5, <2>6 DEF Next, AgentFault, AgentStep, Crash, ConfigSync,
       SaveFault, RunFault, Boot, Recovered, SendPending, NotAcknowledged, FlushDone, SkipPoll,
       StartPoll, PollAnsweredIdle, PollFails, RefuseTask, SaveState, SaveConfig, Start,
       SendReport, Reboot, journal, vars
<1>3. QED
  BY <1>1, <1>2, Inductive, PTL DEF Spec, Journal!LSpec
=============================================================================
