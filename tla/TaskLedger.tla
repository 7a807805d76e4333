----------------------------- MODULE TaskLedger -----------------------------
(***************************************************************************)
(* What an agent's execution journal promises about every task id: the id  *)
(* is claimed at most once, a claim ends in exactly one local outcome, and *)
(* an outcome the server has acknowledged is remembered for ever.  Nothing *)
(* moves an id backwards, so no crash, retry or redelivery can bring a     *)
(* finished task back to "absent", which is what would let it run again.   *)
(***************************************************************************)
CONSTANTS
  TaskId,    \* task ids the server may ever issue to this endpoint
  Outcomes   \* what a finished task may have come to

VARIABLES
  ledger,    \* ledger[t]: how far the agent has got with t
  outcome    \* outcome[t]: the recorded outcome, "none" until there is one

lvars == <<ledger, outcome>>

Stages == {"absent", "claimed", "result", "acknowledged"}

LTypeOK ==
  /\ ledger \in [TaskId -> Stages]
  /\ outcome \in [TaskId -> Outcomes \cup {"none"}]

\* A journal starts empty or with ids an older agent already delivered.
LInit ==
  /\ ledger \in [TaskId -> {"absent", "acknowledged"}]
  /\ outcome = [t \in TaskId |-> "none"]

LClaim(t) ==
  /\ ledger[t] = "absent"
  /\ ledger' = [ledger EXCEPT ![t] = "claimed"]
  /\ UNCHANGED outcome

LFinish(t, o) ==
  /\ ledger[t] = "claimed"
  /\ ledger' = [ledger EXCEPT ![t] = "result"]
  /\ outcome' = [outcome EXCEPT ![t] = o]

LAcknowledge(t) ==
  /\ ledger[t] = "result"
  /\ ledger' = [ledger EXCEPT ![t] = "acknowledged"]
  /\ UNCHANGED outcome

LNext ==
  \E t \in TaskId :
    \/ LClaim(t)
    \/ \E o \in Outcomes : LFinish(t, o)
    \/ LAcknowledge(t)

LSpec == LInit /\ [][LNext]_lvars
=============================================================================
