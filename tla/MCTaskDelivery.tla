--------------------------- MODULE MCTaskDelivery ---------------------------
(* Instances of TaskDelivery for TLC.                                      *)
EXTENDS TaskDelivery

\* Task 2 updates the agent and waits for its preparation, task 1.
UpdateJob == [t \in TaskId |-> IF t = 2 THEN 1 ELSE NoTask]

\* No task waits for another.
NoUpdates == [t \in TaskId |-> NoTask]
=============================================================================
