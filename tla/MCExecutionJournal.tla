------------------------- MODULE MCExecutionJournal -------------------------
(* Instances of ExecutionJournal for TLC.                                  *)
EXTENDS ExecutionJournal, TLC

\* Task ids are interchangeable: no action or property orders them.
TaskSymmetry == Permutations(TaskId)
=============================================================================
