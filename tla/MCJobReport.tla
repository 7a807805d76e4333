---------------------------- MODULE MCJobReport ----------------------------
(* Instances of JobReport for TLC. *)
EXTENDS JobReport
=============================================================================
