--------------------------- MODULE MCAgentRollout ---------------------------
(* Instances of AgentRollout for TLC.                                      *)
EXTENDS AgentRollout

\* Linux and Windows hosts mixed in the order of the targets.
TwoPlatforms == [h \in Host |-> IF h % 2 = 1 THEN "linux" ELSE "windows"]
=============================================================================
