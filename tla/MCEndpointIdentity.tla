------------------------- MODULE MCEndpointIdentity -------------------------
(* Instances of EndpointIdentity for TLC.                                  *)
EXTENDS EndpointIdentity, TLC

\* The pools of random values and the machines have no order.
Pools == Permutations(Id) \cup Permutations(Session)
           \cup Permutations(Token)
=============================================================================
