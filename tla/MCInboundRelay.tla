---------------------------- MODULE MCInboundRelay ---------------------------
(***************************************************************************)
(* An instance of InboundRelay: a message that is sent twice, one that     *)
(* only one of two routes of the same mailbox accepts, and routes that may *)
(* be switched off or paused for want of a fingerprint.                    *)
(***************************************************************************)
EXTENDS InboundRelay

CONSTANTS m1, m2, i1, b1, r1, r2, l1

MCIdOf == [m \in Mail |-> i1]
MCBoxOf == [m \in Mail |-> b1]
MCReads == [r \in Route |-> b1]
MCSuits == {<<r1, m1>>, <<r1, m2>>}
MCRoutes(on) ==
  [r \in Route |-> [enabled |-> on \/ r = r1, signers |-> on \/ r # r1, lists |-> {l1}]]
MCStock ==
  {[routes |-> MCRoutes(on), lists |-> IF on THEN {l1} ELSE List] : on \in BOOLEAN}
=============================================================================
