-------------------------- MODULE MCNewsletterQueue --------------------------
(* Instances of NewsletterQueue for TLC.                                   *)
EXTENDS NewsletterQueue, TLC

\* Recipients are interchangeable: the loop's order is that of random ids.
Recipients == Permutations(Delivery)
=============================================================================
