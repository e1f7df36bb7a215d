--------------------------- MODULE MCSubscriptions ---------------------------
(***************************************************************************)
(* Subscriptions on small instances: t1 has two subscriptions and all the  *)
(* deletions, t2 one subscription.                                         *)
(***************************************************************************)
EXTENDS Subscriptions

CONSTANTS s3, t1, t2

MCTopicOf == [s \in Subs |-> IF s = s3 THEN t2 ELSE t1]

MCTarget == [d \in Drops |-> t1]
=============================================================================
