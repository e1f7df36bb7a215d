----------------------------- MODULE MCDelivery -----------------------------
(***************************************************************************)
(* Delivery on small instances.  MCSchedule is the source's table of       *)
(* delays; MCShort is one for MAX_ATTEMPTS = 3.                            *)
(***************************************************************************)
EXTENDS Delivery, TLC

MCSchedule == <<30000, 300000, 1800000, 7200000>>

MCShort == <<30000, 300000>>

MCOne == <<30000>>

MCNoOffset == -1

MCSymmetry == Permutations(Subs) \cup Permutations(Consumers)
              \cup Permutations(Slots) \cup Permutations(ManualRetries)
=============================================================================
