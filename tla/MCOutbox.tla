------------------------------ MODULE MCOutbox ------------------------------
(***************************************************************************)
(* Outbox on small instances: with MCKeys two requests share a key and the *)
(* third has none; with MCNoKeys every request inserts an event.           *)
(***************************************************************************)
EXTENDS Outbox

CONSTANTS r3, k1

MCKeys == [r \in Requests |-> IF r = r3 THEN NoKey ELSE k1]

MCNoKeys == [r \in Requests |-> NoKey]
=============================================================================
