----------------------------- MODULE MCRateLimit ----------------------------
(***************************************************************************)
(* RateLimit on a small instance: tenant a is there, b and c compete for   *)
(* an address.                                                             *)
(***************************************************************************)
EXTENDS RateLimit, TLC

CONSTANT a

MCEmailOf == [s \in Tenants |-> IF s = a THEN "first" ELSE "second"]

MCSymmetry == Permutations(Calls) \cup Permutations(Revokes)
                \cup Permutations(Tenants \ {a})
=============================================================================
