--------------------------- MODULE DeliveryLedger ----------------------------
(***************************************************************************)
(* What delivery promises a tenant who reads its history: per event and    *)
(* subscription, attempts 1, 2, ... of which each follows the failure of   *)
(* the one before; a dead letter only after the last of them; and after    *)
(* that, attempts by hand, one success of which resolves it.  An entry is  *)
(* never struck out.                                                       *)
(*                                                                         *)
(* Nothing is said of workers, queues, copies or failures.  An attempt     *)
(* that was made twice with the same result is one entry; one that was     *)
(* made twice with different results is two, and each may have successors. *)
(***************************************************************************)
EXTENDS Naturals

CONSTANTS Pairs, MaxAttempts

VARIABLES ledger,   \* entries [pair, number, status] of finished attempts
          buried,   \* the pairs with a dead letter
          resolved  \* the pairs with a resolved dead letter

Entry(p, n, status) == [pair |-> p, number |-> n, status |-> status]

ledgerVars == <<ledger, buried, resolved>>

Init == ledger = {} /\ buried = {} /\ resolved = {}

Due(p, n) == \/ n = 1
             \/ n \in 2..MaxAttempts /\ Entry(p, n - 1, "failed") \in ledger

Results(n) == {"success", IF n = MaxAttempts THEN "dead_lettered" ELSE "failed"}

Record(p) ==
    /\ \E n \in 1..MaxAttempts : \E status \in Results(n) :
        /\ Due(p, n)
        /\ ledger' = ledger \cup {Entry(p, n, status)}
    /\ UNCHANGED <<buried, resolved>>

Bury(p) ==
    /\ Entry(p, MaxAttempts, "dead_lettered") \in ledger
    /\ buried' = buried \cup {p}
    /\ UNCHANGED <<ledger, resolved>>

\* A retry by hand fails.
RetryInVain(p) ==
    /\ p \in buried
    /\ ledger' = ledger \cup {Entry(p, MaxAttempts + 1, "failed")}
    /\ UNCHANGED <<buried, resolved>>

\* A retry by hand succeeds: entry and resolution come together.
Resolve(p) ==
    /\ p \in buried
    /\ ledger' = ledger \cup {Entry(p, MaxAttempts + 1, "success")}
    /\ resolved' = resolved \cup {p}
    /\ UNCHANGED buried

Next == \E p \in Pairs : Record(p) \/ Bury(p) \/ RetryInVain(p) \/ Resolve(p)

Spec == Init /\ [][Next]_ledgerVars
=============================================================================
