------------------------------ MODULE EventLog ------------------------------
(***************************************************************************)
(* What the outbox promises to the consumers of platform.events, without   *)
(* workers, transactions or locks: a log of stored events, that only       *)
(* grows; an event may be in it several times, and one is ticked off only  *)
(* after it is in the log.                                                 *)
(***************************************************************************)
EXTENDS Sequences, Naturals

CONSTANT Events

VARIABLES stored,  \* the events that are committed
          log,     \* what consumers read
          done     \* the events nobody will send again

logVars == <<stored, log, done>>

InLog == {log[i] : i \in DOMAIN log}

Init == stored = {} /\ log = <<>> /\ done = {}

Store == /\ \E e \in Events : stored' = stored \cup {e}
         /\ UNCHANGED <<log, done>>

Emit == /\ \E e \in stored : log' = Append(log, e)
        /\ UNCHANGED <<stored, done>>

TickOff == /\ \E S \in SUBSET InLog : done' = done \cup S
           /\ UNCHANGED <<stored, log>>

Next == Store \/ Emit \/ TickOff

Spec == Init /\ [][Next]_logVars
=============================================================================
