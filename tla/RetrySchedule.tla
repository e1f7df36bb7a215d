--------------------------- MODULE RetrySchedule ----------------------------
(***************************************************************************)
(* src/utils/retrySchedule.js: how long to wait before the next attempt,   *)
(* and which attempt is the last one.  The source fixes MAX_ATTEMPTS at 5  *)
(* and RETRY_DELAY_MS at 30 s, 5 min, 30 min and 2 h.                      *)
(***************************************************************************)
EXTENDS Integers, Sequences

CONSTANTS MAX_ATTEMPTS,   \* attempts before a delivery is dead-lettered
          RETRY_DELAY_MS  \* delays, indexed by the attempt that just failed

\* The table has an entry for every attempt but the last: retryWorker.js
\* 126-127 adds the delay to a date without a test for null.
ASSUME ScheduleAssumption ==
    /\ MAX_ATTEMPTS \in Nat \ {0, 1}
    /\ RETRY_DELAY_MS \in Seq(Nat \ {0})
    /\ Len(RETRY_DELAY_MS) = MAX_ATTEMPTS - 1

NoDelay == 0  \* null

computeRetryDelay(failed) ==
    IF failed \in DOMAIN RETRY_DELAY_MS THEN RETRY_DELAY_MS[failed] ELSE NoDelay

\* Variant for testing the properties: off by one.
isLastButOne(number) == number >= MAX_ATTEMPTS - 1

isLastAttempt(number) == number >= MAX_ATTEMPTS
=============================================================================
