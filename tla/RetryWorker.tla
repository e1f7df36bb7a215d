---------------------------- MODULE RetryWorker -----------------------------
(***************************************************************************)
(* The retry worker (src/workers/retryWorker.js): a BullMQ worker that     *)
(* runs up to ten webhook-retry jobs at a time, each one attempt at one    *)
(* (event, subscription) pair, and schedules the next attempt or buries    *)
(* the event.                                                              *)
(*                                                                         *)
(* What this worker can do depends on how it was built, for its source     *)
(* has two slips.  Line 8 imports '../utils/retrySchedule' without its     *)
(* extension, which node does not resolve and Vitest does.  indexQueue and *)
(* buildDeliveryLogDocument are used on lines 60, 96 and 141 but never     *)
(* imported: evaluating them throws a ReferenceError.  The builds are      *)
(* "node" (the source as deployed: the worker never starts), "vitest" (the *)
(* source as tested) and "repaired" (the two imports added).               *)
(***************************************************************************)
EXTENDS DeliveryTables

CONSTANTS Slots,          \* the jobs the worker runs at a time
          Builds,         \* the builds to consider
          MaxRetryFaults  \* bound: failures that hit the retry worker

ASSUME RetryAssumption ==
    /\ IsFiniteSet(Slots)
    /\ Builds \subseteq {"node", "vitest", "repaired"}
    /\ MaxRetryFaults \in Nat

VARIABLES build,       \* how the retry worker was built
          slot,        \* where each running job is
          retryFaults  \* failures so far

retryVars == <<build, slot, retryFaults>>

Starts == build # "node"

Imported == build = "repaired"

\* locked: whether the worker holds the job's lock in Redis.
Free == [pc |-> "idle", job |-> 0, attempt |-> 0, success |-> FALSE, locked |-> FALSE]

RetryInit ==
    /\ build \in Builds
    /\ slot = [k \in Slots |-> Free]
    /\ retryFaults = 0

SlotAt(k, pc) == slot[k].pc = pc

JobOf(k) == jobs[slot[k].job]

Last(k) == isLastAttempt(JobOf(k).number)

MoveJob(j, state) == jobs' = [jobs EXCEPT ![j].state = state]

\* Redis refuses to finish a job whose lock the worker has lost.
FinishJob(k, state) ==
    \/ slot[k].locked /\ MoveJob(slot[k].job, state)
    \/ ~slot[k].locked /\ UNCHANGED jobs

\* A job whose delay is over is taken and locked.
Take(k) ==
    /\ Starts
    /\ SlotAt(k, "idle")
    /\ \E j \in DOMAIN jobs :
        /\ jobs[j].state = "waiting"
        /\ MoveJob(j, "active")
        /\ slot' = [slot EXCEPT ![k] = [Free EXCEPT !.pc = "load", !.job = j,
                                                    !.locked = TRUE]]
    /\ UNCHANGED <<sub, steady, attempts, deadLetters, indexJobs, retryFaults>>

\* Event, subscription and topic are read again; without an enabled
\* subscription the job is dropped.
Load(k) ==
    /\ SlotAt(k, "load")
    /\ slot' = [slot EXCEPT ![k].pc =
                    IF JobOf(k).sub \in Enabled THEN "create" ELSE "return"]
    /\ UNCHANGED <<tableVars, retryFaults>>

\* Variant for testing the properties: the pair's row is used again.
CreateReuses(k) ==
    /\ SlotAt(k, "create")
    /\ \E a \in DOMAIN attempts :
        /\ attempts[a].event = JobOf(k).event
        /\ attempts[a].sub = JobOf(k).sub
        /\ slot' = [slot EXCEPT ![k].pc = "deliver", ![k].attempt = a]
    /\ UNCHANGED <<tableVars, retryFaults>>

CreateNext(k) ==
    /\ SlotAt(k, "create")
    /\ sub[JobOf(k).sub] # "deleted"
    /\ createPendingAttempt(JobOf(k).event, JobOf(k).sub, JobOf(k).number)
    /\ slot' = [slot EXCEPT ![k].pc = "deliver", ![k].attempt = NewAttempt]
    /\ UNCHANGED <<sub, steady, deadLetters, jobs, indexJobs, retryFaults>>

Redeliver(k) ==
    /\ SlotAt(k, "deliver")
    /\ Ends(JobOf(k).sub)
    /\ \E ok \in BOOLEAN :
        slot' = [slot EXCEPT ![k].pc = "resolve", ![k].success = ok]
    /\ UNCHANGED <<tableVars, retryFaults>>

ResolveNext(k) ==
    /\ SlotAt(k, "resolve")
    /\ LET a == slot[k].attempt
       IN \/ slot[k].success /\ resolveAttempt(a, TRUE, NoDelay)
          \/ ~slot[k].success /\ Last(k) /\ deadLetterAttempt(a)
          \/ /\ ~slot[k].success /\ ~Last(k)
             /\ resolveAttempt(a, FALSE, computeRetryDelay(JobOf(k).number))
    /\ slot' = [slot EXCEPT ![k].pc = "index"]
    /\ UNCHANGED <<sub, steady, deadLetters, jobs, indexJobs, retryFaults>>

\* Variant: no return after a success.
FallsThrough(k) == IF Last(k) THEN "bury" ELSE "again"

\* Variant: a failed attempt is not followed up unless it was the last.
GivesUp(k) == IF ~slot[k].success /\ Last(k) THEN "bury" ELSE "return"

AfterIndex(k) == IF slot[k].success THEN "return"
                 ELSE IF Last(k) THEN "bury" ELSE "again"

\* Variant: the document of the last attempt is the one of any failure.
PlainStatus(k) == IF slot[k].success THEN "success" ELSE "failed"

StatusOf(k) == IF slot[k].success THEN "success"
               ELSE IF Last(k) THEN "dead_lettered" ELSE "failed"

IndexNext(k) ==
    /\ Imported
    /\ SlotAt(k, "index")
    /\ addIndexJob(slot[k].attempt, StatusOf(k))
    /\ slot' = [slot EXCEPT ![k].pc = AfterIndex(k)]
    /\ UNCHANGED <<sub, steady, attempts, deadLetters, jobs, retryFaults>>

\* Variant: BullMQ retries a failed job.
JobRetried(k) ==
    /\ FinishJob(k, "waiting")
    /\ slot' = [slot EXCEPT ![k] = Free]
    /\ UNCHANGED <<sub, steady, attempts, deadLetters, indexJobs>>

\* The processor rejects.  attempts: 1, so BullMQ does not run the job again.
JobFails(k) ==
    /\ FinishJob(k, "failed")
    /\ slot' = [slot EXCEPT ![k] = Free]
    /\ UNCHANGED <<sub, steady, attempts, deadLetters, indexJobs>>

\* The job of a replay may name a subscription that was never delivered to and
\* is deleted after the reload: the foreign key refuses the row.
NextRefused(k) ==
    /\ SlotAt(k, "create")
    /\ sub[JobOf(k).sub] = "deleted"
    /\ JobFails(k)
    /\ UNCHANGED retryFaults

\* ReferenceError: indexQueue is not defined
IndexUnbound(k) ==
    /\ ~Imported
    /\ SlotAt(k, "index")
    /\ JobFails(k)
    /\ UNCHANGED retryFaults

Bury(k) ==
    /\ SlotAt(k, "bury")
    /\ createDeadLetter(JobOf(k).event, JobOf(k).sub, JobOf(k).number)
    /\ slot' = [slot EXCEPT ![k].pc = "return"]
    /\ UNCHANGED <<sub, steady, attempts, jobs, indexJobs, retryFaults>>

RetryAgain(k) ==
    /\ SlotAt(k, "again")
    /\ addRetry(JobOf(k).event, JobOf(k).sub, JobOf(k).number + 1,
                computeRetryDelay(JobOf(k).number))
    /\ slot' = [slot EXCEPT ![k].pc = "return"]
    /\ UNCHANGED <<sub, steady, attempts, deadLetters, indexJobs, retryFaults>>

AgainUnanswered(k) ==
    /\ SlotAt(k, "again")
    /\ addRetryUnanswered(JobOf(k).event, JobOf(k).sub, JobOf(k).number + 1,
                          computeRetryDelay(JobOf(k).number))
    /\ UNCHANGED <<sub, steady, attempts, deadLetters, indexJobs, slot, retryFaults>>

\* The processor returned: BullMQ moves the job to the completed ones.
Complete(k) ==
    /\ SlotAt(k, "return")
    /\ FinishJob(k, "completed")
    /\ slot' = [slot EXCEPT ![k] = Free]
    /\ UNCHANGED <<sub, steady, attempts, deadLetters, indexJobs, retryFaults>>

-----------------------------------------------------------------------------
RetryFault == retryFaults < MaxRetryFaults /\ retryFaults' = retryFaults + 1

\* A call to the database or Redis throws, before or after it took effect ("deliver":
\* the row was created).
RetryThrow(k) ==
    /\ ~SlotAt(k, "idle")
    /\ JobFails(k)
    /\ RetryFault

\* The process dies with all its jobs, which stay locked.
RetryCrash ==
    /\ \E k \in Slots : ~SlotAt(k, "idle")
    /\ slot' = [k \in Slots |-> Free]
    /\ RetryFault
    /\ UNCHANGED tableVars

\* The worker could not renew the lock in time, and does not notice: it goes on
\* with the job, which another slot or process may now be given.
LoseLock(k) ==
    /\ slot[k].locked
    /\ slot' = [slot EXCEPT ![k].locked = FALSE]
    /\ RetryFault
    /\ UNCHANGED tableVars

Locked == {slot[k].job : k \in {i \in Slots : slot[i].locked}}

\* A job that runs without a lock waits again, once (maxStalledCount 1), and fails
\* the second time.
Stalled ==
    /\ Starts
    /\ \E j \in DOMAIN jobs :
        /\ jobs[j].state = "active"
        /\ j \notin Locked
        /\ jobs' = [jobs EXCEPT
                      ![j].state = IF jobs[j].stalls < 1 THEN "waiting" ELSE "failed",
                      ![j].stalls = @ + 1]
    /\ UNCHANGED <<sub, steady, attempts, deadLetters, indexJobs, slot, retryFaults>>

SlotStep(k) ==
    \/ Take(k) \/ Load(k) \/ CreateNext(k) \/ NextRefused(k) \/ Redeliver(k)
    \/ ResolveNext(k) \/ IndexNext(k) \/ IndexUnbound(k) \/ Bury(k) \/ RetryAgain(k)
    \/ Complete(k)

RetryNext == \/ \E k \in Slots : \/ SlotStep(k) \/ AgainUnanswered(k)
                                  \/ RetryThrow(k) \/ LoseLock(k)
             \/ RetryCrash
             \/ Stalled

-----------------------------------------------------------------------------
SlotType ==
    [pc : {"idle", "load", "create", "deliver", "resolve", "index", "bury",
           "again", "return"},
     job : Nat, attempt : Nat, success : BOOLEAN, locked : BOOLEAN]

RetryTypeOK ==
    /\ build \in {"node", "vitest", "repaired"}
    /\ slot \in [Slots -> SlotType]
    /\ retryFaults \in Nat
=============================================================================
