--------------------------- MODULE DeliveryTables ---------------------------
(***************************************************************************)
(* What the delivery worker and the retry worker share: the tables         *)
(* subscriptions, delivery_attempts and dead_letters, and the two queues   *)
(* in Redis.  The operators are the services that write them; each is one  *)
(* transaction (withTenant) or one command to Redis.                       *)
(*                                                                         *)
(* An add whose answer is lost with the connection is sent again by the    *)
(* client: maxRetriesPerRequest is null, and no job has an id of its own,  *)
(* so the queue then holds the job twice (retryQueue.js 6-9).  A document  *)
(* queued twice for indexing is the same document: it has an id.           *)
(*                                                                         *)
(* Rows and jobs are only ever appended, so a row is named by its index.   *)
(* A finished job stays in the model with its final state.                 *)
(***************************************************************************)
EXTENDS RetrySchedule, FiniteSets

CONSTANTS Events,     \* the events of one topic
          Subs,       \* the subscriptions to it
          Endless,    \* those whose endpoint never ends its answer
          MaxResends  \* bound: jobs whose add the client sends again

ASSUME TopicAssumption ==
    /\ IsFiniteSet(Events)
    /\ IsFiniteSet(Subs)
    /\ MaxResends \in Nat

VARIABLES sub,          \* the subscriptions, as other transactions see them
          steady,       \* the subscriptions that have been enabled all along
          attempts,     \* delivery_attempts
          deadLetters,  \* dead_letters
          jobs,         \* the BullMQ queue webhook-retry
          indexJobs     \* the documents ever queued on delivery-log-index

tableVars == <<sub, steady, attempts, deadLetters, jobs, indexJobs>>

Enabled == {s \in Subs : sub[s] = "enabled"}

\* A call to the endpoint of s ends.  deliver.js aborts after ten seconds a
\* controller that fetch was never given, and fetch waits as long as some byte
\* of the body arrives every few minutes.
Ends(s) == s \notin Endless

TablesInit ==
    /\ sub \in [Subs -> {"absent", "enabled"}]
    /\ steady = Enabled
    /\ attempts = <<>>
    /\ deadLetters = <<>>
    /\ jobs = <<>>
    /\ indexJobs = {}

-----------------------------------------------------------------------------
(* deliveryAttemptService, deadLetterService.createDeadLetter and the        *)
(* queues' add.                                                              *)

NewAttempt == Len(attempts) + 1

createPendingAttempt(e, s, n) ==
    attempts' = Append(attempts, [event |-> e, sub |-> s, number |-> n,
                                  status |-> "pending", delay |-> NoDelay])

\* Variant for testing the properties: a word no query looks for.
resolveAttemptMisnamed(a, success, delay) ==
    attempts' = [attempts EXCEPT
                    ![a].status = IF success THEN "delivered" ELSE "failed",
                    ![a].delay = delay]

\* delay stands for next_retry_at, the time of the update plus the delay.
resolveAttempt(a, success, delay) ==
    attempts' = [attempts EXCEPT
                    ![a].status = IF success THEN "success" ELSE "failed",
                    ![a].delay = delay]

deadLetterAttempt(a) ==
    attempts' = [attempts EXCEPT ![a].status = "dead_lettered",
                                 ![a].delay = NoDelay]

createDeadLetter(e, s, total) ==
    deadLetters' = Append(deadLetters, [event |-> e, sub |-> s, total |-> total,
                                        resolved |-> FALSE])

\* answered: whether the add that made the job was answered.
newJob(e, s, n, delay) ==
    [event |-> e, sub |-> s, number |-> n, delay |-> delay,
     state |-> "waiting", stalls |-> 0, answered |-> TRUE]

addRetry(e, s, n, delay) == jobs' = Append(jobs, newJob(e, s, n, delay))

Unanswered == {j \in DOMAIN jobs : ~jobs[j].answered}

\* The connection breaks after a job was added and before the answer: the caller
\* still waits for its add, which the client sends again.
LosesAnswer == Cardinality(Unanswered) < MaxResends

unanswered(job) == [job EXCEPT !.answered = FALSE]

addRetryUnanswered(e, s, n, delay) ==
    /\ LosesAnswer
    /\ jobs' = Append(jobs, unanswered(newJob(e, s, n, delay)))

\* The document of attempt a, with the status its author gives it.
addIndexJob(a, status) ==
    indexJobs' = indexJobs \cup {[attempt |-> a, status |-> status]}

-----------------------------------------------------------------------------
(* subscriptionService, as far as delivery sees it.                          *)

createSubscription(s) ==
    /\ sub[s] = "absent"
    /\ sub' = [sub EXCEPT ![s] = "enabled"]
    /\ UNCHANGED <<steady, attempts, deadLetters, jobs, indexJobs>>

\* updateSubscription with isEnabled
updateSubscription(s) ==
    /\ sub[s] \in {"enabled", "disabled"}
    /\ \E enabled \in {"enabled", "disabled"} : sub' = [sub EXCEPT ![s] = enabled]
    /\ steady' = {t \in steady : sub'[t] = "enabled"}
    /\ UNCHANGED <<attempts, deadLetters, jobs, indexJobs>>

\* Variant: no foreign key.
NeverReferenced(s) == FALSE

\* The foreign keys of delivery_attempts and dead_letters are ON DELETE
\* RESTRICT: the delete fails once anything was delivered to s.
Referenced(s) == \E a \in DOMAIN attempts : attempts[a].sub = s

deleteSubscription(s) ==
    /\ sub[s] \in {"enabled", "disabled"}
    /\ ~Referenced(s)
    /\ sub' = [sub EXCEPT ![s] = "deleted"]
    /\ steady' = steady \ {s}
    /\ UNCHANGED <<attempts, deadLetters, jobs, indexJobs>>

TablesNext == \E s \in Subs : \/ createSubscription(s)
                              \/ updateSubscription(s)
                              \/ deleteSubscription(s)

-----------------------------------------------------------------------------
AttemptType == [event : Events, sub : Subs, number : Nat,
                status : {"pending", "success", "failed", "dead_lettered"},
                delay : Nat]

DeadLetterType == [event : Events, sub : Subs, total : Nat, resolved : BOOLEAN]

JobType == [event : Events, sub : Subs, number : Nat, delay : Nat,
            state : {"waiting", "active", "completed", "failed"}, stalls : Nat,
            answered : BOOLEAN]

TablesTypeOK ==
    /\ sub \in [Subs -> {"absent", "enabled", "disabled", "deleted"}]
    /\ steady \subseteq Subs
    /\ attempts \in Seq(AttemptType)
    /\ deadLetters \in Seq(DeadLetterType)
    /\ jobs \in Seq(JobType)
    /\ indexJobs \subseteq [attempt : Nat, status : {"success", "failed", "dead_lettered"}]

\* Some attempt with that number of event e at subscription s has that status.
Attempted(e, s, n, status) ==
    \E a \in DOMAIN attempts :
        /\ attempts[a].event = e
        /\ attempts[a].sub = s
        /\ attempts[a].number = n
        /\ attempts[a].status = status

RetryAdded(e, s, n) ==
    \E j \in DOMAIN jobs :
        jobs[j].event = e /\ jobs[j].sub = s /\ jobs[j].number = n

DeadLettered(e, s) ==
    \E d \in DOMAIN deadLetters :
        deadLetters[d].event = e /\ deadLetters[d].sub = s
=============================================================================
