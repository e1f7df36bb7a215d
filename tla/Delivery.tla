------------------------------ MODULE Delivery ------------------------------
(***************************************************************************)
(* Delivery end to end: the delivery workers and the retry worker over the *)
(* tables and queues they share, while tenants create, switch and delete   *)
(* subscriptions, replay them and retry dead letters.                      *)
(***************************************************************************)
EXTENDS DeliveryWorker, RetryWorker, Redelivery

vars == <<tableVars, consumerVars, retryVars, requestVars>>

Init == TablesInit /\ ConsumersInit /\ RetryInit /\ RedeliveryInit

Next == \/ TablesNext /\ UNCHANGED <<consumerVars, retryVars, requestVars>>
        \/ ConsumersNext /\ UNCHANGED <<retryVars, requestVars>>
        \/ RetryNext /\ UNCHANGED <<consumerVars, build, requestVars>>
        \/ RedeliveryNext /\ UNCHANGED <<consumerVars, retryVars>>

Spec == Init /\ [][Next]_vars

\* Every worker process is restarted when it dies (restart: unless-stopped),
\* kafkajs and BullMQ keep fetching, and an HTTP call ends unless its endpoint is
\* Endless: fetch has time limits of its own, of minutes.  Which free slot takes
\* which job is BullMQ's choice.
Fairness ==
    /\ \A c \in Consumers : WF_vars(ConsumerStep(c) /\ UNCHANGED <<retryVars, requestVars>>)
    /\ \A k \in Slots :
         WF_vars(SlotStep(k) /\ UNCHANGED <<consumerVars, build, requestVars>>)
    /\ WF_vars(Stalled /\ UNCHANGED <<consumerVars, build, requestVars>>)

FairSpec == Spec /\ Fairness

-----------------------------------------------------------------------------
TypeOK == TablesTypeOK /\ ConsumersTypeOK /\ RetryTypeOK /\ RedeliveryTypeOK

\* A resolved attempt is history: no worker, redelivery or rerun of a job ever
\* writes its row again (deliveryAttemptService.js 17-51 update by id alone).
ResolvedIsFinal ==
    [][\A a \in DOMAIN attempts :
        /\ a \in DOMAIN attempts'
        /\ attempts[a].status # "pending" => attempts'[a] = attempts[a]]_vars

\* Every job and every later attempt has a cause: a failed attempt before it of
\* the same pair, that announced it in next_retry_at (delivery.worker.js 116-123,
\* retryWorker.js 159-168), a replay that listed the event for attempt 1, a dead
\* letter for the attempt after the last.  A second chain that a replay starts beside the first, or a
\* rerun of a stalled job, never makes up an attempt.
Announced(e, s, n) ==
    \E a \in DOMAIN attempts :
        /\ attempts[a].event = e
        /\ attempts[a].sub = s
        /\ attempts[a].number = n
        /\ attempts[a].status = "failed"
        /\ attempts[a].delay = computeRetryDelay(n)

Lists(r, e, s) == \E i \in DOMAIN replay[r].bulk : /\ replay[r].bulk[i].event = e
                                                   /\ replay[r].bulk[i].sub = s

JobHasCause(j) ==
    \/ /\ jobs[j].number = 1
       /\ jobs[j].delay = NoDelay
       /\ \E r \in Replays : Lists(r, jobs[j].event, jobs[j].sub)
    \/ /\ jobs[j].number \in 2..MAX_ATTEMPTS
       /\ jobs[j].delay = computeRetryDelay(jobs[j].number - 1)
       /\ Announced(jobs[j].event, jobs[j].sub, jobs[j].number - 1)

AttemptHasCause(a) ==
    \/ attempts[a].number = 1
    \/ /\ attempts[a].number \in 2..MAX_ATTEMPTS
       /\ Announced(attempts[a].event, attempts[a].sub, attempts[a].number - 1)
    \/ /\ attempts[a].number = MAX_ATTEMPTS + 1
       /\ DeadLettered(attempts[a].event, attempts[a].sub)

RetryHasCause == /\ \A j \in DOMAIN jobs : JobHasCause(j)
                 /\ \A a \in DOMAIN attempts : AttemptHasCause(a)

\* A dead letter stands for MAX_ATTEMPTS recorded attempts of its pair: the
\* last is dead_lettered and all the earlier ones failed (README.md:18).
DeadLetterBacked ==
    \A d \in DOMAIN deadLetters :
        LET e == deadLetters[d].event
            s == deadLetters[d].sub
        IN /\ deadLetters[d].total = MAX_ATTEMPTS
           /\ Attempted(e, s, MAX_ATTEMPTS, "dead_lettered")
           /\ \A n \in 1..(MAX_ATTEMPTS - 1) : Attempted(e, s, n, "failed")

\* The row of manual retry m, once it made one, says that it delivered letter d.
Redelivers(m, d) ==
    /\ manual[m].letter = d
    /\ manual[m].attempt # 0
    /\ attempts[manual[m].attempt].event = deadLetters[d].event
    /\ attempts[manual[m].attempt].sub = deadLetters[d].sub
    /\ attempts[manual[m].attempt].number = deadLetters[d].total + 1
    /\ attempts[manual[m].attempt].status = "success"

\* A dead letter is resolved when a manual retry of that very letter has its
\* success on record, and not otherwise: whatever other retry of it fails or dies
\* before or afterwards, and whatever becomes of another letter of the same pair
\* (deadLetterService.js 125-145).  No other attempt after the last succeeds.
ResolvedWhenRedelivered ==
    /\ \A d \in DOMAIN deadLetters :
         deadLetters[d].resolved <=> \E m \in ManualRetries : Redelivers(m, d)
    /\ \A a \in DOMAIN attempts :
         attempts[a].number > MAX_ATTEMPTS /\ attempts[a].status = "success" =>
            \E m \in ManualRetries, d \in DOMAIN deadLetters :
                manual[m].attempt = a /\ Redelivers(m, d)

\* A subscription that an attempt, a retry job or a dead letter names still
\* exists: the foreign keys make deletion lose every race with the fan-out, so a
\* retry is never dropped because its subscription is gone (retryWorker.js 14,
\* 31).  Only the jobs of a replay may outlive it.
NamedSubscriptionsExist ==
    /\ \A a \in DOMAIN attempts : sub[attempts[a].sub] # "deleted"
    /\ \A j \in DOMAIN jobs : jobs[j].number > 1 => sub[jobs[j].sub] # "deleted"
    /\ \A d \in DOMAIN deadLetters : sub[deadLetters[d].sub] # "deleted"

\* A document in the delivery log says of its attempt what the table says, then
\* and for ever, though each author of documents spells the status out for itself
\* (delivery.worker.js 62-114, retryWorker.js 60, 96, 141).
LogMatchesHistory ==
    \A x \in indexJobs : /\ x.attempt \in DOMAIN attempts
                         /\ attempts[x.attempt].status = x.status

-----------------------------------------------------------------------------
(* The ledger that the tables stand for.                                     *)

PairOf(x) == <<x.event, x.sub>>

Finished == {a \in DOMAIN attempts : attempts[a].status # "pending"}

EntryOf(a) == [pair |-> PairOf(attempts[a]), number |-> attempts[a].number,
               status |-> attempts[a].status]

Entries == {EntryOf(a) : a \in Finished}

BuriedPairs == {PairOf(deadLetters[d]) : d \in DOMAIN deadLetters}

ResolvedPairs == {PairOf(deadLetters[d]) :
                    d \in {c \in DOMAIN deadLetters : deadLetters[c].resolved}}

Ledger == INSTANCE DeliveryLedger WITH
    Pairs <- Events \X Subs, MaxAttempts <- MAX_ATTEMPTS,
    ledger <- Entries, buried <- BuriedPairs, resolved <- ResolvedPairs

\* Delivery keeps the ledger: through crashes, stalled jobs, redeliveries,
\* replays and overlapping manual retries, every finished attempt is a due entry
\* of its pair, no entry changes, no dead letter comes before the last attempt or
\* is resolved without a success (README.md:17-18, deadLetterService.js 85-162).
ImplementsLedger == Ledger!Spec

-----------------------------------------------------------------------------
\* The rows that some worker has in hand.
Busy == {Attempt(c) : c \in {d \in Consumers : con[d].pc \in {"deliver", "resolve", "index", "retry"}}}
        \cup {slot[k].attempt : k \in {i \in Slots : ~SlotAt(i, "idle")}}

\* Attempt a has its consequences in place: its outcome, its document, and the
\* retry of a failed attempt or the dead letter of the last one.
FollowedUp(a) ==
    LET e == attempts[a].event
        s == attempts[a].sub
        n == attempts[a].number
    IN /\ attempts[a].status # "pending"
       /\ \E x \in indexJobs : x.attempt = a
       /\ attempts[a].status = "failed" => RetryAdded(e, s, n + 1)
       /\ attempts[a].status = "dead_lettered" => DeadLettered(e, s)

LooseEnds == {a \in DOMAIN attempts \ Busy : /\ attempts[a].number <= MAX_ATTEMPTS
                                             /\ ~FollowedUp(a)}

\* What a worker leaves unfinished between two of its steps - a row pending for
\* ever, a document or a retry never queued, a row that says dead_lettered without
\* its dead letter (retryWorker.js 86-135) - it leaves to a failure, and to each
\* failure no more than that failure interrupted: one row of a delivery worker, one
\* row for each slot of the retry worker.  No order of steps, rerun, eviction or
\* resent add loses a consequence by itself (README.md:17-18, 178).
LooseEndsNeedFaults ==
    build # "vitest" =>
        Cardinality(LooseEnds) <= faults + retryFaults * Cardinality(Slots)

AttemptsOf(e, s, n) == {a \in DOMAIN attempts : /\ attempts[a].event = e
                                                /\ attempts[a].sub = s
                                                /\ attempts[a].number = n}

CopiesOf(e) == Cardinality({i \in DOMAIN log : log[i] = e})

Deleted == {s \in Subs : sub[s] = "deleted"}

\* The runs of its jobs: one, and another for each time the job stalled.
RunsOf(e, s, n) == {p \in (DOMAIN jobs) \X {0, 1} : /\ jobs[p[1]].event = e
                                                    /\ jobs[p[1]].sub = s
                                                    /\ jobs[p[1]].number = n
                                                    /\ p[2] <= jobs[p[1]].stalls}

\* A subscription is sent an event for the first time once for each copy on the
\* partition and each run of a replay's job, and once more at most for each
\* failure or refused row that makes a worker fetch its message again
\* (README.md:340).
EveryRedeliveryHasCause ==
    \A e \in Events, s \in Subs :
        Cardinality(AttemptsOf(e, s, 1))
            <= CopiesOf(e) + faults + Cardinality(Deleted) + Cardinality(RunsOf(e, s, 1))

JobsOf(e, s, n) == {j \in DOMAIN jobs : /\ jobs[j].event = e
                                        /\ jobs[j].sub = s
                                        /\ jobs[j].number = n}

ResentOf(e, s, n) == JobsOf(e, s, n) \cap Unanswered

\* A later attempt is recorded once for each run of its job, and a job runs
\* twice at most, even when a worker that lost its lock goes on beside the next
\* run; each failed attempt queues at most one job (retryQueue.js 14-15: a second
\* retry mechanism "would double-count attempts"), and a replay queues an event
\* once, but for each add that broke off before its answer.  A manual retry makes
\* one attempt.
EveryRerunHasCause ==
    \A e \in Events, s \in Subs :
        /\ \A n \in 2..MAX_ATTEMPTS :
            /\ Cardinality(AttemptsOf(e, s, n)) <= Cardinality(RunsOf(e, s, n))
            /\ Cardinality(JobsOf(e, s, n))
                 <= Cardinality(AttemptsOf(e, s, n - 1)) + Cardinality(ResentOf(e, s, n))
        /\ Cardinality(JobsOf(e, s, 1))
             <= Cardinality(Replays) + Cardinality(ResentOf(e, s, 1))
        /\ Cardinality(AttemptsOf(e, s, MAX_ATTEMPTS + 1)) <= Cardinality(ManualRetries)

InLog(e) == \E i \in DOMAIN log : log[i] = e

HasOutcome(e, s) ==
    DeadLettered(e, s)
    \/ \E n \in 1..MAX_ATTEMPTS : Attempted(e, s, n, "success")

\* A failure of the retry worker stopped the pair's chain: BullMQ runs no job
\* again after an error.
LostToFault(e, s) ==
    /\ retryFaults > 0
    /\ \E j \in DOMAIN jobs :
        jobs[j].event = e /\ jobs[j].sub = s /\ jobs[j].state = "failed"

\* BullMQ has a job of the pair to run, or lets one run.
Underway(e, s) == \E j \in DOMAIN jobs : /\ jobs[j].event = e
                                         /\ jobs[j].sub = s
                                         /\ jobs[j].state \in {"waiting", "active"}

Passed(e) == committed # NoOffset /\ \E i \in 1..committed : log[i] = e

\* Between the group's offset, the two queues and the slots nothing falls through:
\* once the offset has passed an event, or a job was added for it, the event has
\* its outcome at each subscription that stays enabled, or a job on the way to one,
\* at every moment and through every crash, stall and exception ("no event is
\* silently dropped", docs/interview-questions.md:468).
NothingForgotten ==
    Imported =>
        \A e \in Events, s \in steady :
            Passed(e) \/ (\E j \in DOMAIN jobs : jobs[j].event = e /\ jobs[j].sub = s) =>
                HasOutcome(e, s) \/ Underway(e, s) \/ LostToFault(e, s)

\* An event on the partition, or replayed, is in the end delivered to every
\* subscription that stays enabled, or dead-lettered for it
\* (docs/interview-questions.md:468), even when the endpoint of another one never
\* ends its answers (README.md:23).  The one exception is a job that a failure of
\* the retry worker itself ended.
EveryDeliverySettles ==
    \A e \in Events, s \in Subs \ Endless :
        (InLog(e) \/ RetryAdded(e, s, 1)) /\ s \in steady
            ~> HasOutcome(e, s) \/ s \notin steady \/ LostToFault(e, s)
=============================================================================
