--------------------------- MODULE DeliveryWorker ---------------------------
(***************************************************************************)
(* The delivery workers (src/workers/delivery.worker.js): members of one   *)
(* Kafka consumer group that fan each event of platform.events out to the  *)
(* enabled subscriptions of its topic and commit its offset afterwards.    *)
(*                                                                         *)
(* One partition is modelled (one tenant's events share one).  At most one *)
(* member owns it.  A member that takes longer than the session timeout    *)
(* over a message - the HTTP call has no working timeout - loses it to     *)
(* another member and goes on regardless; its commit is then fenced.       *)
(***************************************************************************)
EXTENDS DeliveryTables

CONSTANTS Consumers,      \* the delivery-worker processes
          InitialOffset,  \* the group's offset at the start, or NoOffset
          NoOffset,       \* the group has not committed an offset yet
          MaxLog,         \* bound: messages on the partition
          MaxFaults       \* bound: failures that hit a delivery worker

ASSUME ConsumerAssumption ==
    /\ NoOffset \notin Nat
    /\ InitialOffset \in {0, NoOffset}
    /\ MaxLog \in Nat
    /\ MaxFaults \in Nat

VARIABLES log,        \* the partition
          committed,  \* the group's committed offset: messages before it are done
          owner,      \* the member that owns the partition: at most one
          con,        \* where each delivery worker is
          faults      \* failures so far

consumerVars == <<log, committed, owner, con, faults>>

\* offset: of the message in hand, or the next one.  todo: the subscriptions
\* the loop is not done with.  attempt, success: the row of the current one and
\* the result of its call.
Out == [pc |-> "out", offset |-> 0, todo |-> {}, attempt |-> 0, success |-> FALSE]

ConsumersInit ==
    /\ log = <<>>
    /\ committed = InitialOffset
    /\ owner = {}
    /\ con = [c \in Consumers |-> Out]
    /\ faults = 0

At(c, pc) == con[c].pc = pc

Event(c) == log[con[c].offset + 1]

Attempt(c) == con[c].attempt

Polling(offset) == [Out EXCEPT !.pc = "poll", !.offset = offset]

\* Variant for testing the properties: the loop ends after one subscription.
DoneWithAll(c) == [Out EXCEPT !.pc = "commit", !.offset = con[c].offset]

\* The loop is done with the current subscription: the next one, or the commit.
DoneWithOne(c) ==
    LET rest == con[c].todo \ {attempts[Attempt(c)].sub}
    IN [Out EXCEPT !.pc = IF rest = {} THEN "commit" ELSE "create",
                   !.offset = con[c].offset, !.todo = rest]

\* An outbox worker appends a message; it may have sent the event before.
Produce ==
    /\ Len(log) < MaxLog
    /\ \E e \in Events : log' = Append(log, e)
    /\ UNCHANGED <<tableVars, committed, owner, con, faults>>

\* The member is assigned the partition and starts at the committed offset;
\* without one, fromBeginning: false starts it after the newest message.
StartOffset == IF committed = NoOffset THEN Len(log) ELSE committed

\* Variant for testing the properties: every worker is a group of its own.
JoinOwnGroup(c) ==
    /\ At(c, "out")
    /\ owner' = owner \cup {c}
    /\ con' = [con EXCEPT ![c] = Polling(StartOffset)]
    /\ UNCHANGED <<tableVars, log, committed, faults>>

Join(c) ==
    /\ At(c, "out")
    /\ owner = {}
    /\ owner' = {c}
    /\ con' = [con EXCEPT ![c] = Polling(StartOffset)]
    /\ UNCHANGED <<tableVars, log, committed, faults>>

Fetch(c) ==
    /\ At(c, "poll")
    /\ c \in owner
    /\ con[c].offset < Len(log)
    /\ con' = [con EXCEPT ![c].pc = "load"]
    /\ UNCHANGED <<tableVars, log, committed, owner, faults>>

\* subscription.findMany({topicId, enabled: true})
LoadSubscriptions(c) ==
    /\ At(c, "load")
    /\ con' = [con EXCEPT ![c].todo = Enabled,
                          ![c].pc = IF Enabled = {} THEN "commit" ELSE "create"]
    /\ UNCHANGED <<tableVars, log, committed, owner, faults>>

\* The next subscription: the query gives them in no particular order.
CreateFirst(c) ==
    /\ At(c, "create")
    /\ \E s \in con[c].todo :
        /\ sub[s] # "deleted"
        /\ createPendingAttempt(Event(c), s, 1)
        /\ con' = [con EXCEPT ![c].pc = "deliver", ![c].attempt = NewAttempt]
    /\ UNCHANGED <<sub, steady, deadLetters, jobs, indexJobs>>
    /\ UNCHANGED <<log, committed, owner, faults>>

\* The subscription was deleted since the query: the foreign key refuses the
\* row, eachMessage throws and the client fetches the message again.
CreateRefused(c) ==
    /\ At(c, "create")
    /\ \E s \in con[c].todo : sub[s] = "deleted"
    /\ con' = [con EXCEPT ![c] = Polling(con[c].offset)]
    /\ UNCHANGED <<tableVars, log, committed, owner, faults>>

\* deliverWebhook throws nothing: it answers, if the call ends.
Deliver(c) ==
    /\ At(c, "deliver")
    /\ Ends(attempts[Attempt(c)].sub)
    /\ \E ok \in BOOLEAN :
        con' = [con EXCEPT ![c].pc = "resolve", ![c].success = ok]
    /\ UNCHANGED <<tableVars, log, committed, owner, faults>>

FirstDelay(success) == IF success THEN NoDelay ELSE computeRetryDelay(1)

FirstStatus(success) == IF success THEN "success" ELSE "failed"

ResolveFirst(c) ==
    /\ At(c, "resolve")
    /\ resolveAttempt(Attempt(c), con[c].success, FirstDelay(con[c].success))
    /\ con' = [con EXCEPT ![c].pc = "index"]
    /\ UNCHANGED <<sub, steady, deadLetters, jobs, indexJobs>>
    /\ UNCHANGED <<log, committed, owner, faults>>

\* Variant: no retry is queued.
IndexWithoutRetry(c) ==
    /\ At(c, "index")
    /\ addIndexJob(Attempt(c), FirstStatus(con[c].success))
    /\ con' = [con EXCEPT ![c] = DoneWithOne(c)]
    /\ UNCHANGED <<sub, steady, attempts, deadLetters, jobs>>
    /\ UNCHANGED <<log, committed, owner, faults>>

IndexFirst(c) ==
    /\ At(c, "index")
    /\ addIndexJob(Attempt(c), FirstStatus(con[c].success))
    /\ IF FirstDelay(con[c].success) = NoDelay
       THEN con' = [con EXCEPT ![c] = DoneWithOne(c)]
       ELSE con' = [con EXCEPT ![c].pc = "retry"]
    /\ UNCHANGED <<sub, steady, attempts, deadLetters, jobs>>
    /\ UNCHANGED <<log, committed, owner, faults>>

ScheduleRetry(c) ==
    /\ At(c, "retry")
    /\ addRetry(Event(c), attempts[Attempt(c)].sub, 2, computeRetryDelay(1))
    /\ con' = [con EXCEPT ![c] = DoneWithOne(c)]
    /\ UNCHANGED <<sub, steady, attempts, deadLetters, indexJobs>>
    /\ UNCHANGED <<log, committed, owner, faults>>

ScheduleUnanswered(c) ==
    /\ At(c, "retry")
    /\ addRetryUnanswered(Event(c), attempts[Attempt(c)].sub, 2, computeRetryDelay(1))
    /\ UNCHANGED <<sub, steady, attempts, deadLetters, indexJobs, consumerVars>>

\* Variant: a member that lost the partition commits all the same.
CommitUnfenced(c) ==
    /\ At(c, "commit")
    /\ committed' = con[c].offset + 1
    /\ con' = [con EXCEPT ![c] = Polling(con[c].offset + 1)]
    /\ UNCHANGED <<tableVars, log, owner, faults>>

CommitOffset(c) ==
    /\ At(c, "commit")
    /\ c \in owner
    /\ committed' = con[c].offset + 1
    /\ con' = [con EXCEPT ![c] = Polling(con[c].offset + 1)]
    /\ UNCHANGED <<tableVars, log, owner, faults>>

\* The partition went to another member, or is about to: the commit or the
\* fetch is refused and the member joins again.
Fenced(c) ==
    /\ con[c].pc \in {"commit", "poll"}
    /\ c \notin owner
    /\ con' = [con EXCEPT ![c] = Out]
    /\ UNCHANGED <<tableVars, log, committed, owner, faults>>

-----------------------------------------------------------------------------
Fault == faults < MaxFaults /\ faults' = faults + 1

\* Variant: a message whose handler threw is not fetched again.
ThrowSkips(c) ==
    /\ con[c].pc \in {"load", "create", "resolve", "index", "retry", "commit"}
    /\ con' = [con EXCEPT ![c] = Polling(con[c].offset + 1)]
    /\ Fault
    /\ UNCHANGED <<tableVars, log, committed, owner>>

\* A call to the database, Redis or Kafka throws, before or after it took
\* effect ("deliver": the row was created): eachMessage rejects and the message
\* is fetched again.
Throw(c) ==
    /\ ~ (At(c, "out") \/ At(c, "poll"))
    /\ con' = [con EXCEPT ![c] = Polling(con[c].offset)]
    /\ Fault
    /\ UNCHANGED <<tableVars, log, committed, owner>>

\* The commit takes effect and throws all the same.
CommitThrows(c) ==
    /\ At(c, "commit")
    /\ c \in owner
    /\ committed' = con[c].offset + 1
    /\ con' = [con EXCEPT ![c] = Polling(con[c].offset)]
    /\ Fault
    /\ UNCHANGED <<tableVars, log, owner>>

Crash(c) ==
    /\ ~At(c, "out")
    /\ con' = [con EXCEPT ![c] = Out]
    /\ owner' = owner \ {c}
    /\ Fault
    /\ UNCHANGED <<tableVars, log, committed>>

\* No heartbeat for longer than the session timeout: messages take too long.
Evict(c) ==
    /\ c \in owner
    /\ con[c].pc # "poll"
    /\ owner' = {}
    /\ Fault
    /\ UNCHANGED <<tableVars, log, committed, con>>

ConsumerStep(c) ==
    \/ Join(c) \/ Fetch(c) \/ LoadSubscriptions(c) \/ CreateFirst(c)
    \/ CreateRefused(c) \/ Deliver(c) \/ ResolveFirst(c) \/ IndexFirst(c)
    \/ ScheduleRetry(c) \/ CommitOffset(c) \/ Fenced(c)

ConsumerFault(c) ==
    ScheduleUnanswered(c) \/ Throw(c) \/ CommitThrows(c) \/ Crash(c) \/ Evict(c)

ConsumersNext == \/ Produce
                 \/ \E c \in Consumers : ConsumerStep(c) \/ ConsumerFault(c)

-----------------------------------------------------------------------------
ConsumerType ==
    [pc : {"out", "poll", "load", "create", "deliver", "resolve", "index",
           "retry", "commit"},
     offset : Nat, todo : SUBSET Subs, attempt : Nat, success : BOOLEAN]

ConsumersTypeOK ==
    /\ log \in Seq(Events)
    /\ committed \in Nat \cup {NoOffset}
    /\ owner \subseteq Consumers
    /\ con \in [Consumers -> ConsumerType]
    /\ faults \in Nat

\* Attempt 1 of event e at s succeeded, or its retry is in the queue.
Delivered(e, s) == Attempted(e, s, 1, "success") \/ RetryAdded(e, s, 2)

\* Once the group's offset has passed a message, every subscription that was
\* enabled all along has its event, or a retry of it: no crash, exception,
\* eviction or redelivery makes the fan-out skip one (README.md:340,
\* delivery.worker.js 146-150).
AtLeastOnce ==
    committed # NoOffset =>
        \A i \in 1..committed : \A s \in steady : Delivered(log[i], s)

\* The group's offset never goes back, whoever commits (a member that lost the
\* partition must not undo the progress of the next one).
OffsetMovesForward ==
    [][committed # NoOffset => committed' >= committed]_<<tableVars, consumerVars>>
=============================================================================
