----------------------------- MODULE Redelivery ------------------------------
(***************************************************************************)
(* Deliveries a tenant asks for: the replay of a subscription              *)
(* (src/services/replayService.js), which queues retry jobs with attempt   *)
(* number 1 whatever became of the events before, and the manual retry of  *)
(* a dead letter (retryDeadLetter in src/services/deadLetterService.js),   *)
(* which the API process delivers itself.                                  *)
(*                                                                         *)
(* Requests come at any time, several at once, and any of them may fail or *)
(* die with its process between two steps.  Nothing a request wrote is     *)
(* undone then.                                                            *)
(***************************************************************************)
EXTENDS DeliveryTables, Functions

CONSTANTS Replays,        \* requests to replay a subscription
          ManualRetries   \* requests to retry a dead letter

ASSUME RequestAssumption ==
    /\ IsFiniteSet(Replays)
    /\ IsFiniteSet(ManualRetries)

VARIABLES replay,  \* where each replay is, and the jobs it adds
          manual   \* where each manual retry is

requestVars == <<replay, manual>>

RedeliveryInit ==
    /\ replay = [r \in Replays |-> [pc |-> "unsent", bulk |-> <<>>]]
    /\ manual = [m \in ManualRetries |-> [pc |-> "unsent", letter |-> 0,
                                          attempt |-> 0, success |-> FALSE]]

-----------------------------------------------------------------------------
(* replaySubscription                                                        *)

\* Answers of the query on events: those stored since the date asked for.
Listings == UNION {Injection(1..n, Events) : n \in 0..Cardinality(Events)}

\* Variant for testing the properties: the number of the attempt after it.
replayJobNext(e, s) == newJob(e, s, 2, NoDelay)

replayJob(e, s) == newJob(e, s, 1, NoDelay)

\* The subscription must exist; whether it is enabled is not looked at.
ReadEvents(r) ==
    /\ replay[r].pc = "unsent"
    /\ \E s \in Subs, events \in Listings :
        /\ sub[s] \in {"enabled", "disabled"}
        /\ replay' = [replay EXCEPT ![r] =
                        [pc |-> IF events = <<>> THEN "done" ELSE "add",
                         bulk |-> [i \in DOMAIN events |-> replayJob(events[i], s)]]]
    /\ UNCHANGED <<tableVars, manual>>

\* addBulk is one transaction of Redis.
AddBulk(r) ==
    /\ replay[r].pc = "add"
    /\ jobs' = jobs \o replay[r].bulk
    /\ replay' = [replay EXCEPT ![r].pc = "done"]
    /\ UNCHANGED <<sub, steady, attempts, deadLetters, indexJobs, manual>>

BulkUnanswered(r) ==
    /\ replay[r].pc = "add"
    /\ LosesAnswer
    /\ jobs' = jobs \o [i \in DOMAIN replay[r].bulk |-> unanswered(replay[r].bulk[i])]
    /\ UNCHANGED <<sub, steady, attempts, deadLetters, indexJobs, requestVars>>

ReplayFails(r) ==
    /\ replay[r].pc = "add"
    /\ replay' = [replay EXCEPT ![r].pc = "error"]
    /\ UNCHANGED <<tableVars, manual>>

replaySubscription(r) ==
    ReadEvents(r) \/ AddBulk(r) \/ BulkUnanswered(r) \/ ReplayFails(r)

-----------------------------------------------------------------------------
(* retryDeadLetter                                                           *)

Letter(m) == deadLetters[manual[m].letter]

\* Resolved or not, of an enabled subscription or not.  Event and subscription
\* exist: the foreign keys of dead_letters keep them.
LoadLetter(m) ==
    /\ manual[m].pc = "unsent"
    /\ \E d \in DOMAIN deadLetters :
        manual' = [manual EXCEPT ![m].pc = "create", ![m].letter = d]
    /\ UNCHANGED <<tableVars, replay>>

\* Variant: the number of the attempt that was dead-lettered.
ManualNumberAgain(m) == Letter(m).total

ManualNumber(m) == Letter(m).total + 1

CreateManual(m) ==
    /\ manual[m].pc = "create"
    /\ createPendingAttempt(Letter(m).event, Letter(m).sub, ManualNumber(m))
    /\ manual' = [manual EXCEPT ![m].pc = "deliver", ![m].attempt = NewAttempt]
    /\ UNCHANGED <<sub, steady, deadLetters, jobs, indexJobs, replay>>

DeliverManual(m) ==
    /\ manual[m].pc = "deliver"
    /\ Ends(Letter(m).sub)
    /\ \E ok \in BOOLEAN :
        manual' = [manual EXCEPT ![m].pc = "resolve", ![m].success = ok]
    /\ UNCHANGED <<tableVars, replay>>

\* Variant: two transactions, and the second one is lost.
ResolveRowOnly(m) ==
    /\ manual[m].pc = "resolve"
    /\ manual[m].success
    /\ resolveAttempt(manual[m].attempt, TRUE, NoDelay)
    /\ manual' = [manual EXCEPT ![m].pc = "done"]
    /\ UNCHANGED <<sub, steady, deadLetters, jobs, indexJobs, replay>>

\* One transaction writes the row and resolved_at.
ResolveLetter(m) ==
    /\ manual[m].pc = "resolve"
    /\ manual[m].success
    /\ resolveAttempt(manual[m].attempt, TRUE, NoDelay)
    /\ deadLetters' = [deadLetters EXCEPT ![manual[m].letter].resolved = TRUE]
    /\ manual' = [manual EXCEPT ![m].pc = "done"]
    /\ UNCHANGED <<sub, steady, jobs, indexJobs, replay>>

RecordFailure(m) ==
    /\ manual[m].pc = "resolve"
    /\ ~manual[m].success
    /\ resolveAttempt(manual[m].attempt, FALSE, NoDelay)
    /\ manual' = [manual EXCEPT ![m].pc = "done"]
    /\ UNCHANGED <<sub, steady, deadLetters, jobs, indexJobs, replay>>

\* The process dies or a query throws; the row stays pending.
ManualFails(m) ==
    /\ manual[m].pc \in {"create", "deliver", "resolve"}
    /\ manual' = [manual EXCEPT ![m].pc = "error"]
    /\ UNCHANGED <<tableVars, replay>>

retryDeadLetter(m) ==
    \/ LoadLetter(m) \/ CreateManual(m) \/ DeliverManual(m) \/ ResolveLetter(m)
    \/ RecordFailure(m) \/ ManualFails(m)

RedeliveryNext == \/ \E r \in Replays : replaySubscription(r)
                  \/ \E m \in ManualRetries : retryDeadLetter(m)

-----------------------------------------------------------------------------
ReplayType == [pc : {"unsent", "add", "done", "error"}, bulk : Seq(JobType)]

ManualType ==
    [pc : {"unsent", "create", "deliver", "resolve", "done", "error"},
     letter : Nat, attempt : Nat, success : BOOLEAN]

RedeliveryTypeOK == /\ replay \in [Replays -> ReplayType]
                    /\ manual \in [ManualRetries -> ManualType]
=============================================================================
