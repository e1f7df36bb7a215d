------------------------------- MODULE Outbox -------------------------------
(***************************************************************************)
(* The outbox workers (src/workers/outboxWorker.js): each polls the events *)
(* table, sends the unpublished rows to Kafka in created_at order and      *)
(* marks them published, all inside one database transaction.              *)
(*                                                                         *)
(* The rows a worker selected are locked (FOR UPDATE ... SKIP LOCKED) for  *)
(* as long as its transaction is open.  The transaction can end under the  *)
(* worker - the client library closes an interactive transaction that runs *)
(* too long - while the worker is still sending: it is then a zombie,      *)
(* whose next UPDATE fails.                                                *)
(***************************************************************************)
EXTENDS EventApi, Sequences

CONSTANTS OutboxWorkers,  \* the outbox-worker processes
          BATCH_SIZE,     \* LIMIT of the poll
          MaxFaults       \* bound: failures of workers, broker and database

ASSUME OutboxAssumption ==
    /\ BATCH_SIZE \in Nat \ {0}
    /\ MaxFaults \in Nat

VARIABLES worker,     \* each worker: its pc, transaction and batch
          published,  \* the rows whose published_to_kafka is TRUE, committed
          log,        \* the tenant's partition of platform.events
          faults      \* number of failures so far

outboxVars == <<worker, published, log, faults>>
vars == <<apiVars, outboxVars>>

\* tx: the transaction is open.  todo: the rest of the batch.  marked: the
\* rows updated in the open transaction.
Idle == [pc |-> "idle", tx |-> FALSE, todo |-> {}, marked |-> {}]

\* Variant for testing the properties: SELECT without FOR UPDATE.
LockNothing == {}

Locked == UNION {worker[w].todo \cup worker[w].marked :
                    w \in {v \in OutboxWorkers : worker[v].tx}}

OutboxInit ==
    /\ worker = [w \in OutboxWorkers |-> Idle]
    /\ published = {}
    /\ log = <<>>
    /\ faults = 0

Sent == {log[i] : i \in DOMAIN log}

\* Variant: no ORDER BY.
Unordered(S) == CHOOSE e \in S : TRUE

\* ORDER BY created_at ASC
First(S) == CHOOSE e \in S : \A f \in S : stamp[e] <= stamp[f]

\* Variant: rows are seen before their transaction commits.
SelectUncommitted == ({e \in Requests : row[e] # "none"} \ published) \ Locked

\* LIMIT BATCH_SIZE of the unpublished rows, locked ones skipped
Selectable == (Stored \ published) \ Locked

Batch == {e \in Selectable :
            Cardinality({f \in Selectable : stamp[f] < stamp[e]}) < BATCH_SIZE}

-----------------------------------------------------------------------------
\* BEGIN; SELECT ... FOR UPDATE OF e SKIP LOCKED.  A poll that selects nothing
\* changes nothing.
Poll(w) ==
    /\ worker[w].pc = "idle"
    /\ Batch # {}
    /\ worker' = [worker EXCEPT ![w] =
                    [pc |-> "send", tx |-> TRUE, todo |-> Batch, marked |-> {}]]
    /\ UNCHANGED <<published, log, faults>>

\* Variant: the send is not awaited and its failure goes unnoticed.
SendDropped(w) ==
    /\ worker[w].pc = "send"
    /\ worker' = [worker EXCEPT ![w].pc = "mark"]
    /\ UNCHANGED <<published, log, faults>>

\* publishToKafka of the next event, acknowledged
Send(w) ==
    /\ worker[w].pc = "send"
    /\ log' = Append(log, First(worker[w].todo))
    /\ worker' = [worker EXCEPT ![w].pc = "mark"]
    /\ UNCHANGED <<published, faults>>

\* UPDATE public.events SET published_to_kafka = true WHERE id = ...
Mark(w) ==
    /\ worker[w].pc = "mark"
    /\ worker[w].tx
    /\ LET e == First(worker[w].todo)
           rest == worker[w].todo \ {e}
       IN worker' = [worker EXCEPT ![w] =
                        [pc |-> IF rest = {} THEN "commit" ELSE "send",
                         tx |-> TRUE,
                         todo |-> rest,
                         marked |-> worker[w].marked \cup {e}]]
    /\ UNCHANGED <<published, log, faults>>

CommitBatch(w) ==
    /\ worker[w].pc = "commit"
    /\ worker[w].tx
    /\ published' = published \cup worker[w].marked
    /\ worker' = [worker EXCEPT ![w] = Idle]
    /\ UNCHANGED <<log, faults>>

\* Variant: run() does not catch the error of a poll.
LoopDies(w) ==
    /\ worker[w].pc \in {"mark", "commit"}
    /\ ~worker[w].tx
    /\ worker' = [worker EXCEPT ![w].pc = "dead"]
    /\ UNCHANGED <<published, log, faults>>

\* An UPDATE or a COMMIT on a transaction that has ended throws: pollOutbox
\* rejects, run() logs the error and polls again a second later.
TransactionGone(w) ==
    /\ worker[w].pc \in {"mark", "commit"}
    /\ ~worker[w].tx
    /\ worker' = [worker EXCEPT ![w] = Idle]
    /\ UNCHANGED <<published, log, faults>>

Fault == faults < MaxFaults /\ faults' = faults + 1

\* The acknowledgement is lost after the append: the producer sends again.
SendUnacknowledged(w) ==
    /\ worker[w].pc = "send"
    /\ log' = Append(log, First(worker[w].todo))
    /\ Fault
    /\ UNCHANGED <<worker, published>>

\* The worker's transaction is rolled back under it: its locks are released
\* and its updates undone, while its loop goes on.
Timeout(w) ==
    /\ worker[w].tx
    /\ worker' = [worker EXCEPT ![w].tx = FALSE, ![w].marked = {}]
    /\ Fault
    /\ UNCHANGED <<published, log>>

\* publishToKafka or an UPDATE throws, or the process dies (SIGTERM in the
\* middle of a poll included): the transaction is rolled back and the worker
\* polls again, after its restart (restart: unless-stopped) if it died.
Fail(w) ==
    /\ worker[w].pc # "idle"
    /\ worker' = [worker EXCEPT ![w] = Idle]
    /\ Fault
    /\ UNCHANGED <<published, log>>

OutboxStep(w) == Poll(w) \/ Send(w) \/ Mark(w) \/ CommitBatch(w)
                 \/ TransactionGone(w)

OutboxFault(w) == SendUnacknowledged(w) \/ Timeout(w) \/ Fail(w)

-----------------------------------------------------------------------------
Init == ApiInit /\ OutboxInit

Next == \/ ApiNext /\ UNCHANGED outboxVars
        \/ \E w \in OutboxWorkers : OutboxStep(w) /\ UNCHANGED apiVars
        \/ \E w \in OutboxWorkers : OutboxFault(w) /\ UNCHANGED apiVars

Spec == Init /\ [][Next]_vars

\* A worker's loop never stops for good: run() catches every error of a poll
\* and the container is restarted when the process dies.
Fairness == \A w \in OutboxWorkers : WF_vars(OutboxStep(w) /\ UNCHANGED apiVars)

FairSpec == Spec /\ Fairness

-----------------------------------------------------------------------------
WorkerType == [pc : {"idle", "send", "mark", "commit"}, tx : BOOLEAN,
               todo : SUBSET Requests, marked : SUBSET Requests]

TypeOK ==
    /\ ApiTypeOK
    /\ worker \in [OutboxWorkers -> WorkerType]
    /\ published \subseteq Requests
    /\ log \in Seq(Requests)
    /\ faults \in Nat

\* A row is marked published only once Kafka holds the event, and Kafka never
\* holds an event that is not a committed row: whatever rolls back or times
\* out, no event is lost at this hop and none is invented (outboxWorker.js
\* 36-53).
PublishedWasSent == published \subseteq Sent /\ Sent \subseteq Stored

Copies(e) == Cardinality({i \in DOMAIN log : log[i] = e})

\* A failure makes the platform send an event at most once more.  Without one,
\* the locks keep every event to one copy however many workers poll
\* (README.md 510).
CopiesNeedFaults == \A e \in Requests : Copies(e) <= 1 + faults

\* No copy of f comes before the first copy of e, for an event e that was
\* answered before the client sent f: docs/interview-questions.md:242, "A
\* tenant's events will always be consumed in the order they were published".
PublishOrderKept ==
    \A i \in DOMAIN log : \A e \in before[log[i]] :
        \E j \in 1..(i - 1) : log[j] = e

\* Every event that was ever committed reaches Kafka and is marked, also after
\* failures (docs/interview-questions.md:464).
EveryEventIsPublished ==
    \A e \in Requests : (row[e] = "stored") ~> (e \in published)

\* What the next hop relies on, as a specification of its own.
Contract == INSTANCE EventLog WITH
    Events <- Requests, stored <- Stored, done <- published

\* Every step of the API, the workers and their failures is a step of EventLog
\* or leaves its variables alone.
ImplementsEventLog == Contract!Spec
=============================================================================
