------------------------------ MODULE Indexing -------------------------------
(***************************************************************************)
(* The delivery log's way into Elasticsearch: the queue delivery-log-index *)
(* (src/queues/indexQueue.js), the indexing workers                        *)
(* (src/workers/indexingWorker.js) and the index they make sure of         *)
(* (src/search/deliveryLogsIndex.js).                                      *)
(*                                                                         *)
(* A document has its attempt's id, so indexing it again changes nothing.  *)
(* The BullMQ worker is built when the module is loaded and takes jobs     *)
(* from then on, while the module's last lines still ask whether the index *)
(* exists and create it.  Elasticsearch gives an index it never heard of   *)
(* a mapping of its own when the first document arrives.                   *)
(***************************************************************************)
EXTENDS Naturals, FiniteSets

CONSTANTS Documents,   \* the delivery log, a document for each attempt
          Indexers,    \* the indexing-worker processes
          Tries,       \* attempts of indexQueue's jobs
          MaxFaults    \* bound: outages, deaths, SIGTERMs and lost locks together

ASSUME IndexingAssumption ==
    /\ Tries \in Nat \ {0}
    /\ MaxFaults \in Nat

VARIABLES job,      \* each document's job
          indexer,  \* where each process is, and the jobs it runs
          up,       \* Elasticsearch answers
          mapping,  \* of the index, if there is one
          indexed,  \* the documents in it
          outages, crashes, stops, lapses,  \* failures so far
          raced     \* processes whose index was created by another one

esVars == <<up, mapping, indexed>>
counts == <<outages, crashes, stops, lapses, raced>>
vars == <<job, indexer, esVars, counts>>

\* trying: requests to index on their way; stored: the answers on theirs; late:
\* what still runs of jobs whose lock was lost.
Down == [pc |-> "down", trying |-> {}, stored |-> {}, late |-> {}]

Init ==
    /\ job = [d \in Documents |-> [state |-> "absent", failures |-> 0, refusals |-> 0,
                                   stalls |-> 0]]
    /\ indexer = [w \in Indexers |-> Down]
    /\ up = TRUE
    /\ mapping = "none"
    /\ indexed = {}
    /\ outages = 0 /\ crashes = 0 /\ stops = 0 /\ lapses = 0 /\ raced = 0

Running(w) == indexer[w].trying \cup indexer[w].stored

FaultLeft == outages + crashes + stops + lapses < MaxFaults

-----------------------------------------------------------------------------
\* indexQueue.add, by a delivery worker or the retry worker.
Enqueue(d) ==
    /\ job[d].state = "absent"
    /\ job' = [job EXCEPT ![d].state = "waiting"]
    /\ UNCHANGED <<indexer, esVars, counts>>

(* The process (restart: unless-stopped) and ensureDeliveryLogsIndex.        *)

Start(w) ==
    /\ indexer[w].pc = "down"
    /\ indexer' = [indexer EXCEPT ![w].pc = "exists"]
    /\ UNCHANGED <<job, esVars, counts>>

\* The jobs of a process that ends stay locked.
Exit(w) == indexer' = [indexer EXCEPT ![w] = Down]

\* Variant for testing the properties: the error of the query is swallowed.
ExistsOrNot(w) ==
    /\ indexer[w].pc = "exists"
    /\ indexer' = [indexer EXCEPT ![w].pc =
                      IF up /\ mapping = "none" THEN "create" ELSE "running"]
    /\ UNCHANGED <<job, esVars, counts>>

\* A rejection at the top level ends the process.
Exists(w) ==
    /\ indexer[w].pc = "exists"
    /\ IF up
       THEN indexer' = [indexer EXCEPT ![w].pc =
                            IF mapping = "none" THEN "create" ELSE "running"]
       ELSE Exit(w)
    /\ UNCHANGED <<job, esVars, counts>>

Create(w) ==
    /\ indexer[w].pc = "create"
    /\ up
    /\ mapping = "none"
    /\ mapping' = "ours"
    /\ indexer' = [indexer EXCEPT ![w].pc = "running"]
    /\ UNCHANGED <<job, up, indexed, counts>>

\* resource_already_exists_exception: another process or a document was first.
CreateRefused(w) ==
    /\ indexer[w].pc = "create"
    /\ up
    /\ mapping # "none"
    /\ Exit(w)
    /\ raced' = raced + 1
    /\ UNCHANGED <<job, esVars, outages, crashes, stops, lapses>>

CreateFails(w) ==
    /\ indexer[w].pc = "create"
    /\ ~up
    /\ Exit(w)
    /\ UNCHANGED <<job, esVars, counts>>

\* SIGTERM: worker.close() takes no more jobs and waits for those it runs.
Close(w) ==
    /\ indexer[w].pc = "running"
    /\ FaultLeft
    /\ stops' = stops + 1
    /\ indexer' = [indexer EXCEPT ![w].pc = "closing"]
    /\ UNCHANGED <<job, esVars, outages, crashes, lapses, raced>>

Closed(w) ==
    /\ indexer[w].pc = "closing"
    /\ Running(w) \cup indexer[w].late = {}
    /\ Exit(w)
    /\ UNCHANGED <<job, esVars, counts>>

-----------------------------------------------------------------------------
(* The jobs: BullMQ's worker and processIndexJob.                            *)

Take(w, d) ==
    /\ indexer[w].pc \in {"exists", "create", "running"}
    /\ job[d].state = "waiting"
    /\ job' = [job EXCEPT ![d].state = "active"]
    /\ indexer' = [indexer EXCEPT ![w].trying = @ \cup {d}]
    /\ UNCHANGED <<esVars, counts>>

\* esClient.index, where Elasticsearch takes the document.
Store(d) ==
    /\ up
    /\ indexed' = indexed \cup {d}
    /\ mapping' = IF mapping = "none" THEN "dynamic" ELSE mapping

Index(w, d) ==
    /\ d \in indexer[w].trying
    /\ Store(d)
    /\ indexer' = [indexer EXCEPT ![w].trying = @ \ {d}, ![w].stored = @ \cup {d}]
    /\ UNCHANGED <<job, up, counts>>

PutDown(w, d) ==
    indexer' = [indexer EXCEPT ![w].trying = @ \ {d}, ![w].stored = @ \ {d}]

Complete(w, d) ==
    /\ d \in indexer[w].stored
    /\ job' = [job EXCEPT ![d].state = "completed"]
    /\ PutDown(w, d)
    /\ UNCHANGED <<esVars, counts>>

\* Variant: off by one.
OneMoreTry(d) == job[d].failures < Tries

HasTries(d) == job[d].failures + 1 < Tries

\* processIndexJob throws: the request has no answer, or Elasticsearch is up and
\* refuses the document (its mapping, its rights or its load forbid it).  A job
\* that has tries left is run again after its backoff.
TryFails(w, d) ==
    /\ d \in Running(w)
    /\ job' = [job EXCEPT ![d].failures = @ + 1,
                          ![d].refusals = IF up THEN @ + 1 ELSE @,
                          ![d].state = IF HasTries(d) THEN "waiting" ELSE "failed"]
    /\ PutDown(w, d)
    /\ UNCHANGED <<esVars, counts>>

\* Variant: maxStalledCount 0.
NeverAgain(d) == FALSE

\* maxStalledCount 1
StallsAgain(d) == job[d].stalls < 1

\* Variant: skipStalledCheck.
LockKept(d) == FALSE

\* The process cannot renew the lock of a job in time and runs it on: Redis will
\* refuse to finish it.
LoseLock(w, d) ==
    /\ d \in Running(w)
    /\ FaultLeft
    /\ lapses' = lapses + 1
    /\ indexer' = [indexer EXCEPT ![w].trying = @ \ {d}, ![w].stored = @ \ {d},
                                  ![w].late = @ \cup {d}]
    /\ UNCHANGED <<job, esVars, outages, crashes, stops, raced>>

\* The request of a job that was lost ends: with the document stored, or not.
Late(w, d) ==
    /\ d \in indexer[w].late
    /\ indexer' = [indexer EXCEPT ![w].late = @ \ {d}]
    /\ Store(d) \/ UNCHANGED <<mapping, indexed>>
    /\ UNCHANGED <<job, up, counts>>

\* The lock of a job whose process ended, or lost it, expires.
LockExpires(d) == /\ job[d].state = "active"
                  /\ \A w \in Indexers : d \notin Running(w)

Stalled(d) ==
    /\ \E w \in Indexers : indexer[w].pc # "down"
    /\ LockExpires(d)
    /\ job' = [job EXCEPT ![d].stalls = @ + 1,
                          ![d].state = IF StallsAgain(d) THEN "waiting" ELSE "failed"]
    /\ UNCHANGED <<indexer, esVars, counts>>

-----------------------------------------------------------------------------
Crash(w) ==
    /\ indexer[w].pc # "down"
    /\ FaultLeft
    /\ crashes' = crashes + 1
    /\ Exit(w)
    /\ UNCHANGED <<job, esVars, outages, stops, lapses, raced>>

Outage ==
    /\ up
    /\ FaultLeft
    /\ outages' = outages + 1
    /\ up' = FALSE
    /\ UNCHANGED <<job, indexer, mapping, indexed, crashes, stops, lapses, raced>>

Recovery ==
    /\ ~up
    /\ up' = TRUE
    /\ UNCHANGED <<job, indexer, mapping, indexed, counts>>

Startup(w) == Start(w) \/ Exists(w) \/ Create(w) \/ CreateRefused(w) \/ CreateFails(w)

JobStep(w, d) ==
    Take(w, d) \/ Index(w, d) \/ Complete(w, d) \/ TryFails(w, d) \/ Late(w, d)

IndexerStep(w) == Startup(w) \/ Closed(w) \/ \E d \in Documents : JobStep(w, d)

Next == \/ \E w \in Indexers : \/ IndexerStep(w) \/ Close(w) \/ Crash(w)
                              \/ \E d \in Documents : LoseLock(w, d)
        \/ \E d \in Documents : Enqueue(d) \/ Stalled(d)
        \/ Outage \/ Recovery

Spec == Init /\ [][Next]_vars

\* A process is restarted whenever it ends, BullMQ keeps fetching and checking
\* for stalled jobs, and Elasticsearch comes back.
Fairness == /\ \A w \in Indexers : WF_vars(IndexerStep(w))
            /\ \A d \in Documents : WF_vars(Stalled(d))
            /\ WF_vars(Recovery)

FairSpec == Spec /\ Fairness

-----------------------------------------------------------------------------
JobType == [state : {"absent", "waiting", "active", "completed", "failed"},
            failures : 0..Tries, refusals : 0..Tries, stalls : 0..2]

IndexerType == [pc : {"down", "exists", "create", "running", "closing"},
                trying : SUBSET Documents, stored : SUBSET Documents,
                late : SUBSET Documents]

TypeOK ==
    /\ job \in [Documents -> JobType]
    /\ indexer \in [Indexers -> IndexerType]
    /\ up \in BOOLEAN
    /\ mapping \in {"none", "ours", "dynamic"}
    /\ indexed \subseteq Documents
    /\ outages \in Nat /\ crashes \in Nat /\ stops \in Nat /\ lapses \in Nat /\ raced \in Nat

\* A document is missing from the log for good only if Elasticsearch was down
\* (for longer than README.md:850 thinks of: "the indexing queue drains
\* automatically on recovery"), if it was up and refused the document on every
\* try, or if two workers died, or lost their lock, under its job: a stop, a
\* restart, a single death or one refusal too few costs none.
LostForAReason ==
    \A d \in Documents :
        job[d].state = "failed" /\ d \notin indexed =>
            outages > 0 \/ job[d].refusals = Tries \/ crashes + raced + lapses > 1

\* The index gets a mapping that is not the one of deliveryLogsIndex.js from a
\* job only that a worker runs before it has made sure of the index, and keeps
\* the mapping it has (README.md:479; indexingWorker.js 29 comes before 46).
MappingStays ==
    [][/\ mapping # "none" => mapping' = mapping
       /\ mapping' = "dynamic" /\ mapping = "none" =>
            \A w \in Indexers : indexer[w].pc \notin {"running", "closing"}]_vars

\* Every document is in the end indexed, or its job has failed for good.
EveryDocumentSettles ==
    \A d \in Documents :
        job[d].state # "absent" ~> d \in indexed \/ job[d].state = "failed"
=============================================================================
