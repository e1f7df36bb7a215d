# Event delivery platform: a TLA+ verification project

The platform takes events from tenants over HTTP, stores them in PostgreSQL,
moves them to Kafka with an outbox worker, fans each one out to the webhooks
subscribed to its topic, retries failed calls through a BullMQ queue and buries
what fails five times as a dead letter. This directory models the parts of it
that decide whether an event arrives, how often and in which order, checks them
with TLC on small instances, and proves the properties that matter most with
TLAPS for every size of instance.

Paths and line numbers refer to the repository. `src/README.md` is the
repository's own README.

## 1. Inventory

### Components

| component | source | state | operations |
|---|---|---|---|
| Event publishing | `services/eventService.js`, `utils/withTenant.js` | `events` row: key, `created_at`, `published_to_kafka` | `createEvent` |
| Outbox worker | `workers/outboxWorker.js`, `kafka/producer.js` | an open transaction, a batch of locked rows, the partition | poll, send, mark, commit |
| Delivery worker | `workers/delivery.worker.js` | group membership, position, committed offset, the message in hand | join, fetch, fan out, commit offset |
| Retry worker and queue | `workers/retryWorker.js`, `queues/retryQueue.js` | jobs (delayed, active, completed, failed), ten slots | `processRetryJob`, stalled-job check |
| Delivery attempts, dead letters | `services/deliveryAttemptService.js`, `services/deadLetterService.js` | `delivery_attempts`, `dead_letters` | create, resolve, dead-letter, bury; `retryDeadLetter` |
| Retry schedule | `utils/retrySchedule.js` | none | `computeRetryDelay`, `isLastAttempt` |
| Subscriptions, topics | `services/subscriptionService.js`, `services/topicService.js` | `subscriptions`, `topics.deleted_at`, the tenant's quota | create, update, delete, rotate; create and delete a topic |
| Replay | `services/replayService.js` | none of its own | `replaySubscription`: adds jobs with attempt number 1 |
| Webhook call | `delivery/deliver.js`, `utils/computeHmac.js` | none | sign and POST, with a timer |
| Search index | `queues/indexQueue.js`, `workers/indexingWorker.js`, `search/` | the index queue, the index and its mapping, the documents | `ensureDeliveryLogsIndex`, `processIndexJob`, search |
| Tenants, API keys | `services/tenantService.js`, `services/apiKeyService.js`, `hooks/authenticate.js` | `tenants`, `api_keys` | register, create, revoke, authenticate |
| Rate limit | `utils/rateLimit.js` | a counter with a lifetime in Redis | `checkRateLimit` |
| Application, health, generated client, deployment | `app.js`, `routes/`, `services/healthService.js`, `generated/`, `docker-compose.yml` | none | wiring |

### How they interact

* Publishing and the outbox worker share the `events` table; the outbox worker
  and the delivery workers share the partition of `platform.events`; the
  delivery workers and the retry worker share `subscriptions`,
  `delivery_attempts` and two queues in Redis; tenants change subscriptions and
  topics under all of them, start chains beside the running ones (replay) and
  deliver by hand what was buried (manual retry, in the API process).
* The indexing workers take the documents off the second queue and share the
  index with each other.
* Nothing spans two stores in one transaction. Each hop does something in one
  store and records it in another: Kafka before `published_to_kafka`, the
  attempt row before the retry job, the attempt row before the dead letter, the
  whole fan-out before the offset.
* The workers run as processes that are restarted when they die
  (`docker-compose.yml`, `restart: unless-stopped`); more than one of each is
  allowed (`src/README.md:510`).

### What is hard, and what makes each component correct

| behaviour | correct when |
|---|---|
| two publish requests with one idempotency key overlap, one of them rolls back | they are answered with one event, and it is stored |
| two outbox workers poll at once; a transaction times out under a worker that goes on sending; an acknowledgement is lost | no event is lost or invented, none is sent again without a failure, and the order of a tenant's events is kept |
| a delivery worker dies, throws, or is evicted in the middle of a fan-out, and an evicted one commits late | the offset passes a message only when every subscription was served, and never goes back |
| subscriptions are created, disabled and deleted during a fan-out | rows never refer to something that is gone |
| the retry worker fails between the row, the index job and the next job; a job stalls and runs again | attempts form a chain, each recorded once per run of its job, resolved rows stay as they are, a dead letter has its attempts |
| nothing tells the tenant when a chain breaks, and an endpoint may never end its answer | every delivery ends in a success or a dead letter |
| a replay runs a second chain beside the first; two manual retries of one dead letter overlap, and one of them fails | no attempt without a cause, no resolution without a success and none forgotten: the history of a pair is one that `DeliveryLedger` allows |
| five places of the workers spell out the status of a document | the delivery log agrees with the table, then and later |
| an indexing worker takes jobs before it has made sure of the index, two create it at once, one dies, is stopped or meets an outage | a document is lost only to an outage, to a refusal on every try, or to two deaths or lost locks under its job; the index keeps its mapping; each document is indexed or its job given up |
| the connection to Redis breaks after an add and before its answer, and the client sends the add again; BullMQ's lock on a job is lost while the job still runs | the chains of a pair and the runs of a job are no more than the resent adds and stalls account for; a resolved row stays as it is; nothing is forgotten |
| two creations of subscriptions overlap; a topic is deleted meanwhile | the quota holds; a deletion takes all subscriptions or none |
| two registrations of one address overlap; keys are revoked twice, or while requests that came with them are still running and `last_used_at` is still to be written | an address has one tenant, and that has a key; a tenant whose keys are all revoked stays out |
| INCR, EXPIRE and TTL are separate commands: the process dies or the key expires between them, the client library sends INCR again | at most `max` calls pass per window; nobody is refused for another's calls; the counter expires |

`PROJECT.json` lists each of these as a hazard, at the line where it bites and
with the properties that would catch it.

## 2. The modules

| module | models | state ↔ code |
|---|---|---|
| `EventApi` | `createEvent` and the soft deletion of a topic, as interleaved READ COMMITTED transactions | `pc`: where a handler is, or its answer; `row`: the request's `events` row; `stamp`: `created_at`, filled in by the database as the transaction begins or by the Prisma client as it sends the insert (`ClientStamps`); `reply`: the id in the answer; `before`: the events already answered when the request began |
| `Outbox` (extends `EventApi`) | the outbox workers | `worker`: pc, open transaction, rest of the batch, rows marked; `published`; `log`: the tenant's partition |
| `EventLog` | what consumers may rely on: a log of stored events that only grows; ticked off only after it was logged | abstract |
| `RetrySchedule` | `retrySchedule.js` | no state; constants `MAX_ATTEMPTS`, `RETRY_DELAY_MS` |
| `DeliveryTables` | the tables and queues the workers share, with the services that write them and the foreign keys | `attempts`, `deadLetters`, `jobs` are sequences: a row is named by its index; a job says whether its add was `answered`; `steady`: the subscriptions that have been enabled all along |
| `DeliveryWorker` | members of the consumer group, one partition | `con`: pc, offset, subscriptions left, row in hand, result; `owner`, `committed` |
| `RetryWorker` | `processRetryJob`, one action per `await`, and what BullMQ does with jobs and their locks | `slot`: pc, job, row in hand, and whether the job's lock is still held; `build` (see below) |
| `Redelivery` | `replaySubscription` and `retryDeadLetter`, one action per `await`, several requests at once | `replay`: pc, and the jobs it is about to add; `manual`: pc, dead letter, row in hand, result |
| `Delivery` | the composition: both workers and the requests over the shared tables while tenants change subscriptions | |
| `DeliveryLedger` | what a tenant may read from its history: attempts in order, a dead letter after the last, a resolution with a success after that; nothing struck out | abstract |
| `Subscriptions` | creation with its quota check, deletion, deletion of a topic, as interleaved transactions, with deliveries | `create`, `drop`: where each request is; `row`, `topic`; `used`: subscriptions with an attempt; `prior`: the creations that were over when a request began |
| `Accounts` | registration, creation and revocation of API keys, the hook that authenticates a request and writes `last_used_at` later | `signup`: where each registration is; `tenants`; `key`, `owner`: `revoked_at` and `tenant_id` of each row of `api_keys`; `req`: each authenticated request |
| `RateLimit` (extends `Accounts`) | `checkRateLimit` for one action, behind authentication | `counter`: the tenant's key in Redis; `call`: where each call is and what INCR told it; `resent`: increments executed twice |
| `Indexing` | the queue `delivery-log-index`, the indexing workers from their start to their end, and Elasticsearch | `job`: state, failed tries, those of them that Elasticsearch refused, stalls; `indexer`: pc, and the jobs whose requests are on their way (`trying`), answered (`stored`) or run on without a lock (`late`); `up`, `mapping`, `indexed`: Elasticsearch |
| `MCOutbox`, `MCDelivery`, `MCSubscriptions`, `MCRateLimit`, `MCIndexing` | constants for TLC | |
| `OutboxProofs`, `DeliveryTypes`, `DeliveryProofs`, `LedgerProofs`, `RerunProofs`, `SubscriptionsProofs`, `RateLimitProofs`, `IndexingProofs` | theorems | |

Each action is one database transaction, or one statement of it where other
transactions can see or influence what lies between, or one command to Redis or
Kafka. Where the code awaits, there is a step boundary. The definitions named
"Variant" change the definition that follows them in the way a plausible bug
would; they occur in no specification and serve to test that each property can
fail.

Code outside `src/src` is modelled from its use and its configuration: READ
COMMITTED visibility, row locks, unique index and foreign keys of PostgreSQL;
Prisma's limit on the duration of an interactive transaction; expiry of keys in
Redis and ioredis's unlimited retries (`maxRetriesPerRequest: null`); group
coordination and fencing of Kafka; job states, locks, `attempts: 1` and
`maxStalledCount` of BullMQ; refusals of Elasticsearch.

**Adds without an answer.** `retryQueue.js:8` lets the client send a command
again, without limit, when the connection broke before the answer, and no job
has an id of its own. So an add may take effect more than once, and each time
the queue holds one more job: `ScheduleUnanswered`, `AgainUnanswered` and
`BulkUnanswered` add a job and leave the caller waiting for its add. What is
promised of jobs (`EveryRerunHasCause`) names these as a cause. A document that
is queued twice has one id and is indexed once or twice with the same content,
so that the second job of it is left out.

**Lost locks.** A BullMQ worker that cannot renew the lock of a job in time does
not notice: it goes on, another slot or process is given the job, and Redis
refuses to finish it for the first one (`LoseLock`, `Locked`, `FinishJob` in
`RetryWorker`; `LoseLock`, `Late` in `Indexing`). The slots of `RetryWorker` may
be read as those of several processes, for they share nothing but a crash.

**Builds.** `retryWorker.js` imports `'../utils/retrySchedule'` without an
extension, which node refuses and Vitest resolves, and uses `indexQueue` and
`buildDeliveryLogDocument` without importing them. The variable `build` says
which program is meant: `"node"`, the source as deployed, whose retry worker
never starts; `"vitest"`, the source as tested, whose jobs fail at the first use
of `indexQueue`; `"repaired"`, with both imports added. What is checked of the
chain of retries is checked for `"vitest"` and `"repaired"`; that deliveries
settle is checked for `"repaired"` and refuted for `"node"`.

## 3. What the runs check

| run | instance | shows |
|---|---|---|
| `outbox_safety` | 3 requests, two with one key; 2 outbox workers; batches of 2; 2 failures; `created_at` from the database | `PublishedWasSent`: no event is marked that Kafka does not hold and Kafka holds only committed events. `CopiesNeedFaults`: at most one more copy per failure. `RepliesAgree`, `AcceptedIsStored`: what clients are told. `ImplementsEventLog`: all this is a refinement of `EventLog` |
| `outbox_order` | 3 requests, 1 worker, 2 failures, fair; `created_at` from the client | `PublishOrderKept`: an event published after another was answered follows it on the partition. `EveryEventIsPublished`: every committed event is sent and marked in the end |
| `delivery_fanout` | 2 delivery workers, 2 subscriptions, 2 copies of an event, 1 failure | `AtLeastOnce`, `EveryRedeliveryHasCause`, `OffsetMovesForward` |
| `delivery_retry` | 2 slots, 1 subscription, 2 failures of the retry worker, 3 attempts | `RetryHasCause`, `DeadLetterBacked`, `LogMatchesHistory`, `EveryRerunHasCause`, `NamedSubscriptionsExist`, `ResolvedIsFinal`. `NothingForgotten`: as repaired, a pair whose event the offset passed, or that has a job, has its outcome or a job that is still to run, unless a failure of the retry worker ended its job |
| `delivery_manual` | 1 replay, 2 manual retries, 2 slots, 2 attempts, 1 resent add; the subscription is switched and deleted meanwhile | `NamedSubscriptionsExist`, `ResolvedWhenRedelivered`, `EveryRerunHasCause`; `ImplementsLedger`: all this is a refinement of `DeliveryLedger` |
| `delivery_live` | 1 of each, a failure of each worker, 1 resent add, 2 attempts, fair | `LooseEndsNeedFaults`: an attempt nobody works on has its outcome, its document and its retry or dead letter, but for one row for each failure of a delivery worker and one per slot for each failure of the retry worker. `EveryDeliverySettles` |
| `subscriptions` | 3 creations, quota 2, 2 deletions of one topic | `SerialCreationsKeepQuota`, `DeletionTakesPriorSubscriptions`, `GoneForAReason` |
| `access` | 3 tenants, two with one address; 1 creation and 2 revocations of keys; 3 calls, limit 1 | `TenantsAreSound`, `RevokedByItsTenant`, `SecondRevocationConflicts`, `LockoutStays`; `WindowNeverOverfull`, `LimitedForAReason`, `CounterExpires` |
| `indexing` | 2 indexing workers, 1 document, 3 tries; 4 outages, crashes, stops and lost locks in any mixture, any refusals, fair | `LostForAReason`, `MappingStays`, `EveryDocumentSettles` |
| `subscriptions_quota` (violation) | 2 creations, quota 1 | both pass the check |
| `delivery_noretry` (violation) | `"node"`, fair | a failed first attempt is never followed up |
| `delivery_endless` (violation) | 2 subscriptions, one with an endpoint that never ends its answer, fair | the fan-out stops at that endpoint, and the other subscription is never served |

The three violations are disagreements between the code and what its README,
comments or tests say; `PROJECT.json` quotes both sides under `findings`.

More things a reader should know, which the models contain but no run singles
out:

* Two outbox workers hold consecutive events of a tenant and send them in either
  order: with two workers in `MCOutbox`, `PublishOrderKept` fails without any
  failure. `docs/interview-questions.md:242` promises the order and
  `src/README.md:510` allows several workers; `outbox_order` has one.
* With `Builds = {"vitest"}`, the bound of `LooseEndsNeedFaults` is passed without
  any failure: the attempt is resolved, then `indexQueue` is not defined, and there is no retry, no dead letter and no
  document, unlike what `test/retry-worker.test.js:92` says.
* With `InitialOffset = NoOffset`, `AtLeastOnce` fails: `fromBeginning: false`
  lets a new group start after what was published before
  (`delivery.worker.js:132`). The runs and `FanOutIsAtLeastOnce` start from
  offset 0.
* A re-submission that overlaps the original fails on the unique index, for
  nothing catches P2002 (`eventService.js:33`); so does the second of two
  overlapping registrations (`tenantService.js:15`).
* The PRD describes the limiter as an atomic `SET NX EX + INCR`
  (`docs/event-delivery-platform-api-prd.md:393`); the code sends INCR, then
  EXPIRE, and if the process dies between them the counter never expires.
  `CounterExpires` says that this, or an increment sent again, is the only way
  to get there.
* The PRD lets a manual retry enqueue a job
  (`docs/event-delivery-platform-api-prd.md:385`); the code delivers in the
  request, looks neither at whether the letter is resolved nor at whether the
  subscription is enabled, and queues no document, although every attempt is
  said to have one (`src/README.md:850`). A request that dies leaves its row
  pending for ever. `LooseEndsNeedFaults` therefore speaks of the workers' attempts
  only.
* A replay restarts its pair at attempt 1 while the first chain may be running.
  The tenant then sees two attempts of one number, and may see a success and a
  dead letter for one event. `DeliveryLedger` allows it and says what remains
  true.
* The indexing worker takes jobs before it has made sure of the index
  (`indexingWorker.js:29` and `:46`). A document that comes first creates the
  index with a dynamic mapping, in which `status` and the ids are texts and the
  term queries of the search do not match; the creation is then skipped or
  refused, now and at each later start. `src/README.md:479` says the start
  creates the index with the correct mapping. `MappingStays` says that there is
  no other way to get there, and none back.
* `ensureDeliveryLogsIndex` is called safe to call many times; a process that
  loses the race between its two calls ends with an unhandled rejection, and
  the jobs it had taken stall. `LostForAReason` counts it as a death.
* `indexQueue.js:7-8` retries for the time Elasticsearch is down. A document that
  Elasticsearch refuses while it is up (an `endpoint_url` too long for a
  `keyword`, a conflict with a dynamic mapping, missing rights, too much load)
  uses up its tries just the same and is missing from the log. `LostForAReason`
  counts the refusals: it takes one on every try.
* An add that is sent again makes two jobs, and so two chains from there on: the
  tenant then sees attempts of one number twice, though `retryQueue.js:14-15`
  means to exclude that attempts are counted twice.
* `docker-compose.yml:23` gives the API `ELASTICSEARCH_URL`, while `esClient.js`
  reads `ELASTIC_SEARCH_URL`, as the indexing worker is given it: the search of
  a deployed API looks for Elasticsearch on its own host.

Deadlock is not checked: every instance ends when its requests, messages and
retries are used up.

### Bounds, and why they are enough

* *Requests, subscriptions, events.* The properties compare at most two
  requests or relate one event to one subscription. The third request gives the
  outbox a second batch and an event without a key between two with one; the
  second subscription lets a fan-out stop half-way; the second copy on the
  partition is what a duplicate of the outbox is to a consumer.
* *Workers.* Two of a kind race; in `delivery_fanout` a worker can be evicted,
  replaced and still commit. A third repeats the part of one of them.
  `EveryEventIsPublished` is checked for one worker; with two the liveness graph
  is too large, and safety (`outbox_safety`) covers the interplay.
* *Failures* (`MaxFaults`, `MaxRetryFaults`). One failure breaks a step in half,
  the second hits the recovery from it. They are bounds of the runs only: the
  theorems hold for every number.
* *Attempts.* `MAX_ATTEMPTS = 3` has a first, a middle and a last attempt;
  `delivery_manual` and `delivery_live` have a first and a last one: what the one
  asks begins with the dead letter, and the other adds failures and fairness,
  whose graph would be too large with a third. The violation runs use the source's 5 and its table of delays.
* *Replays, manual retries.* One replay makes a second chain beside the first;
  two manual retries overlap, and one of them may fail or die. `delivery_manual` has
  no message on the partition (`MaxLog = 0`): its chains begin with the replay,
  and a second chain with the add that is sent again.
* *Resent adds* (`MaxResends`). One makes a second job beside the first; another
  repeats this. The runs without one are about failures or endpoints, and the
  theorems hold for every number.
* *Indexing.* `Tries = 3` has a first, a middle and a last try, so that failures
  by an outage, refusals and stalls can be mixed below the limit. Outages, deaths,
  stops and lost locks share one bound, `MaxFaults = 4`, so that each of them may
  come several times: two deaths lose a document, and two more failures come
  before or after. Documents meet in the mapping only, which belongs to the first
  of them and is looked at by processes, not by jobs; two documents make the graph
  too large, and the theorems of `IndexingProofs` hold for any number.
* *Partition* (`MaxLog`) of 1 or 2 messages of one partition: messages of
  different partitions share nothing but tables whose rows they never share.
* *Requests at the front* (`MaxActors = 4`): any four of the registrations, key
  requests and calls are sent. Two race for an address or revoke one key, three
  calls exceed the limit of 1; no property relates more. An increment is sent
  again at most once per call and window. Calls, revocations and the two
  competing registrations are interchangeable, and only safety is checked, so
  that the symmetry is sound.
* *Time* is absent. A delay is a value; a job may be taken at any moment after
  it was added, and a call, a transaction or a session may time out at any
  moment. Clock differences between machines are not modelled: `created_at` is
  read off one clock, at the begin of the transaction if the database fills it in
  (`CURRENT_TIMESTAMP`), at the insert if the Prisma client does
  (`schema.prisma:85`). The theorems cover both; `outbox_order` has the client's,
  `outbox_safety` the database's.

### Fairness

`Outbox!Fairness`: each worker's loop goes on, for `run()` catches every error
and sleeps a second, and the container is restarted when the process dies.
Requests are not fair: a client may stop anywhere. `Delivery!Fairness`: each
delivery worker and each slot goes on, for the same reason and because kafkajs
and BullMQ fetch again; the stalled-job check of BullMQ runs while the worker
does. That a webhook call ends is part of it, but for the endpoints in
`Endless`: the timer of `deliver.js` aborts a controller whose signal `fetch` is
never given, and `fetch` itself gives up only when nothing arrives for some
minutes. Endpoints that drip are what `delivery_endless` is about; elsewhere
`Endless` is empty. `Indexing!Fairness`: processes are restarted, BullMQ fetches
jobs and looks for stalled ones, and Elasticsearch comes back
(`src/README.md:850`); that an index job is queued, that a process is stopped, that it loses a
lock and that it dies are not fair. No fairness is assumed of failures, of tenants, or between
jobs. Since failures are bounded, the liveness properties say: when failures
stop, everything settles.

## 4. What is proved

Each theorem holds for every value of the constants that satisfies the named
assumptions of the modules (`ApiAssumption`, `OutboxAssumption`,
`ScheduleAssumption`, `ConsumerAssumption`, `RetryAssumption`,
`TopicAssumption`, `RequestAssumption`, `SubscriptionsAssumption`,
`AccountsAssumption`, `LimitAssumption`, `IndexingAssumption`): finiteness where cardinalities occur, distinctness
of the null values, a table of delays one shorter than the number of attempts.
TLC evaluates them in the runs.

* **`OutboxProofs`**. `ApiInv` strengthens the answers with
  two facts about rows: a row is uncommitted exactly while its handler is about
  to commit it, and a key has at most one row, committed or not (what the unique
  index enforces). From it follow `RepliesAgree` and `AcceptedIsStored`. `IInv`
  adds that a worker in `mark` has sent the first event of its batch, so that
  what it has marked, and later commits, was sent, and that batches are stored
  rows. From it follow the types and `PublishedWasSent`. The refinement
  `OutboxImplementsEventLog` maps `Stored` and `published` to the variables of
  `EventLog` and goes through `Next` action by action: a commit of the API is
  `Store`, a send is `Emit`, a commit of a batch is `TickOff`, all else
  stutters. That refinement has no use for the row locks: they bear on copies and
  order, which come next. `CopiesInv` charges the copies of an event to
  failures: the copies on the partition, the workers with the event in hand and
  the chance of a further poll (the row is neither published nor locked) are at
  most `1 + faults`. A poll turns the chance into a worker, a send
  turns the worker into a copy, a rollback gives the chance back but is a failure.
  From it follows `OutboxCopiesNeedFaults`. `OrderInv` adds that an event answered
  before a request began has an earlier `created_at`, whether that is the time of
  the request's transaction or of its insert, and that what should come
  before an event of a batch is in that batch or in Kafka.
  `OutboxPublishOrderKept` has the hypothesis `OneWorker`, as the deployment
  does: two workers send their batches side by side and do not keep the order.
* **`DeliveryTypes`**. Types are not inductive by themselves: that
  `attempts[con[c].attempt]` makes sense needs `Pointers`, that whoever is past
  a certain step holds an index that exists.
* **`DeliveryProofs`**. Rows are updated by id whatever their status, so that a
  resolved row stays as it is rests on who holds which id: `HeldPending` (a
  worker about to resolve holds a pending row) and `HeldOnce` (no two workers
  hold the same pending row). `HInv` is inductive, and `HistoryIsFinal` follows
  from it step by step. `OwnerAtOffset` (the owner's position is the committed
  offset, whoever held the partition before) gives `OffsetNeverGoesBack`.
  `FInv` adds what a worker in its loop has done so far: of the subscriptions
  enabled all along, those not left in `todo` were served, and the row in hand
  is that of its message. From it follows `FanOutIsAtLeastOnce`, under
  `InitialOffset = 0`.
* **`LedgerProofs`**. What is promised of jobs, letters and documents is a
  relation to rows that others wrote, and holds for ever because a resolved row
  is final (`ResolvedIsFinal`, from `DeliveryProofs`): once a cause is there it
  stays. `CInv` says for each thing which resolved rows justify it, and says it
  already of the workers and requests that are about to create the thing: a job
  number `n + 1`, or a slot about to queue it, rests on a failed attempt `n` with
  the delay it announced; a letter, or a slot about to write it, on a
  dead-lettered last attempt and failed ones before it; a manual attempt on its
  letter; a resolved letter on a success after the last attempt; a document on
  the row with its status; a row, job or letter on a subscription that is not
  deleted, by the foreign keys. Each action preserves it because it adds one
  thing with its cause in hand. `RetriesHaveCauses`, `DeadLettersAreBacked`,
  `NamesStayValid` and `LogAgreesWithHistory` are conjuncts or consequences. `MInv`
  adds whose a manual attempt is: its request's and its letter's, and no other's.
  The transaction that writes its success resolves that letter, so that
  `LettersResolveOnSuccess` holds letter by letter, also for two of one pair. `DeliveryImplementsLedger` maps finished rows to
  entries and letters to pairs: each way to resolve a row is a `Record`, a
  `RetryInVain` or a `Resolve`, which `CInv` shows to be due; a `Bury` is one; all
  else stutters.
* **`RerunProofs`**. The counts. A bound on a number of rows is not inductive;
  what is, is that each thing made has used up a cause of its own, and that no
  step gives a cause back (`PaidStep` is this argument once and for all).
  `RInv`, for attempts after the first: a run of a job is *spent* when a slot is
  given it, and the rows `n` there are, with the slots on their way to one, are at
  most the spent runs of their jobs (`RunsPaid`); a row is *released* when its
  worker has queued its retry, thrown or died, and the jobs `n + 1` whose add was
  answered are at most the released rows `n` (`JobsPaid`), for an add without an
  answer leaves its caller where it was.
  It needs to know that a slot with a lock has a job that is active and no other's,
  so that a second run, beside the first or after it, comes only from a stall, and
  that a job which can still run has stalled once at most (`SlotsInv`), and that no
  two workers have one row, also after it is resolved (`HandsApart`). `RerunsHaveCauses` follows.
  `FanInv`, for first attempts, is a balance for each event and subscription:
  the rows there are, the workers that may still add one (`Awaiting`), the copies
  the owner has yet to fetch (`Ahead`), and one if the owner is about to be
  refused a row (`Doomed`), are together at most the copies, failures, deletions
  and spent runs. A fetch moves a unit from `Ahead` to `Awaiting`, a new row one
  from `Awaiting` to the rows, a failure or a deletion adds one to both sides,
  and a worker that lost the partition leaves its unit in `Awaiting`.
  `RedeliveriesHaveCauses` follows. `UInv` says which consequences of its row a
  worker past each step has put in place, so that a worker lets go of a row with
  something missing only by a failure, which adds one row at a delivery worker and
  at most one per slot at the retry worker. `LooseEndsAreCounted`
  is about every build but "vitest", where the ReferenceError at
  `retryWorker.js:60` makes it false without any failure.
  `NInv` says what holds through failures, for the repaired build. A job may be
  over because a later one of its pair carries on, and that one may be over in
  its turn, so that "there is a job still to run" is not inductive. Ordering the
  jobs of a pair by their numbers makes it so (`Carrying`): a job that is over,
  or whose processor is about to return, has the outcome or a live job of a
  *higher* number after it, and if that job ends, what carried it on carries
  both. A job fails, or is left by its slot, only by a failure of the retry
  worker or because its subscription is not enabled any more (`JobsTravel`,
  `LockedGoesOn`). With `FanOutIsAtLeastOnce` for the events behind the offset,
  `NothingIsForgotten` follows, under `InitialOffset = 0` like that theorem.
* **`SubscriptionsProofs`**. `DropInv` says what row locks and foreign key give
  a deletion (the rows it deletes are stored, unused and nobody else's) and that
  it misses no row that was there before it. `QuotaInv` adds that a creation
  past the check counted all rows that were there when it began and still are,
  fewer than the quota, and that "was over before" is nested; so of creations
  one after the other the latest counted all others, and the quota binds them
  (`QuotaBindsSerialCreations`).
* **`RateLimitProofs`**. `AccountsInv` says why the unique index is enough (of
  registrations past their insert no two give one address, nor has anyone else
  it already), that a tenant's first key exists exactly when the tenant does,
  and that a revoked row stays revoked. A step that makes a key valid is the end
  of a registration or of a request that was let in before, which gives
  `LockedOutForGood`. `LimitInv` relates the counter to the calls: it is the
  number of calls counted plus that of the increments sent again, and what two
  calls of a window were told differs and is at most the counter. So the calls
  let in map one to one into `1 .. max` (`LimitHolds`), and a call that was told
  more than `max` has company (`RefusalsAreCounted`).
* **`IndexingProofs`**. `IInv` says that an active job is in one process's hands
  or orphaned (`OneRunner`), that a job which is not over has a try and a stall
  left (`NotOver`), that a process past its start has seen the index exist
  (`MappingSeen`), and, as long as there was no outage, that the stalls of each
  job and its being orphaned are no more than the deaths and lost locks so far,
  and that its failed tries are refusals (`DeathsCounted`). A stall turns
  "orphaned" into one more stall and leaves the sum; a death or a lost lock raises
  both sides. A failed job has stalled twice, so there were two of these, or was
  refused on every try (`DocumentsLostForAReason`).

Every safety property of the passing runs is thus a theorem. Only model-checked
are the liveness properties `EveryEventIsPublished`, `EveryDeliverySettles` and
`EveryDocumentSettles`, since liveness under fairness is out of the prover's
reach (`NothingIsForgotten` is the safety half of the second: what is left to
fairness is that jobs which wait are run), as are `ENABLED`, induction over data and recursive operators (the
modules have none).

## 5. What is not modelled

* *The value of `last_used_at`, hashes and labels of keys, the seconds of
  `Retry-After`*: nothing depends on them.
* *The webhook call's signature, timing and response*; *pagination, formats,
  routes, health, search queries*: they change no state of the system, or are
  pure.
* *Row-level security*: `Accounts` and `RateLimit` have several tenants, the
  other models one. Tenants meet only in the tables, where every query is
  restricted to one.
* *Secret rotation, change of an endpoint, creation of a topic*: single updates
  that no modelled property reads. One thing seen while reading:
  `docs/interview-questions.md:352` says the next delivery attempt after a
  rotation signs with the new secret, but the fan-out reads endpoint and secret
  once per message (`src/workers/delivery.worker.js:22`), so the subscriptions
  later in the same loop may still be served with the old one.
* *Lists and single reads*: they change nothing. `listSubscriptions` filters its
  topic on `deleteAt` (`src/services/subscriptionService.js:72`), a field the
  schema does not have (it is `deletedAt`).
* *The generated Prisma client* (`src/generated`, 15 000 of the repository's
  18 000 lines of implementation): types and glue made from `schema.prisma`,
  whose tables, indexes and foreign keys the models take from the migrations.
* *The second index job of a document whose add was sent again*: it writes the same
  content under the same id.
* *Elasticsearch's refresh, shards and searches*: a document counts as indexed
  when the request was answered; searches change nothing.

## 6. Plan

Done, in this order: `EventApi`, `Outbox` with `EventLog`, `RetrySchedule` and
`DeliveryTables`, `DeliveryWorker`, `RetryWorker`, `Delivery`, `Subscriptions`,
`Accounts` and `RateLimit`, `Redelivery` with `DeliveryLedger`, `Indexing`; proofs
of the outbox, of the fan-out, of the history, of the subscriptions, of accounts
and rate limit, of the ledger, of the indexing, of the counts of copies,
redeliveries and reruns, and that no pair is forgotten on its way to an outcome.

Next:

1. *Subscriptions and topics in full*: `createTopic` under its unique index,
   `rotateSecret` and the change of an endpoint with the secret a worker read
   before.
2. *What the other liveness properties rest on*, the safety halves of
   `EveryEventIsPublished` and `EveryDocumentSettles`: that a committed event
   which is not marked is always one that a worker can select or holds, and
   that a job of the index which is not over waits or is in somebody's hands.
