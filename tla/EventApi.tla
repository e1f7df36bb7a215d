------------------------------ MODULE EventApi ------------------------------
(***************************************************************************)
(* Event publishing: POST /api/v1/topics/:topicId/events.                  *)
(*                                                                         *)
(* eventService.createEvent runs in one READ COMMITTED transaction         *)
(* (withTenant): look the topic up, look the idempotency key up, insert.   *)
(* Several requests of one tenant run at once; what one of them reads may  *)
(* be out of date when it inserts.  The partial unique index on            *)
(* (tenant_id, idempotency_key) makes an insert wait for an uncommitted    *)
(* row with its key, and fail (P2002) once that row is committed.          *)
(*                                                                         *)
(* A request names the event row it would insert, so an event id is a      *)
(* request.  One topic of one tenant is modelled: ids, payloads and        *)
(* tenants are never compared with one another by this code.               *)
(***************************************************************************)
EXTENDS Integers, FiniteSets

CONSTANTS Requests,  \* the publish requests a tenant's clients may send
          Keys,      \* the idempotency keys they use
          NoKey,     \* the body has no idempotencyKey
          KeyOf,     \* the key each request carries
          ClientStamps  \* whether the Prisma client fills in created_at

ASSUME ApiAssumption ==
    /\ IsFiniteSet(Requests)
    /\ NoKey \notin Keys
    /\ KeyOf \in [Requests -> Keys \cup {NoKey}]
    /\ ClientStamps \in BOOLEAN

VARIABLES pc,         \* where each request's handler is; its answer when done
          row,        \* the request's row of the events table
          reply,      \* the event id the request answers with, once it does
          stamp,      \* created_at of the row
          clock,      \* the time: a tick each time a row is stamped
          before,     \* the events already answered 202 when the request began
          topicLive   \* topics.deleted_at IS NULL

apiVars == <<pc, row, reply, stamp, clock, before, topicLive>>

Accepted == {"created", "existing"}
Answered == Accepted \cup {"notfound", "error"}

Stored == {e \in Requests : row[e] = "stored"}

AnsweredEvents == {reply[q] : q \in {p \in Requests : pc[p] \in Accepted}}

SameKey(r, q) == KeyOf[r] # NoKey /\ KeyOf[q] = KeyOf[r]

ApiInit ==
    /\ pc = [r \in Requests |-> "start"]
    /\ row = [r \in Requests |-> "none"]
    /\ reply = [r \in Requests |-> r]
    /\ stamp = [r \in Requests |-> 0]
    /\ clock = 0
    /\ before = [r \in Requests |-> {}]
    /\ topicLive = TRUE

\* A row of r is stamped now.
Tick(r) == /\ clock' = clock + 1
           /\ stamp' = [stamp EXCEPT ![r] = clock + 1]

\* BEGIN and the topic lookup.  The database's default for created_at,
\* CURRENT_TIMESTAMP, is the time the transaction began.
Begin(r) ==
    /\ pc[r] = "start"
    /\ pc' = [pc EXCEPT ![r] = IF ~topicLive THEN "notfound"
                               ELSE IF KeyOf[r] = NoKey THEN "insert"
                               ELSE "key"]
    /\ IF ClientStamps THEN UNCHANGED <<stamp, clock>> ELSE Tick(r)
    /\ before' = [before EXCEPT ![r] = AnsweredEvents]
    /\ UNCHANGED <<row, reply, topicLive>>

\* event.findFirst by key sees committed rows only.
LookupKey(r) ==
    /\ pc[r] = "key"
    /\ \/ \E q \in Stored :
            /\ SameKey(r, q)
            /\ reply' = [reply EXCEPT ![r] = q]
            /\ pc' = [pc EXCEPT ![r] = "existing"]
       \/ /\ \A q \in Stored : ~SameKey(r, q)
          /\ pc' = [pc EXCEPT ![r] = "insert"]
          /\ UNCHANGED reply
    /\ UNCHANGED <<row, stamp, clock, before, topicLive>>

\* Variant for testing the properties: the unique index is missing.
NoIndex(r) == {}

\* The rows, other than r's own, the unique index compares r's key with.
IndexedRows(r) == {q \in Requests \ {r} : row[q] # "none" /\ SameKey(r, q)}

\* event.create; a client that fills in created_at does so as it sends the INSERT.
Insert(r) ==
    /\ pc[r] = "insert"
    /\ IndexedRows(r) = {}
    /\ row' = [row EXCEPT ![r] = "inserted"]
    /\ pc' = [pc EXCEPT ![r] = "commit"]
    /\ IF ClientStamps THEN Tick(r) ELSE UNCHANGED <<stamp, clock>>
    /\ UNCHANGED <<reply, before, topicLive>>

\* P2002 is caught neither here nor in the controller: the client gets a 500.
InsertConflict(r) ==
    /\ pc[r] = "insert"
    /\ \E q \in IndexedRows(r) : row[q] = "stored"
    /\ pc' = [pc EXCEPT ![r] = "error"]
    /\ UNCHANGED <<row, reply, stamp, clock, before, topicLive>>

\* COMMIT: the answer follows it, or the connection is lost in between.
Commit(r) ==
    /\ pc[r] = "commit"
    /\ row' = [row EXCEPT ![r] = "stored"]
    /\ \E answer \in {"created", "error"} : pc' = [pc EXCEPT ![r] = answer]
    /\ UNCHANGED <<reply, stamp, clock, before, topicLive>>

\* Variant: the error of a failed transaction is swallowed.
AbortSwallowed(r) ==
    /\ pc[r] \in {"key", "insert", "commit"}
    /\ row' = [row EXCEPT ![r] = "none"]
    /\ pc' = [pc EXCEPT ![r] = "created"]
    /\ UNCHANGED <<reply, stamp, clock, before, topicLive>>

\* The transaction fails (timeout, lost connection, crash of the API process):
\* nothing of it remains and the client gets an error.
Abort(r) ==
    /\ pc[r] \in {"key", "insert", "commit"}
    /\ row' = [row EXCEPT ![r] = "none"]
    /\ pc' = [pc EXCEPT ![r] = "error"]
    /\ UNCHANGED <<reply, stamp, clock, before, topicLive>>

\* topicService.deleteTopic, as far as publishing sees it: a soft delete.
DeleteTopic ==
    /\ topicLive
    /\ topicLive' = FALSE
    /\ UNCHANGED <<pc, row, reply, stamp, clock, before>>

Handle(r) == Begin(r) \/ LookupKey(r) \/ Insert(r) \/ InsertConflict(r)
             \/ Commit(r) \/ Abort(r)

ApiNext == (\E r \in Requests : Handle(r)) \/ DeleteTopic

ApiSpec == ApiInit /\ [][ApiNext]_apiVars

-----------------------------------------------------------------------------
ApiTypeOK ==
    /\ pc \in [Requests -> {"start", "key", "insert", "commit"} \cup Answered]
    /\ row \in [Requests -> {"none", "inserted", "stored"}]
    /\ reply \in [Requests -> Requests]
    /\ stamp \in [Requests -> Nat]
    /\ clock \in Nat
    /\ before \in [Requests -> SUBSET Requests]
    /\ topicLive \in BOOLEAN

\* However the transactions interleave, the requests of one idempotency key
\* that are answered 202 are answered with the same event (eventService.js
\* 24-31: the lookup is the clean exit, the index the hard constraint).
RepliesAgree ==
    \A r, q \in Requests :
        pc[r] \in Accepted /\ pc[q] \in Accepted /\ SameKey(r, q)
            => reply[r] = reply[q]

\* An event id a client was given is the id of a committed row: a 202 is never
\* for an event that a rollback then takes away, so the outbox will find it.
AcceptedIsStored ==
    \A r \in Requests : pc[r] \in Accepted => row[reply[r]] = "stored"
=============================================================================
