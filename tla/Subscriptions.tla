---------------------------- MODULE Subscriptions ----------------------------
(***************************************************************************)
(* Subscriptions and their topics: POST /topics/:id/subscriptions, DELETE  *)
(* /subscriptions/:id and DELETE /topics/:id of one tenant, while the      *)
(* workers deliver.                                                        *)
(*                                                                         *)
(* Each request is one READ COMMITTED transaction (withTenant).            *)
(* createSubscription counts the tenant's subscriptions, looks the topic   *)
(* up and inserts; deleteTopic looks the topic up, deletes its             *)
(* subscriptions and stamps deleted_at.  An insert and a stamp of the same *)
(* topic do not wait for each other (FOR KEY SHARE against FOR NO KEY      *)
(* UPDATE); two deletions of one row do.                                   *)
(*                                                                         *)
(* A creation names the row it would insert, so a subscription is a        *)
(* creation request.                                                       *)
(***************************************************************************)
EXTENDS Integers, FiniteSets

CONSTANTS Subs,              \* the creations the tenant's clients may request
          Topics,            \* the tenant's topics
          TopicOf,           \* the topic of each creation
          Drops,             \* the deletions of topics they may request
          Target,            \* the topic of each deletion
          maxSubscriptions   \* tenants.max_subscriptions

ASSUME SubscriptionsAssumption ==
    /\ IsFiniteSet(Subs)
    /\ Subs \cap Drops = {}
    /\ TopicOf \in [Subs -> Topics]
    /\ Target \in [Drops -> Topics]
    /\ maxSubscriptions \in Nat

VARIABLES topic,    \* each topic: its deleted_at, as committed
          row,      \* the subscription's row; "inserted" until it is committed
          create,   \* where each creation is; its answer when it is over
          drop,     \* where each deletion of a topic is, and the rows it deletes
          used,     \* the subscriptions with a delivery attempt
          removed,  \* the subscriptions deleted by DELETE /subscriptions/:id
          prior     \* the creations that were over when a request began

vars == <<topic, row, create, drop, used, removed, prior>>

Stored == {s \in Subs : row[s] = "stored"}

\* Committed, even if deleted since.
Created == {s \in Subs : row[s] \in {"stored", "gone"}}

Init ==
    /\ topic = [t \in Topics |-> "live"]
    /\ row = [s \in Subs |-> "none"]
    /\ create = [s \in Subs |-> "start"]
    /\ drop = [d \in Drops |-> [pc |-> "start", rows |-> {}]]
    /\ used = {}
    /\ removed = {}
    /\ prior = [x \in Subs \cup Drops |-> {}]

-----------------------------------------------------------------------------
(* createSubscription                                                        *)

\* Variant for testing the properties: off by one.
OverQuota == Cardinality(Stored) > maxSubscriptions

\* tx.subscription.count() sees committed rows, those being deleted included.
QuotaReached == Cardinality(Stored) >= maxSubscriptions

CountQuota(s) ==
    /\ create[s] = "start"
    /\ create' = [create EXCEPT ![s] = IF QuotaReached THEN "limit" ELSE "topic"]
    /\ prior' = [prior EXCEPT ![s] = Created]
    /\ UNCHANGED <<topic, row, drop, used, removed>>

LookupTopic(s) ==
    /\ create[s] = "topic"
    /\ create' = [create EXCEPT ![s] =
                    IF topic[TopicOf[s]] = "live" THEN "insert" ELSE "notfound"]
    /\ UNCHANGED <<topic, row, drop, used, removed, prior>>

\* The foreign key is content with a topic whose deleted_at is set.
InsertRow(s) ==
    /\ create[s] = "insert"
    /\ row' = [row EXCEPT ![s] = "inserted"]
    /\ create' = [create EXCEPT ![s] = "commit"]
    /\ UNCHANGED <<topic, drop, used, removed, prior>>

\* COMMIT; the answer may be lost after it.
CommitRow(s) ==
    /\ create[s] = "commit"
    /\ row' = [row EXCEPT ![s] = "stored"]
    /\ \E answer \in {"created", "error"} : create' = [create EXCEPT ![s] = answer]
    /\ UNCHANGED <<topic, drop, used, removed, prior>>

AbortCreate(s) ==
    /\ create[s] \in {"topic", "insert", "commit"}
    /\ row' = [row EXCEPT ![s] = "none"]
    /\ create' = [create EXCEPT ![s] = "error"]
    /\ UNCHANGED <<topic, drop, used, removed, prior>>

createSubscription(s) == \/ CountQuota(s) \/ LookupTopic(s) \/ InsertRow(s)
                         \/ CommitRow(s) \/ AbortCreate(s)

-----------------------------------------------------------------------------
(* Deletions, and the deliveries they have to give way to                    *)

\* The rows an open transaction has deleted: others wait for its end.
Locked == UNION {drop[d].rows : d \in {e \in Drops : drop[e].pc \in {"stamp", "commit"}}}

\* delivery_attempts refers to them, ON DELETE RESTRICT.
Referenced == used

\* One transaction; a row that goes between its two statements is an error.
deleteSubscription(s) ==
    /\ s \in Stored
    /\ s \notin Locked
    /\ s \notin Referenced
    /\ row' = [row EXCEPT ![s] = "gone"]
    /\ removed' = removed \cup {s}
    /\ UNCHANGED <<topic, create, drop, used, prior>>

\* A worker inserts an attempt, whose foreign key locks the subscription.
Deliver(s) ==
    /\ s \in Stored
    /\ s \notin Locked
    /\ used' = used \cup {s}
    /\ UNCHANGED <<topic, row, create, drop, removed, prior>>

DropAt(d, pc) == drop[d].pc = pc

FindTopic(d) ==
    /\ DropAt(d, "start")
    /\ drop' = [drop EXCEPT ![d].pc =
                    IF topic[Target[d]] = "live" THEN "select" ELSE "notfound"]
    /\ prior' = [prior EXCEPT ![d] = {s \in Created : TopicOf[s] = Target[d]}]
    /\ UNCHANGED <<topic, row, create, used, removed>>

\* Variant: the id of the topic is taken for those of its subscriptions.
SelectById(d) ==
    /\ DropAt(d, "select")
    /\ drop' = [drop EXCEPT ![d] = [pc |-> "delete", rows |-> {Target[d]}]]
    /\ UNCHANGED <<topic, row, create, used, removed, prior>>

\* deleteMany takes its snapshot ...
SelectRows(d) ==
    /\ DropAt(d, "select")
    /\ drop' = [drop EXCEPT ![d] =
                    [pc |-> "delete",
                     rows |-> {s \in Stored : TopicOf[s] = Target[d]}]]
    /\ UNCHANGED <<topic, row, create, used, removed, prior>>

\* ... and deletes what is left of it, once no other transaction holds a row.
DeleteRows(d) ==
    /\ DropAt(d, "delete")
    /\ drop[d].rows \cap (Locked \cup Referenced) = {}
    /\ drop' = [drop EXCEPT ![d] = [pc |-> "stamp", rows |-> @.rows \cap Stored]]
    /\ UNCHANGED <<topic, row, create, used, removed, prior>>

\* Nobody catches the violation of the foreign key: the client gets a 500.
DeleteRefused(d) ==
    /\ DropAt(d, "delete")
    /\ drop[d].rows \cap Referenced # {}
    /\ drop' = [drop EXCEPT ![d] = [pc |-> "error", rows |-> {}]]
    /\ UNCHANGED <<topic, row, create, used, removed, prior>>

\* UPDATE topics SET deleted_at, by id: it waits for the other deletion's.
StampTopic(d) ==
    /\ DropAt(d, "stamp")
    /\ \A e \in Drops : Target[e] = Target[d] => ~DropAt(e, "commit")
    /\ drop' = [drop EXCEPT ![d].pc = "commit"]
    /\ UNCHANGED <<topic, row, create, used, removed, prior>>

\* Variant: the deletion of the rows is not part of the transaction.
CommitStampOnly(d) ==
    /\ DropAt(d, "commit")
    /\ topic' = [topic EXCEPT ![Target[d]] = "deleted"]
    /\ drop' = [drop EXCEPT ![d] = [pc |-> "done", rows |-> {}]]
    /\ UNCHANGED <<row, create, used, removed, prior>>

CommitDrop(d) ==
    /\ DropAt(d, "commit")
    /\ topic' = [topic EXCEPT ![Target[d]] = "deleted"]
    /\ row' = [s \in Subs |-> IF s \in drop[d].rows THEN "gone" ELSE row[s]]
    /\ drop' = [drop EXCEPT ![d] = [pc |-> "done", rows |-> {}]]
    /\ UNCHANGED <<create, used, removed, prior>>

\* Variant: the deletion of the rows is not rolled back.
AbortKeepsRowsGone(d) ==
    /\ drop[d].pc \in {"select", "delete", "stamp", "commit"}
    /\ row' = [s \in Subs |-> IF s \in drop[d].rows THEN "gone" ELSE row[s]]
    /\ drop' = [drop EXCEPT ![d] = [pc |-> "error", rows |-> {}]]
    /\ UNCHANGED <<topic, create, used, removed, prior>>

AbortDrop(d) ==
    /\ drop[d].pc \in {"select", "delete", "stamp", "commit"}
    /\ drop' = [drop EXCEPT ![d] = [pc |-> "error", rows |-> {}]]
    /\ UNCHANGED <<topic, row, create, used, removed, prior>>

deleteTopic(d) == \/ FindTopic(d) \/ SelectRows(d) \/ DeleteRows(d)
                  \/ DeleteRefused(d) \/ StampTopic(d) \/ CommitDrop(d)
                  \/ AbortDrop(d)

-----------------------------------------------------------------------------
Next == \/ \E s \in Subs : \/ createSubscription(s)
                           \/ deleteSubscription(s)
                           \/ Deliver(s)
        \/ \E d \in Drops : deleteTopic(d)

Spec == Init /\ [][Next]_vars

-----------------------------------------------------------------------------
TypeOK ==
    /\ topic \in [Topics -> {"live", "deleted"}]
    /\ row \in [Subs -> {"none", "inserted", "stored", "gone"}]
    /\ create \in [Subs -> {"start", "topic", "insert", "commit", "created",
                            "limit", "notfound", "error"}]
    /\ drop \in [Drops -> [pc : {"start", "select", "delete", "stamp", "commit",
                                 "done", "notfound", "error"},
                           rows : SUBSET Subs]]
    /\ used \subseteq Subs
    /\ removed \subseteq Subs
    /\ prior \in [Subs \cup Drops -> SUBSET Subs]

\* The quota binds creations that do not overlap: subscriptions created one
\* after the other, each begun when the earlier ones were committed, never
\* exceed it, whatever else runs or is deleted (subscriptionService.js 41-52).
OneAfterTheOther(S) == \A r, s \in S : r # s => r \in prior[s] \/ s \in prior[r]

SerialCreationsKeepQuota ==
    \A S \in SUBSET Stored : OneAfterTheOther(S) => Cardinality(S) <= maxSubscriptions

\* A topic that is deleted takes every subscription with it that was committed
\* when the deletion began (topicService.js 85-88).
DeletionTakesPriorSubscriptions ==
    \A d \in Drops : DropAt(d, "done") => prior[d] \cap Stored = {}

\* A subscription is gone only by a deletion of its own or together with its
\* topic: a deletion that fails half-way gives every row back.
GoneForAReason ==
    \A s \in Subs : row[s] = "gone" => s \in removed \/ topic[TopicOf[s]] = "deleted"

\* README.md:845 "subscription quota checked atomically inside `withTenant`
\* transaction (TOCTOU-safe)": the tenant never has more than the quota.
QuotaHolds == Cardinality(Stored) <= maxSubscriptions
=============================================================================
