------------------------ MODULE SubscriptionsProofs ------------------------
(***************************************************************************)
(* Theorems about Subscriptions, for any number of topics, creations and   *)
(* deletions and any quota.                                                *)
(***************************************************************************)
EXTENDS Subscriptions, FiniteSetTheorems, WellFoundedInduction, TLAPS

-----------------------------------------------------------------------------
(* The invariant.                                                          *)

\* A creation that has not inserted yet has no row, and only the row of one
\* about to commit is uncommitted.
RowFollowsCreation ==
    \A s \in Subs :
        /\ create[s] \in {"start", "topic", "insert"} => row[s] = "none"
        /\ create[s] = "commit" => row[s] = "inserted"

\* What was over when a request began is over.
PriorIsPast ==
    /\ \A x \in Subs \cup Drops : prior[x] \subseteq Created
    /\ \A d \in Drops : \A s \in prior[d] : TopicOf[s] = Target[d]

\* The rows a deletion has to do with are rows of its topic, and those that
\* were there before it are among them.
DropKnowsRows ==
    \A d \in Drops :
        /\ drop[d].rows \subseteq Created
        /\ \A s \in drop[d].rows : TopicOf[s] = Target[d]
        /\ drop[d].pc \in {"delete", "stamp", "commit"}
              => prior[d] \cap Stored \subseteq drop[d].rows

\* Deleting is what the row locks make exclusive.
Deleting == {d \in Drops : drop[d].pc \in {"stamp", "commit"}}

DropHoldsRows ==
    /\ \A d \in Deleting : drop[d].rows \subseteq Stored \ used
    /\ \A d, e \in Deleting : d # e => drop[d].rows \cap drop[e].rows = {}

\* What was delivered to a subscription can always be traced: no deletion wins
\* a race against the first attempt (README.md:563, migration.sql 131).
UsedSubscriptionsStay == used \subseteq Stored

DropInv ==
    /\ TypeOK
    /\ RowFollowsCreation
    /\ PriorIsPast
    /\ DropKnowsRows
    /\ DropHoldsRows
    /\ DeletionTakesPriorSubscriptions
    /\ GoneForAReason
    /\ UsedSubscriptionsStay

\* Creations that were over before another began are over before its successors.
PriorIsNested ==
    \A s \in Subs :
        /\ s \notin prior[s]
        /\ \A r \in prior[s] : prior[r] \subseteq prior[s]

\* A creation that passed the quota check counted every row that was there
\* when it began and that is still there.
Passed(s) == create[s] \in {"topic", "insert", "commit"} \/ s \in Created

QuotaCounted ==
    \A s \in Subs :
        Passed(s) => Cardinality(prior[s] \cap Stored) < maxSubscriptions

QuotaInv == DropInv /\ PriorIsNested /\ QuotaCounted

-----------------------------------------------------------------------------
LEMMA TypeStep == TypeOK /\ [Next]_vars => TypeOK'
<1> SUFFICES ASSUME TypeOK, [Next]_vars PROVE TypeOK'
  OBVIOUS
<1> USE SubscriptionsAssumption DEF TypeOK, Stored, Created
<1>1. ASSUME NEW s \in Subs, createSubscription(s) PROVE TypeOK'
  BY <1>1 DEF createSubscription, CountQuota, LookupTopic, InsertRow, CommitRow,
              AbortCreate
<1>2. ASSUME NEW s \in Subs, deleteSubscription(s) PROVE TypeOK'
  BY <1>2 DEF deleteSubscription
<1>3. ASSUME NEW s \in Subs, Deliver(s) PROVE TypeOK'
  BY <1>3 DEF Deliver
<1>4. ASSUME NEW d \in Drops, FindTopic(d) PROVE TypeOK'
  BY <1>4 DEF FindTopic, DropAt
<1>5. ASSUME NEW d \in Drops, SelectRows(d) PROVE TypeOK'
  BY <1>5 DEF SelectRows, DropAt
<1>6. ASSUME NEW d \in Drops, DeleteRows(d) PROVE TypeOK'
  BY <1>6 DEF DeleteRows, DropAt
<1>7. ASSUME NEW d \in Drops, DeleteRefused(d) PROVE TypeOK'
  BY <1>7 DEF DeleteRefused, DropAt
<1>8. ASSUME NEW d \in Drops, AbortDrop(d) PROVE TypeOK'
  BY <1>8 DEF AbortDrop, DropAt
<1>9. ASSUME NEW d \in Drops, StampTopic(d) PROVE TypeOK'
  BY <1>9 DEF StampTopic, DropAt
<1>10. ASSUME NEW d \in Drops, CommitDrop(d) PROVE TypeOK'
  BY <1>10 DEF CommitDrop, DropAt
<1>11. CASE UNCHANGED vars
  BY <1>11 DEF vars
<1> QED
  BY <1>1, <1>2, <1>3, <1>4, <1>5, <1>6, <1>7, <1>8, <1>9, <1>10, <1>11
     DEF Next, deleteTopic

\* Creations: only CommitRow makes a row visible, one that no deletion knows.
LEMMA DropInvCreate ==
    ASSUME DropInv, TypeOK', NEW s \in Subs, createSubscription(s)
    PROVE  DropInv'
<1> USE SubscriptionsAssumption DEF DropInv, TypeOK, Stored, Created, Deleting,
        RowFollowsCreation, PriorIsPast, DropKnowsRows, DropHoldsRows, DropAt,
        DeletionTakesPriorSubscriptions, GoneForAReason, UsedSubscriptionsStay
<1>1. CASE CountQuota(s)
  BY <1>1 DEF CountQuota
<1>2. CASE LookupTopic(s)
  BY <1>2 DEF LookupTopic
<1>3. CASE InsertRow(s)
  BY <1>3 DEF InsertRow
<1>4. CASE CommitRow(s)
  BY <1>4 DEF CommitRow
<1>5. CASE AbortCreate(s)
  BY <1>5 DEF AbortCreate
<1> QED BY <1>1, <1>2, <1>3, <1>4, <1>5 DEF createSubscription

\* A single deletion and a delivery stay away from the rows that are locked.
LEMMA DropInvRow ==
    ASSUME DropInv, TypeOK', NEW s \in Subs, deleteSubscription(s) \/ Deliver(s)
    PROVE  DropInv'
<1> USE SubscriptionsAssumption DEF DropInv, TypeOK, Stored, Created, Deleting,
        RowFollowsCreation, PriorIsPast, DropKnowsRows, DropHoldsRows, DropAt,
        DeletionTakesPriorSubscriptions, GoneForAReason, UsedSubscriptionsStay
<1>1. \A d \in Deleting : s \notin drop[d].rows
  BY DEF deleteSubscription, Deliver, Locked
<1>2. CASE deleteSubscription(s)
  BY <1>1, <1>2 DEF deleteSubscription, Referenced
<1>3. CASE Deliver(s)
  BY <1>1, <1>3 DEF Deliver
<1> QED BY <1>2, <1>3

\* Deletions of topics: DeleteRows takes what the locks leave it, CommitDrop
\* makes it final.
LEMMA DropInvDrop ==
    ASSUME DropInv, TypeOK', NEW d \in Drops, deleteTopic(d)
    PROVE  DropInv'
<1> USE SubscriptionsAssumption DEF DropInv, TypeOK, Stored, Created, Deleting,
        RowFollowsCreation, PriorIsPast, DropKnowsRows, DropHoldsRows, DropAt,
        DeletionTakesPriorSubscriptions, GoneForAReason, UsedSubscriptionsStay
<1>1. CASE FindTopic(d)
  BY <1>1 DEF FindTopic
<1>2. CASE SelectRows(d)
  BY <1>2 DEF SelectRows
<1>3. CASE DeleteRows(d)
  <2>1. \A e \in Deleting : drop[d].rows \cap drop[e].rows = {}
    BY <1>3 DEF DeleteRows, Locked
  <2> QED BY <1>3, <2>1 DEF DeleteRows, Referenced
<1>4. CASE DeleteRefused(d)
  BY <1>4 DEF DeleteRefused
<1>5. CASE AbortDrop(d)
  BY <1>5 DEF AbortDrop
<1>6. CASE StampTopic(d)
  BY <1>6 DEF StampTopic
<1>7. CASE CommitDrop(d)
  BY <1>7 DEF CommitDrop
<1> QED BY <1>1, <1>2, <1>3, <1>4, <1>5, <1>6, <1>7 DEF deleteTopic

LEMMA DropInvStep == DropInv /\ [Next]_vars => DropInv'
<1> SUFFICES ASSUME DropInv, [Next]_vars PROVE DropInv'
  OBVIOUS
<1>1. TypeOK'
  BY TypeStep DEF DropInv
<1>2. CASE UNCHANGED vars
  BY <1>2 DEF vars, DropInv, TypeOK, Stored, Created, Deleting,
        RowFollowsCreation, PriorIsPast, DropKnowsRows, DropHoldsRows, DropAt,
        DeletionTakesPriorSubscriptions, GoneForAReason, UsedSubscriptionsStay
<1> QED
  BY <1>1, <1>2, DropInvCreate, DropInvRow, DropInvDrop DEF Next

-----------------------------------------------------------------------------
(* The quota.                                                              *)

\* Among the subscriptions still there, those counted by a creation that is
\* past the check become fewer: new rows are none of them.
LEMMA CountedRowsShrink ==
    ASSUME DropInv, [Next]_vars, NEW s \in Subs, prior'[s] = prior[s]
    PROVE  (prior[s] \cap Stored)' \subseteq prior[s] \cap Stored
<1> USE SubscriptionsAssumption DEF DropInv, TypeOK, Stored, Created,
        RowFollowsCreation, PriorIsPast
<1> SUFFICES ASSUME NEW r \in prior[s], row'[r] = "stored" PROVE row[r] = "stored"
  OBVIOUS
<1>1. row[r] \in {"stored", "gone"} /\ r \in Subs
  OBVIOUS
<1>2. ASSUME NEW t \in Subs, createSubscription(t) PROVE row'[r] = row[r]
  BY <1>1, <1>2 DEF createSubscription, CountQuota, LookupTopic, InsertRow,
                    CommitRow, AbortCreate
<1>3. ASSUME NEW t \in Subs, deleteSubscription(t) \/ Deliver(t)
      PROVE  row'[r] \in {row[r], "gone"}
  BY <1>1, <1>3 DEF deleteSubscription, Deliver
<1>4. ASSUME NEW d \in Drops, deleteTopic(d) PROVE row'[r] \in {row[r], "gone"}
  BY <1>1, <1>4 DEF deleteTopic, FindTopic, SelectRows, DeleteRows, DeleteRefused,
                    StampTopic, CommitDrop, AbortDrop
<1>5. CASE UNCHANGED vars
  BY <1>5 DEF vars
<1> QED BY <1>1, <1>2, <1>3, <1>4, <1>5 DEF Next

\* What a creation has counted does not change once it is past the check.
LEMMA PriorIsKept ==
    ASSUME DropInv, [Next]_vars, NEW s \in Subs, ~CountQuota(s)
    PROVE  /\ prior'[s] = prior[s]
           /\ Passed(s)' => Passed(s)
<1> USE SubscriptionsAssumption DEF DropInv, TypeOK, Created, Stored, Passed
<1>1. ASSUME NEW t \in Subs, createSubscription(t)
      PROVE  prior'[s] = prior[s] /\ (Passed(s)' => Passed(s))
  <2>1. CASE CountQuota(t)
    BY <2>1 DEF CountQuota
  <2>2. CASE LookupTopic(t) \/ InsertRow(t) \/ CommitRow(t) \/ AbortCreate(t)
    BY <2>2 DEF LookupTopic, InsertRow, CommitRow, AbortCreate
  <2> QED BY <1>1, <2>1, <2>2 DEF createSubscription
<1>2. ASSUME NEW t \in Subs, deleteSubscription(t) \/ Deliver(t)
      PROVE  prior'[s] = prior[s] /\ (Passed(s)' => Passed(s))
  BY <1>2 DEF deleteSubscription, Deliver
<1>3. ASSUME NEW d \in Drops, FindTopic(d)
      PROVE  prior'[s] = prior[s] /\ (Passed(s)' => Passed(s))
  BY <1>3 DEF FindTopic
<1>4. ASSUME NEW d \in Drops, deleteTopic(d), ~FindTopic(d)
      PROVE  prior'[s] = prior[s] /\ (Passed(s)' => Passed(s))
  <2>1. UNCHANGED <<create, prior>> /\ \A r \in Subs : row'[r] \in {row[r], "gone"}
    BY <1>4 DEF deleteTopic, SelectRows, DeleteRows, DeleteRefused, StampTopic,
                CommitDrop, AbortDrop
  <2>2. row'[s] = "gone" => row[s] \in {"stored", "gone"}
    BY <1>4 DEF deleteTopic, SelectRows, DeleteRows, DeleteRefused, StampTopic,
                CommitDrop, AbortDrop, DropKnowsRows
  <2> QED BY <2>1, <2>2
<1>5. CASE UNCHANGED vars
  BY <1>5 DEF vars
<1> QED BY <1>1, <1>2, <1>3, <1>4, <1>5 DEF Next

LEMMA NestedStep == DropInv /\ PriorIsNested /\ [Next]_vars => PriorIsNested'
<1> SUFFICES ASSUME DropInv, PriorIsNested, [Next]_vars PROVE PriorIsNested'
  OBVIOUS
<1> USE SubscriptionsAssumption DEF DropInv, TypeOK, Created, PriorIsPast,
        RowFollowsCreation, PriorIsNested
<1>1. CASE \E s \in Subs : CountQuota(s)
  <2>1. PICK s \in Subs : CountQuota(s)
    BY <1>1
  <2>2. prior' = [prior EXCEPT ![s] = Created] /\ row[s] = "none"
    BY <2>1 DEF CountQuota
  <2>3. \A r \in Subs : s \notin prior[r] /\ prior[r] \subseteq Created
    BY <2>2
  <2> QED BY <2>2, <2>3
<1>2. CASE ~\E s \in Subs : CountQuota(s)
  <2>1. \A s \in Subs : prior'[s] = prior[s]
    BY <1>2, PriorIsKept
  <2> QED BY <2>1
<1> QED BY <1>1, <1>2

LEMMA CountedStep ==
    ASSUME DropInv, PriorIsNested, QuotaCounted, [Next]_vars
    PROVE  QuotaCounted'
<1> SUFFICES ASSUME NEW s \in Subs, Passed(s)'
             PROVE  Cardinality((prior[s] \cap Stored)') < maxSubscriptions
  BY DEF QuotaCounted
<1>0. IsFiniteSet(Stored) /\ Stored \subseteq Subs
  BY SubscriptionsAssumption, FS_Subset DEF Stored
<1>1. CASE CountQuota(s)
  <2>1. create[s] = "start" /\ row'[s] = row[s] /\ row[s] = "none"
    BY <1>1 DEF CountQuota, DropInv, RowFollowsCreation
  <2>2. ~QuotaReached
    BY <1>1, <2>1 DEF CountQuota, Passed, Created, DropInv, TypeOK
  <2>3. (prior[s] \cap Stored)' = Stored
    BY <1>1, SubscriptionsAssumption
       DEF CountQuota, Stored, Created, DropInv, TypeOK
  <2>4. Cardinality(Stored) < maxSubscriptions
    BY <1>0, <2>2, FS_CardinalityType, SubscriptionsAssumption DEF QuotaReached
  <2>5. Cardinality((prior[s] \cap Stored)') = Cardinality(Stored)
    BY <2>3, Zenon
  <2> QED BY <2>4, <2>5, Zenon
<1>2. CASE ~CountQuota(s)
  <2>1. prior'[s] = prior[s] /\ Passed(s)
    BY <1>2, PriorIsKept
  <2>2. (prior[s] \cap Stored)' \subseteq prior[s] \cap Stored
    BY <2>1, CountedRowsShrink
  <2>3. IsFiniteSet(prior[s] \cap Stored)
    BY <1>0, FS_Subset
  <2>4. IsFiniteSet((prior[s] \cap Stored)')
    BY <2>2, <2>3, FS_Subset
  <2>5. Cardinality((prior[s] \cap Stored)') <= Cardinality(prior[s] \cap Stored)
    BY <2>2, <2>3, FS_Subset
  <2>6. Cardinality(prior[s] \cap Stored) < maxSubscriptions
    BY <2>1 DEF QuotaCounted
  <2> QED
    BY <2>3, <2>4, <2>5, <2>6, FS_CardinalityType, SubscriptionsAssumption
<1> QED BY <1>1, <1>2

-----------------------------------------------------------------------------
LEMMA QuotaInvInit == Init => QuotaInv
<1> SUFFICES ASSUME Init PROVE QuotaInv
  OBVIOUS
<1> USE SubscriptionsAssumption DEF Init
<1>1. TypeOK /\ RowFollowsCreation
  BY DEF TypeOK, RowFollowsCreation
<1>2. PriorIsPast /\ PriorIsNested
  BY DEF PriorIsPast, PriorIsNested
<1>3. DropKnowsRows /\ DropHoldsRows /\ DeletionTakesPriorSubscriptions
  BY DEF DropKnowsRows, DropHoldsRows, Deleting, DeletionTakesPriorSubscriptions,
         DropAt
<1>4. GoneForAReason /\ UsedSubscriptionsStay
  BY DEF GoneForAReason, UsedSubscriptionsStay
<1>5. QuotaCounted
  BY DEF QuotaCounted, Passed, Created
<1> QED BY <1>1, <1>2, <1>3, <1>4, <1>5 DEF QuotaInv, DropInv

LEMMA QuotaInvStep == QuotaInv /\ [Next]_vars => QuotaInv'
  BY DropInvStep, NestedStep, CountedStep DEF QuotaInv

\* The inductive invariant, whatever creations, deletions and deliveries run.
THEOREM SubscriptionsInvariant == Spec => []QuotaInv
  BY QuotaInvInit, QuotaInvStep, PTL DEF Spec

\* Type correctness of Subscriptions.
THEOREM SubscriptionsTypeOK == Spec => []TypeOK
<1>1. QuotaInv => TypeOK
  BY DEF QuotaInv, DropInv
<1> QED BY <1>1, SubscriptionsInvariant, PTL

\* A topic takes the subscriptions along that were there when its deletion
\* began (topicService.js 85-88).
THEOREM TopicTakesItsSubscriptions == Spec => []DeletionTakesPriorSubscriptions
<1>1. QuotaInv => DeletionTakesPriorSubscriptions
  BY DEF QuotaInv, DropInv
<1> QED BY <1>1, SubscriptionsInvariant, PTL

\* Half a deletion is none (withTenant.js 4).
THEOREM SubscriptionsGoForAReason == Spec => []GoneForAReason
<1>1. QuotaInv => GoneForAReason
  BY DEF QuotaInv, DropInv
<1> QED BY <1>1, SubscriptionsInvariant, PTL

\* A subscription with a delivery attempt is never deleted (migration.sql 131).
THEOREM HistoryKeepsSubscriptions == Spec => []UsedSubscriptionsStay
<1>1. QuotaInv => UsedSubscriptionsStay
  BY DEF QuotaInv, DropInv
<1> QED BY <1>1, SubscriptionsInvariant, PTL

-----------------------------------------------------------------------------
\* Of subscriptions that were created one after the other, the latest counted
\* all the others.
LEMMA LatestExists ==
    ASSUME QuotaInv, NEW S \in SUBSET Subs, S # {}, OneAfterTheOther(S)
    PROVE  \E s \in S : S \ {s} \subseteq prior[s]
<1> DEFINE size(s) == Cardinality(prior[s])
           left(s) == Cardinality(Subs) - size(s)
           T == {left(s) : s \in S}
           Less == {p \in Nat \X Nat : p[1] < p[2]}
<1>1. \A s \in Subs : prior[s] \subseteq Subs /\ IsFiniteSet(prior[s])
  BY SubscriptionsAssumption, FS_Subset DEF QuotaInv, DropInv, TypeOK
<1>2. \A s \in Subs : size(s) \in Nat /\ left(s) \in Nat
  <2> SUFFICES ASSUME NEW s \in Subs PROVE size(s) \in Nat /\ left(s) \in Nat
    OBVIOUS
  <2>1. Cardinality(prior[s]) <= Cardinality(Subs)
    BY <1>1, SubscriptionsAssumption, FS_Subset
  <2>2. Cardinality(prior[s]) \in Nat /\ Cardinality(Subs) \in Nat
    BY <1>1, SubscriptionsAssumption, FS_CardinalityType
  <2> QED BY <2>1, <2>2
<1>3. \A s, r \in Subs : s \in prior[r] => size(s) < size(r)
  <2> SUFFICES ASSUME NEW s \in Subs, NEW r \in Subs, s \in prior[r]
               PROVE  size(s) < size(r)
    OBVIOUS
  <2>1. prior[s] \subseteq prior[r] /\ s \notin prior[s]
    BY DEF QuotaInv, PriorIsNested
  <2>2. size(s) <= size(r) /\ size(s) # size(r)
    BY <1>1, <2>1, FS_Subset
  <2> QED BY <1>2, <2>2
<1>4. T \subseteq Nat /\ T # {}
  BY <1>2
<1>5. IsWellFoundedOn(Less, Nat)
  BY NatLessThanWellFounded DEF OpToRel
<1>6. PICK x \in T : \A y \in T : ~ (<<y, x>> \in Less)
  <2> HIDE DEF T, Less
  <2> QED BY <1>4, <1>5, WFMin
<1>7. PICK s \in S : x = left(s)
  BY <1>6
<1>8. \A r \in S : size(r) <= size(s)
  <2> SUFFICES ASSUME NEW r \in S PROVE size(r) <= size(s)
    OBVIOUS
  <2>1. left(r) \in T /\ x \in Nat /\ left(r) \in Nat
    BY <1>4
  <2>2. ~ (left(r) < left(s))
    BY <1>6, <1>7, <2>1
  <2>3. Cardinality(Subs) \in Nat
    BY SubscriptionsAssumption, FS_CardinalityType
  <2> QED BY <1>2, <2>2, <2>3
<1>9. \A r \in S \ {s} : r \in prior[s]
  <2> SUFFICES ASSUME NEW r \in S, r # s, r \notin prior[s] PROVE FALSE
    OBVIOUS
  <2>1. s \in prior[r]
    BY DEF OneAfterTheOther
  <2> QED BY <1>2, <1>3, <1>8, <2>1
<1> QED BY <1>9

\* The quota binds creations that do not overlap (subscriptionService.js 41-52).
THEOREM QuotaBindsSerialCreations == Spec => []SerialCreationsKeepQuota
<1>1. QuotaInv => SerialCreationsKeepQuota
  <2> SUFFICES ASSUME QuotaInv, NEW S \in SUBSET Stored, OneAfterTheOther(S)
               PROVE  Cardinality(S) <= maxSubscriptions
    BY DEF SerialCreationsKeepQuota
  <2>0. S \subseteq Subs /\ IsFiniteSet(S) /\ Cardinality(S) \in Nat
    BY SubscriptionsAssumption, FS_Subset, FS_CardinalityType DEF Stored
  <2>1. CASE S = {}
    BY <2>1, FS_EmptySet, SubscriptionsAssumption
  <2>2. CASE S # {}
    <3>1. PICK s \in S : S \ {s} \subseteq prior[s]
      BY <2>0, <2>2, LatestExists
    <3>2. Cardinality(S \ {s}) = Cardinality(S) - 1
      BY <2>0, FS_RemoveElement
    <3>3. IsFiniteSet(prior[s] \cap Stored)
      BY SubscriptionsAssumption, FS_Subset DEF Stored
    <3>4. Cardinality(S \ {s}) <= Cardinality(prior[s] \cap Stored)
      BY <3>1, <3>3, FS_Subset
    <3>5. Cardinality(prior[s] \cap Stored) < maxSubscriptions
      BY DEF QuotaInv, QuotaCounted, Passed, Stored, Created
    <3>6. Cardinality(prior[s] \cap Stored) \in Nat
      BY <3>3, FS_CardinalityType
    <3> QED BY <2>0, <3>2, <3>4, <3>5, <3>6, SubscriptionsAssumption
  <2> QED BY <2>1, <2>2
<1> QED BY <1>1, SubscriptionsInvariant, PTL
=============================================================================
