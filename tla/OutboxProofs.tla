---------------------------- MODULE OutboxProofs ----------------------------
(***************************************************************************)
(* Theorems about EventApi and Outbox, for any requests, keys and workers, *)
(* any batch size and any number of failures: answers are consistent, no   *)
(* event is lost or invented between the events table and Kafka, the       *)
(* pipeline implements EventLog, a failure costs at most one more copy of  *)
(* an event, and a single worker keeps the order of publishing.            *)
(*                                                                         *)
(* The argument: the unique index gives a key one row; a worker marks an   *)
(* event only after the append it waited for, the log never shrinks, and a *)
(* committed row is never taken away; the rest says that a batch and its   *)
(* updates are made of such events.                                        *)
(***************************************************************************)
EXTENDS Outbox, TLAPS, WellFoundedInduction, FiniteSetTheorems

-----------------------------------------------------------------------------
(* The event API by itself: whatever the interleaving of lookups, inserts, *)
(* commits and aborts, a key has one event, and the answers name it.       *)

\* The row follows its handler: it is inserted exactly while the handler is
\* about to commit it, and nothing takes a committed row away.
RowFollowsHandler ==
    \A r \in Requests :
        /\ pc[r] \in {"start", "key", "insert", "existing", "notfound"}
              => row[r] = "none"
        /\ row[r] = "inserted" <=> pc[r] = "commit"
        /\ pc[r] = "created" => row[r] = "stored"

\* What the unique index enforces: a key has at most one row, an uncommitted
\* one included.
OneRowPerKey ==
    \A r, q \in Requests :
        r # q /\ row[r] # "none" /\ row[q] # "none" => ~SameKey(r, q)

\* The answer is the handler's own row until the lookup finds another's.
ReplyNamesRow ==
    \A r \in Requests :
        IF pc[r] = "existing"
        THEN row[reply[r]] = "stored" /\ SameKey(r, reply[r])
        ELSE reply[r] = r

ApiInv == ApiTypeOK /\ RowFollowsHandler /\ OneRowPerKey /\ ReplyNamesRow

LEMMA ApiTypeStep == ApiTypeOK /\ [ApiNext]_apiVars => ApiTypeOK'
<1> SUFFICES ASSUME ApiTypeOK, [ApiNext]_apiVars PROVE ApiTypeOK'
  OBVIOUS
<1> USE DEF ApiTypeOK, Answered, Accepted
<1>1. ASSUME NEW r \in Requests, Begin(r) PROVE ApiTypeOK'
  <2>1. AnsweredEvents \subseteq Requests
    BY DEF AnsweredEvents
  <2> QED BY <1>1, <2>1 DEF Begin, Tick
<1>2. ASSUME NEW r \in Requests, LookupKey(r) PROVE ApiTypeOK'
  BY <1>2 DEF LookupKey, Stored
<1>3. ASSUME NEW r \in Requests, Insert(r) PROVE ApiTypeOK'
  BY <1>3 DEF Insert, Tick
<1>4. ASSUME NEW r \in Requests, InsertConflict(r) PROVE ApiTypeOK'
  BY <1>4 DEF InsertConflict
<1>5. ASSUME NEW r \in Requests, Commit(r) PROVE ApiTypeOK'
  BY <1>5 DEF Commit
<1>6. ASSUME NEW r \in Requests, Abort(r) PROVE ApiTypeOK'
  BY <1>6 DEF Abort
<1>7. CASE DeleteTopic
  BY <1>7 DEF DeleteTopic
<1>8. CASE UNCHANGED apiVars
  BY <1>8 DEF apiVars
<1> QED
  BY <1>1, <1>2, <1>3, <1>4, <1>5, <1>6, <1>7, <1>8 DEF ApiNext, Handle

\* The handlers keep the invariant.  Only Insert can put a second row under a
\* key, and its guard is the index; only LookupKey changes an answer.
LEMMA ApiInvStep == ApiInv /\ [ApiNext]_apiVars => ApiInv'
<1> SUFFICES ASSUME ApiInv, [ApiNext]_apiVars PROVE ApiInv'
  OBVIOUS
<1> USE DEF ApiInv
<1>0. ApiTypeOK'
  BY ApiTypeStep
<1> DEFINE Rest == RowFollowsHandler /\ OneRowPerKey /\ ReplyNamesRow
<1> USE DEF RowFollowsHandler, OneRowPerKey, ReplyNamesRow, ApiTypeOK, SameKey
<1>1. ASSUME NEW r \in Requests, Begin(r) PROVE Rest'
  BY <1>1 DEF Begin
<1>2. ASSUME NEW r \in Requests, LookupKey(r) PROVE Rest'
  BY <1>2 DEF LookupKey, Stored
<1>3. ASSUME NEW r \in Requests, Insert(r) PROVE Rest'
  <2>1. \A q \in Requests \ {r} : row[q] # "none" => ~SameKey(r, q)
    BY <1>3 DEF Insert, IndexedRows
  <2> QED BY <1>3, <2>1 DEF Insert
<1>4. ASSUME NEW r \in Requests, InsertConflict(r) PROVE Rest'
  BY <1>4 DEF InsertConflict
<1>5. ASSUME NEW r \in Requests, Commit(r) PROVE Rest'
  <2>1. PICK answer \in {"created", "error"} : pc' = [pc EXCEPT ![r] = answer]
    BY <1>5 DEF Commit
  <2>2. row' = [row EXCEPT ![r] = "stored"] /\ row[r] = "inserted"
    BY <1>5 DEF Commit
  <2>3. reply' = reply
    BY <1>5 DEF Commit
  <2>4. RowFollowsHandler'
    BY <2>1, <2>2
  <2>5. OneRowPerKey'
    BY <2>2
  <2>6. ReplyNamesRow'
    BY <2>1, <2>2, <2>3, <1>5 DEF Commit
  <2> QED BY <2>4, <2>5, <2>6
<1>6. ASSUME NEW r \in Requests, Abort(r) PROVE Rest'
  BY <1>6 DEF Abort
<1>7. CASE DeleteTopic
  BY <1>7 DEF DeleteTopic
<1>8. CASE UNCHANGED apiVars
  BY <1>8 DEF apiVars
<1> QED
  BY <1>0, <1>1, <1>2, <1>3, <1>4, <1>5, <1>6, <1>7, <1>8 DEF ApiNext, Handle

LEMMA ApiInvInit == ApiInit => ApiInv
  BY DEF ApiInit, ApiInv, ApiTypeOK, Answered, Accepted, RowFollowsHandler,
         OneRowPerKey, ReplyNamesRow

\* Every reachable state of the publishing API satisfies the invariant.
THEOREM ApiInvariant == ApiSpec => []ApiInv
  BY ApiInvInit, ApiInvStep, PTL DEF ApiSpec

-----------------------------------------------------------------------------
LEMMA InvAcceptedIsStored == ApiInv => AcceptedIsStored
  BY DEF ApiInv, ApiTypeOK, RowFollowsHandler, ReplyNamesRow, AcceptedIsStored,
         Accepted

\* Two answers for one key name two stored rows of that key; the index allows
\* only one.
LEMMA InvRepliesAgree == ApiInv => RepliesAgree
<1> SUFFICES ASSUME ApiInv, NEW r \in Requests, NEW q \in Requests,
                    pc[r] \in Accepted, pc[q] \in Accepted, SameKey(r, q)
             PROVE  reply[r] = reply[q]
  BY DEF RepliesAgree
<1>1. reply[r] \in Requests /\ reply[q] \in Requests
  BY DEF ApiInv, ApiTypeOK
<1>2. row[reply[r]] = "stored" /\ row[reply[q]] = "stored"
  BY InvAcceptedIsStored DEF AcceptedIsStored
<1>3. SameKey(reply[r], reply[q])
  BY DEF ApiInv, ReplyNamesRow, SameKey
<1> QED BY <1>1, <1>2, <1>3 DEF ApiInv, OneRowPerKey

-----------------------------------------------------------------------------
(* Facts about the operators of the model.                                 *)

\* Of a batch, one event is the earliest: LIMIT and ORDER BY always have an
\* answer, also when created_at ties.
LEMMA EarliestExists ==
    ASSUME NEW S, S # {}, NEW at, \A e \in S : at[e] \in Nat
    PROVE  \E e \in S : \A f \in S : at[e] <= at[f]
<1> DEFINE T == {at[e] : e \in S}
           Less == {p \in Nat \X Nat : p[1] < p[2]}
<1>1. T \subseteq Nat /\ T # {}
  OBVIOUS
<1>2. IsWellFoundedOn(Less, Nat)
  BY NatLessThanWellFounded DEF OpToRel
<1> HIDE DEF Less, T
<1>3. PICK x \in T : \A y \in T : ~ (<<y, x>> \in Less)
  BY <1>1, <1>2, WFMin
<1> USE DEF Less, T
<1>4. \A y \in T : ~ (y < x)
  BY <1>1, <1>3
<1>5. PICK e \in S : x = at[e]
  OBVIOUS
<1>6. \A f \in S : at[e] <= at[f]
  BY <1>1, <1>4, <1>5
<1> QED BY <1>6

LEMMA FirstOfBatch ==
    ASSUME stamp \in [Requests -> Nat], NEW S, S \subseteq Requests, S # {}
    PROVE  First(S) \in S
  BY EarliestExists DEF First

\* The choice depends on the stamps of the batch only.
LEMMA SameStampsSameFirst ==
    ASSUME NEW S, NEW at, NEW bt, \A e \in S : bt[e] = at[e]
    PROVE  (CHOOSE e \in S : \A f \in S : bt[e] <= bt[f])
           = (CHOOSE e \in S : \A f \in S : at[e] <= at[f])
<1>1. \A e : (e \in S /\ \A f \in S : bt[e] <= bt[f])
             <=> (e \in S /\ \A f \in S : at[e] <= at[f])
  OBVIOUS
<1> QED BY <1>1, Zenon

\* Kafka's log is append-only: a send adds one event and removes none.
LEMMA SentGrows ==
    ASSUME log \in Seq(Requests), NEW e \in Requests, log' = Append(log, e)
    PROVE  log' \in Seq(Requests) /\ Sent' = Sent \cup {e}
<1>1. log' \in Seq(Requests) /\ Len(log') = Len(log) + 1
  OBVIOUS
<1>2. \A i \in 1..Len(log) : log'[i] = log[i]
  OBVIOUS
<1>3. log'[Len(log) + 1] = e
  OBVIOUS
<1>4. DOMAIN log = 1..Len(log) /\ DOMAIN log' = 1..(Len(log) + 1)
  BY <1>1
<1>5. Len(log) \in Nat
  OBVIOUS
<1> QED BY <1>1, <1>2, <1>3, <1>4, <1>5 DEF Sent

-----------------------------------------------------------------------------
(* The inductive invariant.                                                *)

\* What a worker holds is real: its batch is made of committed rows, and it
\* updates a row only when Kafka has the event.  None of this depends on the
\* locks, which is why a zombie cannot break it.
BatchIsReal(w) ==
    /\ worker[w].todo \subseteq Stored
    /\ worker[w].marked \subseteq Sent
    /\ worker[w].pc \in {"send", "mark"} => worker[w].todo # {}
    /\ worker[w].pc = "mark" => First(worker[w].todo) \in Sent

BatchesAreReal == \A w \in OutboxWorkers : BatchIsReal(w)

IInv == ApiInv /\ TypeOK /\ PublishedWasSent /\ BatchesAreReal

LEMMA InvInit == Init => IInv
  BY ApiInvInit
  DEF Init, OutboxInit, IInv, ApiInv, TypeOK, PublishedWasSent, BatchesAreReal,
      BatchIsReal, Idle, WorkerType, Sent, Stored

\* A handler adds rows and never removes a committed one, and it stamps no row
\* that is committed.
LEMMA ApiKeepsStored ==
    ASSUME ApiInv, ApiNext
    PROVE  Stored \subseteq Stored' /\ \A e \in Stored : stamp'[e] = stamp[e]
<1> USE DEF ApiInv, ApiTypeOK, RowFollowsHandler, Stored
<1>1. ASSUME NEW r \in Requests, Handle(r)
      PROVE  Stored \subseteq Stored' /\ \A e \in Stored : stamp'[e] = stamp[e]
  <2>1. CASE Begin(r)
    BY <2>1 DEF Begin, Tick
  <2>2. CASE LookupKey(r)
    BY <2>2 DEF LookupKey
  <2>3. CASE Insert(r)
    BY <2>3 DEF Insert, Tick
  <2>4. CASE InsertConflict(r)
    BY <2>4 DEF InsertConflict
  <2>5. CASE Commit(r)
    BY <2>5 DEF Commit
  <2>6. CASE Abort(r)
    BY <2>6 DEF Abort
  <2> QED BY <1>1, <2>1, <2>2, <2>3, <2>4, <2>5, <2>6 DEF Handle
<1>2. CASE DeleteTopic
  BY <1>2 DEF DeleteTopic
<1> QED BY <1>1, <1>2 DEF ApiNext

LEMMA ApiStep ==
    ASSUME IInv, ApiNext, UNCHANGED outboxVars
    PROVE  IInv'
<1>1. ApiInv'
  BY ApiInvStep DEF IInv
<1>2. TypeOK'
  BY <1>1 DEF IInv, TypeOK, ApiInv, outboxVars
<1>3. Stored \subseteq Stored' /\ \A e \in Stored : stamp'[e] = stamp[e]
  BY ApiKeepsStored DEF IInv
<1>4. Sent' = Sent /\ worker' = worker /\ published' = published
  BY DEF outboxVars, Sent
<1>5. PublishedWasSent'
  BY <1>3, <1>4 DEF IInv, PublishedWasSent
<1>6. ASSUME NEW w \in OutboxWorkers PROVE BatchIsReal(w)'
  <2>1. BatchIsReal(w)
    BY DEF IInv, BatchesAreReal
  <2>2. \A e \in worker[w].todo : stamp'[e] = stamp[e]
    BY <1>3, <2>1 DEF BatchIsReal
  <2>3. First(worker[w].todo)' = First(worker[w].todo)
    BY <1>4, <2>2, SameStampsSameFirst DEF First
  <2> QED BY <1>3, <1>4, <2>1, <2>3 DEF BatchIsReal
<1> QED BY <1>1, <1>2, <1>5, <1>6 DEF IInv, BatchesAreReal

-----------------------------------------------------------------------------
(* One lemma per action of a worker.                                       *)

\* The lemmas below share this: a worker's step leaves the API alone, so it
\* is enough to look at the worker's batch, the log and the published set.
LEMMA WorkerStep ==
    ASSUME IInv, UNCHANGED apiVars, TypeOK', PublishedWasSent', BatchesAreReal'
    PROVE  IInv'
<1>1. ApiInv'
  BY ApiInvStep DEF IInv
<1> QED BY <1>1 DEF IInv

LEMMA FirstKept ==
    ASSUME UNCHANGED apiVars
    PROVE  \A S : First(S)' = First(S)
  BY DEF apiVars, First

\* An append, acknowledged or not, of the first event of a worker's batch.
LEMMA AppendStep ==
    ASSUME IInv, UNCHANGED <<apiVars, published>>, NEW w \in OutboxWorkers,
           worker[w].pc = "send", log' = Append(log, First(worker[w].todo))
    PROVE  /\ log' \in Seq(Requests)
           /\ Sent' = Sent \cup {First(worker[w].todo)}
           /\ PublishedWasSent'
<1>1. BatchIsReal(w) /\ TypeOK
  BY DEF IInv, BatchesAreReal
<1>2. First(worker[w].todo) \in worker[w].todo /\ worker[w].todo \subseteq Stored
  BY <1>1, FirstOfBatch DEF BatchIsReal, TypeOK, ApiTypeOK, Stored
<1>3. log' \in Seq(Requests) /\ Sent' = Sent \cup {First(worker[w].todo)}
  BY <1>1, <1>2, SentGrows DEF TypeOK, Stored
<1>4. Stored' = Stored
  BY DEF Stored, apiVars
<1> QED BY <1>2, <1>3, <1>4 DEF IInv, PublishedWasSent

LEMMA PollStep ==
    ASSUME IInv, NEW w \in OutboxWorkers, Poll(w), UNCHANGED apiVars
    PROVE  IInv'
<1> USE DEF Poll
<1>1. Batch \subseteq Stored /\ Batch # {}
  BY DEF Batch, Selectable
<1>2. TypeOK'
  BY <1>1 DEF IInv, TypeOK, ApiTypeOK, apiVars, WorkerType, Stored
<1>3. Sent' = Sent /\ Stored' = Stored
  BY DEF Sent, Stored, apiVars
<1>4. PublishedWasSent'
  BY <1>3 DEF IInv, PublishedWasSent
<1>5. BatchesAreReal'
  BY <1>1, <1>3, FirstKept DEF IInv, TypeOK, WorkerType, BatchesAreReal, BatchIsReal
<1> QED BY <1>2, <1>4, <1>5, WorkerStep

LEMMA SendStep ==
    ASSUME IInv, NEW w \in OutboxWorkers, Send(w), UNCHANGED apiVars
    PROVE  IInv'
<1> USE DEF Send
<1>1. /\ log' \in Seq(Requests)
      /\ Sent' = Sent \cup {First(worker[w].todo)}
      /\ PublishedWasSent'
  BY AppendStep
<1>2. TypeOK'
  BY <1>1 DEF IInv, TypeOK, ApiTypeOK, apiVars, WorkerType
<1>3. Stored' = Stored
  BY DEF Stored, apiVars
<1>4. BatchesAreReal'
  BY <1>1, <1>3, FirstKept DEF IInv, TypeOK, WorkerType, BatchesAreReal, BatchIsReal
<1> QED BY <1>1, <1>2, <1>4, WorkerStep

LEMMA MarkStep ==
    ASSUME IInv, NEW w \in OutboxWorkers, Mark(w), UNCHANGED apiVars
    PROVE  IInv'
<1> DEFINE e == First(worker[w].todo)
           rest == worker[w].todo \ {e}
<1>1. worker' = [worker EXCEPT ![w] =
                    [pc |-> IF rest = {} THEN "commit" ELSE "send",
                     tx |-> TRUE,
                     todo |-> rest,
                     marked |-> worker[w].marked \cup {e}]]
      /\ worker[w].pc = "mark" /\ UNCHANGED <<published, log, faults>>
  BY DEF Mark
<1>2. BatchIsReal(w)
  BY DEF IInv, BatchesAreReal
<1>3. e \in Requests /\ e \in Sent /\ rest \subseteq Stored
  BY <1>1, <1>2, FirstOfBatch
  DEF BatchIsReal, IInv, TypeOK, ApiTypeOK, WorkerType, Stored
<1> HIDE DEF e, rest
<1>4. TypeOK'
  BY <1>1, <1>3 DEF IInv, TypeOK, ApiTypeOK, apiVars, WorkerType, Stored
<1>5. Sent' = Sent /\ Stored' = Stored
  BY <1>1 DEF Sent, Stored, apiVars
<1>6. PublishedWasSent'
  BY <1>1, <1>5 DEF IInv, PublishedWasSent
<1>7. BatchesAreReal'
  <2>1. ASSUME NEW v \in OutboxWorkers, v # w PROVE BatchIsReal(v)'
    BY <1>1, <1>5, <2>1, FirstKept DEF IInv, TypeOK, BatchesAreReal, BatchIsReal
  <2>2. worker'[w].todo = rest /\ worker'[w].marked = worker[w].marked \cup {e}
        /\ worker'[w].pc = IF rest = {} THEN "commit" ELSE "send"
    BY <1>1 DEF IInv, TypeOK
  <2>3. BatchIsReal(w)'
    BY <1>2, <1>3, <1>5, <2>2 DEF BatchIsReal
  <2> QED BY <2>1, <2>3 DEF BatchesAreReal
<1> QED BY <1>4, <1>6, <1>7, WorkerStep

LEMMA CommitBatchStep ==
    ASSUME IInv, NEW w \in OutboxWorkers, CommitBatch(w), UNCHANGED apiVars
    PROVE  IInv'
<1> USE DEF CommitBatch, Idle
<1>1. BatchIsReal(w)
  BY DEF IInv, BatchesAreReal
<1>2. TypeOK'
  BY DEF IInv, TypeOK, ApiTypeOK, apiVars, WorkerType
<1>3. Sent' = Sent /\ Stored' = Stored
  BY DEF Sent, Stored, apiVars
<1>4. PublishedWasSent'
  BY <1>1, <1>3 DEF IInv, PublishedWasSent, BatchIsReal
<1>5. BatchesAreReal'
  BY <1>3, FirstKept DEF IInv, TypeOK, WorkerType, BatchesAreReal, BatchIsReal
<1> QED BY <1>2, <1>4, <1>5, WorkerStep

\* A worker that loses its transaction, or its process, holds less than before.
LEMMA DropStep ==
    ASSUME IInv, NEW w \in OutboxWorkers, UNCHANGED apiVars,
           UNCHANGED <<published, log>>, faults' \in Nat,
           \/ worker' = [worker EXCEPT ![w] = Idle]
           \/ worker' = [worker EXCEPT ![w].tx = FALSE, ![w].marked = {}]
    PROVE  IInv'
<1> USE DEF Idle
<1>1. TypeOK'
  <2>1. Idle \in WorkerType /\ worker \in [OutboxWorkers -> WorkerType]
    BY DEF WorkerType, IInv, TypeOK
  <2>2. [worker[w] EXCEPT !.tx = FALSE, !.marked = {}] \in WorkerType
    BY <2>1 DEF WorkerType
  <2>3. worker' \in [OutboxWorkers -> WorkerType]
    BY <2>1, <2>2
  <2> QED BY <2>3 DEF IInv, TypeOK, ApiTypeOK, apiVars
<1>2. Sent' = Sent /\ Stored' = Stored
  BY DEF Sent, Stored, apiVars
<1>3. PublishedWasSent'
  BY <1>2 DEF IInv, PublishedWasSent
<1>4. BatchesAreReal'
  BY <1>2, FirstKept DEF IInv, TypeOK, WorkerType, BatchesAreReal, BatchIsReal
<1> QED BY <1>1, <1>3, <1>4, WorkerStep

LEMMA SendUnacknowledgedStep ==
    ASSUME IInv, NEW w \in OutboxWorkers, SendUnacknowledged(w), UNCHANGED apiVars
    PROVE  IInv'
<1> USE DEF SendUnacknowledged, Fault
<1>1. /\ log' \in Seq(Requests)
      /\ Sent' = Sent \cup {First(worker[w].todo)}
      /\ PublishedWasSent'
  BY AppendStep
<1>2. TypeOK'
  BY <1>1 DEF IInv, TypeOK, ApiTypeOK, apiVars, WorkerType
<1>3. Stored' = Stored
  BY DEF Stored, apiVars
<1>4. BatchesAreReal'
  BY <1>1, <1>3, FirstKept DEF IInv, TypeOK, WorkerType, BatchesAreReal, BatchIsReal
<1> QED BY <1>1, <1>2, <1>4, WorkerStep

-----------------------------------------------------------------------------
(* The theorems.                                                           *)

LEMMA InvStep == IInv /\ [Next]_vars => IInv'
<1> SUFFICES ASSUME IInv, [Next]_vars PROVE IInv'
  OBVIOUS
<1>1. CASE ApiNext /\ UNCHANGED outboxVars
  BY <1>1, ApiStep
<1>2. ASSUME NEW w \in OutboxWorkers, OutboxStep(w), UNCHANGED apiVars PROVE IInv'
  <2>1. CASE TransactionGone(w)
    BY <1>2, <2>1, DropStep DEF TransactionGone, IInv, TypeOK
  <2> QED
    BY <1>2, <2>1, PollStep, SendStep, MarkStep, CommitBatchStep DEF OutboxStep
<1>3. ASSUME NEW w \in OutboxWorkers, OutboxFault(w), UNCHANGED apiVars PROVE IInv'
  <2>1. faults' \in Nat
    BY <1>3 DEF IInv, TypeOK, OutboxFault, SendUnacknowledged, Timeout, Fail, Fault
  <2>2. CASE Timeout(w)
    BY <1>3, <2>1, <2>2, DropStep DEF Timeout
  <2>3. CASE Fail(w)
    BY <1>3, <2>1, <2>3, DropStep DEF Fail
  <2> QED BY <1>3, <2>2, <2>3, SendUnacknowledgedStep DEF OutboxFault
<1>4. CASE UNCHANGED vars
  <2>1. UNCHANGED apiVars /\ UNCHANGED outboxVars
    BY <1>4 DEF vars
  <2>2. Sent' = Sent /\ Stored' = Stored
    BY <2>1 DEF apiVars, outboxVars, Sent, Stored
  <2>3. TypeOK' /\ PublishedWasSent'
    BY <2>1, <2>2
    DEF IInv, TypeOK, ApiTypeOK, apiVars, outboxVars, PublishedWasSent
  <2>4. BatchesAreReal'
    BY <2>1, <2>2, FirstKept DEF IInv, outboxVars, BatchesAreReal, BatchIsReal
  <2> QED BY <2>1, <2>3, <2>4, WorkerStep
<1> QED BY <1>1, <1>2, <1>3, <1>4 DEF Next

\* Every reachable state of the pipeline satisfies the inductive invariant.
THEOREM OutboxInvariant == Spec => []IInv
  BY InvInit, InvStep, PTL DEF Spec

\* The variables keep their types.
THEOREM OutboxTypeOK == Spec => []TypeOK
<1>1. IInv => TypeOK
  BY DEF IInv
<1> QED BY <1>1, OutboxInvariant, PTL

\* The outbox loses no event and invents none: published rows are in Kafka, and
\* what is in Kafka is a committed row, whatever fails and whenever.
THEOREM OutboxPublishedWasSent == Spec => []PublishedWasSent
<1>1. IInv => PublishedWasSent
  BY DEF IInv
<1> QED BY <1>1, OutboxInvariant, PTL

\* While the outbox runs, no 202 is ever for an event that is not stored.
THEOREM OutboxAcceptedIsStored == Spec => []AcceptedIsStored
<1>1. IInv => AcceptedIsStored
  BY InvAcceptedIsStored DEF IInv
<1> QED BY <1>1, OutboxInvariant, PTL

\* Idempotent publishing: the 202 answers for one key name one event.
THEOREM OutboxRepliesAgree == Spec => []RepliesAgree
<1>1. IInv => RepliesAgree
  BY InvRepliesAgree DEF IInv
<1> QED BY <1>1, OutboxInvariant, PTL

-----------------------------------------------------------------------------
(* The refinement of EventLog: Commit is Store, an append is Emit, the     *)
(* commit of a batch is TickOff, everything else stutters.                 *)

LEMMA ApiRefines ==
    ASSUME IInv, ApiNext, UNCHANGED outboxVars
    PROVE  [Contract!Next]_(Contract!logVars)
<1> USE DEF Contract!logVars, outboxVars
<1>1. ASSUME NEW r \in Requests, Commit(r) PROVE Contract!Store
  <2>1. row' = [row EXCEPT ![r] = "stored"]
    BY <1>1 DEF Commit
  <2>2. Stored' = Stored \cup {r}
    BY <2>1 DEF Stored, IInv, TypeOK, ApiTypeOK
  <2> QED BY <2>2 DEF Contract!Store
<1>2. ASSUME NEW r \in Requests, Handle(r), ~Commit(r) PROVE Stored' = Stored
  <2> USE DEF IInv, ApiInv, ApiTypeOK, RowFollowsHandler, Stored
  <2>1. CASE Begin(r)
    BY <2>1 DEF Begin
  <2>2. CASE LookupKey(r)
    BY <2>2 DEF LookupKey
  <2>3. CASE Insert(r)
    BY <2>3 DEF Insert
  <2>4. CASE InsertConflict(r)
    BY <2>4 DEF InsertConflict
  <2>5. CASE Abort(r)
    BY <2>5 DEF Abort
  <2> QED BY <1>2, <2>1, <2>2, <2>3, <2>4, <2>5 DEF Handle
<1>3. CASE DeleteTopic
  BY <1>3 DEF DeleteTopic, Stored
<1> QED BY <1>1, <1>2, <1>3 DEF ApiNext, Contract!Next

LEMMA WorkerRefines ==
    ASSUME IInv, UNCHANGED apiVars, NEW w \in OutboxWorkers,
           OutboxStep(w) \/ OutboxFault(w)
    PROVE  [Contract!Next]_(Contract!logVars)
<1>1. BatchIsReal(w)
  BY DEF IInv, BatchesAreReal
<1>2. Stored' = Stored
  BY DEF Stored, apiVars
<1>3. CASE Send(w) \/ SendUnacknowledged(w)
  <2>1. worker[w].pc = "send" /\ published' = published
        /\ log' = Append(log, First(worker[w].todo))
    BY <1>3 DEF Send, SendUnacknowledged
  <2>2. First(worker[w].todo) \in Stored
    BY <1>1, <2>1, FirstOfBatch DEF BatchIsReal, IInv, TypeOK, ApiTypeOK, Stored
  <2> QED BY <1>2, <2>1, <2>2 DEF Contract!Next, Contract!Emit
<1>4. CASE CommitBatch(w)
  <2>1. published' = published \cup worker[w].marked /\ log' = log
    BY <1>4 DEF CommitBatch
  <2>2. worker[w].marked \in SUBSET Contract!InLog
    BY <1>1 DEF BatchIsReal, Sent, Contract!InLog
  <2> QED BY <1>2, <2>1, <2>2 DEF Contract!Next, Contract!TickOff
<1>5. CASE Poll(w) \/ Mark(w) \/ TransactionGone(w) \/ Timeout(w) \/ Fail(w)
  BY <1>2, <1>5
  DEF Poll, Mark, TransactionGone, Timeout, Fail, Contract!logVars
<1> QED BY <1>3, <1>4, <1>5 DEF OutboxStep, OutboxFault

\* The API, the outbox workers and all their failures together implement the
\* append-only log of EventLog that the delivery workers consume.
THEOREM OutboxImplementsEventLog == Spec => ImplementsEventLog
<1>1. Init => Contract!Init
  BY DEF Init, ApiInit, OutboxInit, Contract!Init, Stored
<1>2. IInv /\ [Next]_vars => [Contract!Next]_(Contract!logVars)
  <2> SUFFICES ASSUME IInv, [Next]_vars PROVE [Contract!Next]_(Contract!logVars)
    OBVIOUS
  <2>1. CASE UNCHANGED vars
    BY <2>1 DEF vars, apiVars, outboxVars, Contract!logVars, Stored
  <2> QED BY <2>1, ApiRefines, WorkerRefines DEF Next
<1> QED
  BY <1>1, <1>2, OutboxInvariant, PTL DEF Spec, ImplementsEventLog, Contract!Spec
-----------------------------------------------------------------------------
(* Copies of an event.                                                     *)
(*                                                                         *)
(* An event has at most one chance to be sent, and every fault adds at     *)
(* most one: the chance is a row that is free to be selected, or a worker  *)
(* that has it in its batch and has not sent it yet.  A poll turns a free  *)
(* row into one sender, the locks keep every other poll off it, and the    *)
(* commit that releases the lock has marked the row.                       *)

\* A poll may still select the row of e.
Free(e) == e \notin published /\ e \notin Locked

\* The workers that have e in their batch and have not sent it yet.
Sending(e) == {w \in OutboxWorkers :
                 /\ e \in worker[w].todo
                 /\ worker[w].pc = "mark" => e # First(worker[w].todo)}

Chance(e) == IF Free(e) THEN 1 ELSE 0

\* Between two polls a worker holds nothing; it commits a finished batch.
WorkersInOrder ==
    \A w \in OutboxWorkers :
        /\ worker[w].pc = "idle" => worker[w] = Idle
        /\ worker[w].pc = "commit" => worker[w].todo = {}

Charged(e) ==
    /\ IsFiniteSet(Sending(e))
    /\ Copies(e) + Cardinality(Sending(e)) + Chance(e) <= 1 + faults

CopiesCharged == \A e \in Requests : Charged(e)

CopiesInv == IInv /\ WorkersInOrder /\ CopiesCharged

LEMMA CopiesAreCounted ==
    ASSUME log \in Seq(Requests)
    PROVE  \A e : Copies(e) \in Nat
<1> TAKE e
<1>1. DOMAIN log = 1..Len(log) /\ Len(log) \in Nat
  OBVIOUS
<1>2. {i \in DOMAIN log : log[i] = e} \in SUBSET (1..Len(log))
  BY <1>1
<1>3. IsFiniteSet(1..Len(log))
  BY <1>1, FS_Interval
<1>4. IsFiniteSet({i \in DOMAIN log : log[i] = e})
  BY <1>2, <1>3, FS_Subset
<1> QED BY <1>4, FS_CardinalityType DEF Copies

\* A send adds one copy of its event and none of any other.
LEMMA AppendCopies ==
    ASSUME log \in Seq(Requests), NEW e \in Requests, log' = Append(log, e)
    PROVE  /\ Copies(e)' = Copies(e) + 1
           /\ \A f : f # e => Copies(f)' = Copies(f)
<1> DEFINE At(f) == {i \in DOMAIN log : log[i] = f}
           n == Len(log) + 1
<1>1. DOMAIN log = 1..Len(log) /\ DOMAIN log' = 1..n /\ Len(log) \in Nat
  OBVIOUS
<1>2. \A i \in 1..Len(log) : log'[i] = log[i]
  OBVIOUS
<1>3. log'[n] = e
  OBVIOUS
<1>4. At(e)' = At(e) \cup {n} /\ n \notin At(e)
  BY <1>1, <1>2, <1>3
<1>5. \A f : f # e => At(f)' = At(f)
  BY <1>1, <1>2, <1>3
<1>6. At(e) \in SUBSET (1..Len(log)) /\ IsFiniteSet(1..Len(log))
  BY <1>1, FS_Interval
<1>7. IsFiniteSet(At(e))
  BY <1>6, FS_Subset
<1>8. Cardinality(At(e)') = Cardinality(At(e)) + 1
  BY <1>4, <1>7, FS_AddElement
<1> QED BY <1>5, <1>8 DEF Copies

\* Fewer senders are charged less.
LEMMA FewerSenders ==
    ASSUME NEW S, IsFiniteSet(S), NEW T \in SUBSET S
    PROVE  /\ IsFiniteSet(T) /\ Cardinality(S) \in Nat /\ Cardinality(T) \in Nat
           /\ Cardinality(T) <= Cardinality(S)
           /\ \A w \in S \ T : Cardinality(T) + 1 <= Cardinality(S)
<1>1. IsFiniteSet(T) /\ Cardinality(T) <= Cardinality(S)
  BY FS_Subset
<1>2. Cardinality(S) \in Nat /\ Cardinality(T) \in Nat
  BY <1>1, FS_CardinalityType
<1>3. ASSUME NEW w \in S \ T PROVE Cardinality(T) + 1 <= Cardinality(S)
  <2>1. Cardinality(S) # Cardinality(T)
    BY <1>3, FS_Subset
  <2> QED BY <1>1, <1>2, <2>1
<1> QED BY <1>1, <1>2, <1>3

LEMMA LockedBy ==
    \A e : e \in Locked <=> \E w \in OutboxWorkers :
                               worker[w].tx /\ e \in worker[w].todo \cup worker[w].marked
  BY DEF Locked

\* A step of one worker leaves what the others send and lock as it is.
LEMMA OthersSend ==
    ASSUME TypeOK, UNCHANGED apiVars, NEW w \in OutboxWorkers,
           \A v \in OutboxWorkers \ {w} : worker'[v] = worker[v], NEW e
    PROVE  /\ \A v \in OutboxWorkers \ {w} : v \in Sending(e)' <=> v \in Sending(e)
           /\ ~Free(e) => \/ e \in published
                          \/ \E v \in OutboxWorkers \ {w} :
                                worker'[v].tx /\ e \in worker'[v].todo \cup worker'[v].marked
                          \/ worker[w].tx /\ e \in worker[w].todo \cup worker[w].marked
           /\ e \in published' => ~Free(e)'
           /\ \A v \in OutboxWorkers :
                worker'[v].tx /\ e \in worker'[v].todo \cup worker'[v].marked => ~Free(e)'
<1>1. ~Free(e)' <=> e \in published' \/ e \in Locked'
  BY DEF Free
<1>2. e \in Locked' <=> \E v \in OutboxWorkers :
                           worker'[v].tx /\ e \in worker'[v].todo \cup worker'[v].marked
  BY DEF Locked
<1>3. \A v \in OutboxWorkers \ {w} : v \in Sending(e)' <=> v \in Sending(e)
  BY FirstKept DEF Sending
<1> QED BY <1>1, <1>2, <1>3, LockedBy DEF Free

LEMMA SendingKept ==
    ASSUME TypeOK, UNCHANGED apiVars, NEW w \in OutboxWorkers,
           \A v \in OutboxWorkers \ {w} : worker'[v] = worker[v], NEW e,
           w \in Sending(e)' => w \in Sending(e)
    PROVE  Sending(e)' \in SUBSET Sending(e)
  BY OthersSend DEF Sending

\* The poll locks what it selects: a free row becomes one sender.
LEMMA PollCharged ==
    ASSUME CopiesInv, NEW w \in OutboxWorkers, Poll(w), UNCHANGED apiVars
    PROVE  WorkersInOrder' /\ CopiesCharged'
<1> DEFINE batch == Batch
<1>1. /\ worker[w].pc = "idle" /\ UNCHANGED <<published, log, faults>>
      /\ worker' = [worker EXCEPT ![w] =
                      [pc |-> "send", tx |-> TRUE, todo |-> batch, marked |-> {}]]
  BY DEF Poll
<1>2. \A e \in batch : Free(e)
  BY DEF Batch, Selectable, Free
<1> HIDE DEF batch
<1>3. TypeOK /\ worker[w] = Idle
  BY <1>1 DEF CopiesInv, IInv, WorkersInOrder
<1>4. /\ \A v \in OutboxWorkers \ {w} : worker'[v] = worker[v]
      /\ worker'[w] = [pc |-> "send", tx |-> TRUE, todo |-> batch, marked |-> {}]
  BY <1>1, <1>3 DEF TypeOK
<1>5. WorkersInOrder'
  BY <1>4 DEF CopiesInv, WorkersInOrder, Idle
<1>6. ASSUME NEW e \in Requests PROVE Charged(e)'
  <2>1. Charged(e)
    BY DEF CopiesInv, CopiesCharged
  <2>2. Copies(e)' = Copies(e) /\ faults' = faults
    BY <1>1 DEF Copies
  <2>3. w \notin Sending(e)
    BY <1>3 DEF Sending, Idle
  <2>4. CASE e \in batch
    <3>1. Chance(e) = 1 /\ Chance(e)' = 0
      BY <1>2, <1>3, <1>4, <2>4, OthersSend DEF Chance
    <3>2. Sending(e)' = Sending(e) \cup {w}
      BY <1>3, <1>4, <2>4, OthersSend DEF Sending
    <3>3. IsFiniteSet(Sending(e)') /\ Cardinality(Sending(e)') = Cardinality(Sending(e)) + 1
      BY <2>1, <2>3, <3>2, FS_AddElement DEF Charged
    <3>4. Cardinality(Sending(e)) \in Nat
      BY <2>1, FS_CardinalityType DEF Charged
    <3> QED BY <2>1, <2>2, <3>1, <3>3, <3>4, CopiesAreCounted, <1>3 DEF Charged, TypeOK
  <2>5. CASE e \notin batch
    <3>1. w \notin Sending(e)'
      BY <1>4, <2>5 DEF Sending
    <3>2. Sending(e)' = Sending(e)
      BY <1>3, <1>4, <2>3, <3>1, OthersSend DEF Sending
    <3>3. Free(e)' => Free(e)
      BY <1>1, <1>3, <1>4, OthersSend DEF Idle
    <3>4. Cardinality(Sending(e)) \in Nat
      BY <2>1, FS_CardinalityType DEF Charged
    <3>5. Chance(e)' <= Chance(e)
      BY <3>3 DEF Chance
    <3> QED
      BY <2>1, <2>2, <3>2, <3>4, <3>5, CopiesAreCounted, <1>3
      DEF Charged, TypeOK, Chance
  <2> QED BY <2>4, <2>5
<1> QED BY <1>5, <1>6 DEF CopiesCharged

\* When no sender is added, copies and free rows may grow by as much as faults.
LEMMA NoMoreSenders ==
    ASSUME TypeOK, NEW e, Charged(e), Sending(e)' \in SUBSET Sending(e),
           Copies(e)' \in Nat, faults' \in Nat,
           Copies(e)' + Chance(e)' - faults' <= Copies(e) + Chance(e) - faults
    PROVE  Charged(e)'
<1>1. /\ IsFiniteSet(Sending(e)') /\ Cardinality(Sending(e)) \in Nat
      /\ Cardinality(Sending(e)') \in Nat
      /\ Cardinality(Sending(e)') <= Cardinality(Sending(e))
  BY FewerSenders DEF Charged
<1>2. Copies(e) \in Nat /\ faults \in Nat
  BY CopiesAreCounted DEF TypeOK
<1>3. Chance(e) \in Nat /\ Chance(e)' \in Nat
  BY DEF Chance
<1> QED BY <1>1, <1>2, <1>3 DEF Charged

\* A send is a sender turned into a copy.
LEMMA SendCharged ==
    ASSUME CopiesInv, NEW w \in OutboxWorkers, Send(w), UNCHANGED apiVars
    PROVE  WorkersInOrder' /\ CopiesCharged'
<1> DEFINE x == First(worker[w].todo)
<1>1. /\ worker[w].pc = "send" /\ UNCHANGED <<published, faults>>
      /\ worker' = [worker EXCEPT ![w].pc = "mark"] /\ log' = Append(log, x)
  BY DEF Send
<1>2. TypeOK /\ WorkersInOrder /\ BatchIsReal(w)
  BY DEF CopiesInv, IInv, BatchesAreReal
<1>3. x \in worker[w].todo /\ x \in Requests
  BY <1>1, <1>2, FirstOfBatch DEF BatchIsReal, TypeOK, ApiTypeOK, Stored
<1>4. /\ \A v \in OutboxWorkers \ {w} : worker'[v] = worker[v]
      /\ worker'[w].pc = "mark" /\ worker'[w].tx = worker[w].tx
      /\ worker'[w].todo = worker[w].todo /\ worker'[w].marked = worker[w].marked
  BY <1>1, <1>2 DEF TypeOK, WorkerType
<1>5. First(worker[w].todo)' = x
  BY <1>4 DEF First, apiVars
<1> HIDE DEF x
<1>6. WorkersInOrder'
  BY <1>2, <1>4 DEF WorkersInOrder, Idle
<1>7. ASSUME NEW e \in Requests PROVE Charged(e)'
  <2>1. Charged(e)
    BY DEF CopiesInv, CopiesCharged
  <2>2. w \in Sending(e)' <=> e \in worker[w].todo /\ e # x
    BY <1>4, <1>5 DEF Sending
  <2>3. w \in Sending(e) <=> e \in worker[w].todo
    BY <1>1 DEF Sending
  <2>4. Sending(e)' \in SUBSET Sending(e)
    BY <1>2, <1>4, <2>2, <2>3, SendingKept
  <2>5. Free(e)' <=> Free(e)
    BY <1>1, <1>4, LockedBy DEF Free, Locked
  <2>6. Chance(e)' = Chance(e) /\ Chance(e) \in Nat
    BY <2>5 DEF Chance
  <2>7. /\ Copies(e)' = Copies(e) + (IF e = x THEN 1 ELSE 0)
        /\ Copies(e) \in Nat /\ faults \in Nat
    BY <1>1, <1>2, <1>3, AppendCopies, CopiesAreCounted DEF TypeOK
  <2>8. CASE e # x
    BY <1>1, <1>2, <2>1, <2>4, <2>6, <2>7, <2>8, NoMoreSenders
  <2>9. CASE e = x
    <3>1. w \in Sending(e) \ Sending(e)'
      BY <1>3, <2>2, <2>3, <2>9
    <3>2. IsFiniteSet(Sending(e))
      BY <2>1 DEF Charged
    <3>3. /\ IsFiniteSet(Sending(e)')
          /\ Cardinality(Sending(e)) \in Nat /\ Cardinality(Sending(e)') \in Nat
          /\ Cardinality(Sending(e)') + 1 <= Cardinality(Sending(e))
      BY <2>4, <3>1, <3>2, FewerSenders
    <3> QED BY <1>1, <2>1, <2>6, <2>7, <2>9, <3>3 DEF Charged
  <2> QED BY <2>8, <2>9
<1> QED BY <1>6, <1>7 DEF CopiesCharged

\* The mark of an event that was sent: its row stays locked.
LEMMA MarkCharged ==
    ASSUME CopiesInv, NEW w \in OutboxWorkers, Mark(w), UNCHANGED apiVars
    PROVE  WorkersInOrder' /\ CopiesCharged'
<1> DEFINE x == First(worker[w].todo)
           rest == worker[w].todo \ {x}
<1>1. /\ worker[w].pc = "mark" /\ worker[w].tx
      /\ UNCHANGED <<published, log, faults>>
      /\ worker' = [worker EXCEPT ![w] =
                      [pc |-> IF rest = {} THEN "commit" ELSE "send",
                       tx |-> TRUE, todo |-> rest,
                       marked |-> worker[w].marked \cup {x}]]
  BY DEF Mark
<1>2. TypeOK /\ WorkersInOrder
  BY DEF CopiesInv, IInv
<1>3. /\ \A v \in OutboxWorkers \ {w} : worker'[v] = worker[v]
      /\ worker'[w].pc = (IF rest = {} THEN "commit" ELSE "send")
      /\ worker'[w].tx = TRUE /\ worker'[w].todo = rest
      /\ worker'[w].marked = worker[w].marked \cup {x}
  BY <1>1, <1>2 DEF TypeOK
<1>4. WorkersInOrder'
  BY <1>2, <1>3 DEF WorkersInOrder
<1>5. ASSUME NEW e \in Requests PROVE Charged(e)'
  <2>1. Charged(e)
    BY DEF CopiesInv, CopiesCharged
  <2>2. w \in Sending(e)' => w \in Sending(e)
    BY <1>1, <1>3 DEF Sending
  <2>3. Sending(e)' \in SUBSET Sending(e)
    BY <1>2, <1>3, <2>2, SendingKept
  <2>4. worker[w].tx /\ e \in worker[w].todo \cup worker[w].marked
            => worker'[w].tx /\ e \in worker'[w].todo \cup worker'[w].marked
    BY <1>3
  <2>5. Free(e)' => Free(e)
    BY <1>1, <1>2, <1>3, <2>4, OthersSend
  <2>6. Chance(e)' <= Chance(e) /\ Chance(e) \in Nat /\ Chance(e)' \in Nat
    BY <2>5 DEF Chance
  <2>7. Copies(e)' = Copies(e) /\ Copies(e) \in Nat /\ faults \in Nat
    BY <1>1, <1>2, CopiesAreCounted DEF TypeOK, Copies
  <2> QED BY <1>1, <1>2, <2>1, <2>3, <2>6, <2>7, NoMoreSenders
<1> QED BY <1>4, <1>5 DEF CopiesCharged

\* The commit releases rows that are published from now on.
LEMMA CommitBatchCharged ==
    ASSUME CopiesInv, NEW w \in OutboxWorkers, CommitBatch(w), UNCHANGED apiVars
    PROVE  WorkersInOrder' /\ CopiesCharged'
<1>1. /\ worker[w].pc = "commit" /\ worker[w].tx /\ UNCHANGED <<log, faults>>
      /\ worker' = [worker EXCEPT ![w] = Idle]
      /\ published' = published \cup worker[w].marked
  BY DEF CommitBatch
<1>2. TypeOK /\ WorkersInOrder /\ worker[w].todo = {}
  BY <1>1 DEF CopiesInv, IInv, WorkersInOrder
<1>3. /\ \A v \in OutboxWorkers \ {w} : worker'[v] = worker[v]
      /\ worker'[w] = Idle
  BY <1>1, <1>2 DEF TypeOK
<1>4. WorkersInOrder'
  BY <1>2, <1>3 DEF WorkersInOrder, Idle
<1>5. ASSUME NEW e \in Requests PROVE Charged(e)'
  <2>1. Charged(e)
    BY DEF CopiesInv, CopiesCharged
  <2>2. w \notin Sending(e)'
    BY <1>3 DEF Sending, Idle
  <2>3. Sending(e)' \in SUBSET Sending(e)
    BY <1>2, <1>3, <2>2, SendingKept
  <2>4. e \in published \cup worker[w].marked => e \in published'
    BY <1>1
  <2>5. Free(e)' => Free(e)
    BY <1>2, <1>3, <2>4, OthersSend
  <2>6. Chance(e)' <= Chance(e) /\ Chance(e) \in Nat /\ Chance(e)' \in Nat
    BY <2>5 DEF Chance
  <2>7. Copies(e)' = Copies(e) /\ Copies(e) \in Nat /\ faults \in Nat
    BY <1>1, <1>2, CopiesAreCounted DEF TypeOK, Copies
  <2> QED BY <1>1, <1>2, <2>1, <2>3, <2>6, <2>7, NoMoreSenders
<1> QED BY <1>4, <1>5 DEF CopiesCharged

\* A transaction that ended earlier has released its rows then.
LEMMA TransactionGoneCharged ==
    ASSUME CopiesInv, NEW w \in OutboxWorkers, TransactionGone(w), UNCHANGED apiVars
    PROVE  WorkersInOrder' /\ CopiesCharged'
<1>1. /\ ~worker[w].tx /\ UNCHANGED <<published, log, faults>>
      /\ worker' = [worker EXCEPT ![w] = Idle]
  BY DEF TransactionGone
<1>2. TypeOK /\ WorkersInOrder
  BY DEF CopiesInv, IInv
<1>3. /\ \A v \in OutboxWorkers \ {w} : worker'[v] = worker[v]
      /\ worker'[w] = Idle
  BY <1>1, <1>2 DEF TypeOK
<1>4. WorkersInOrder'
  BY <1>2, <1>3 DEF WorkersInOrder, Idle
<1>5. ASSUME NEW e \in Requests PROVE Charged(e)'
  <2>1. Charged(e)
    BY DEF CopiesInv, CopiesCharged
  <2>2. w \notin Sending(e)'
    BY <1>3 DEF Sending, Idle
  <2>3. Sending(e)' \in SUBSET Sending(e)
    BY <1>2, <1>3, <2>2, SendingKept
  <2>4. Free(e)' => Free(e)
    BY <1>1, <1>2, <1>3, OthersSend
  <2>5. Chance(e)' <= Chance(e) /\ Chance(e) \in Nat /\ Chance(e)' \in Nat
    BY <2>4 DEF Chance
  <2>6. Copies(e)' = Copies(e) /\ Copies(e) \in Nat /\ faults \in Nat
    BY <1>1, <1>2, CopiesAreCounted DEF TypeOK, Copies
  <2> QED BY <1>1, <1>2, <2>1, <2>3, <2>5, <2>6, NoMoreSenders
<1> QED BY <1>4, <1>5 DEF CopiesCharged

\* A fault makes one copy more, or frees the rows of one worker once more.
LEMMA FaultCharged ==
    ASSUME CopiesInv, NEW w \in OutboxWorkers, OutboxFault(w), UNCHANGED apiVars
    PROVE  WorkersInOrder' /\ CopiesCharged'
<1>1. TypeOK /\ WorkersInOrder /\ BatchIsReal(w) /\ faults' = faults + 1
  BY DEF CopiesInv, IInv, BatchesAreReal, OutboxFault, SendUnacknowledged,
         Timeout, Fail, Fault
<1>2. /\ \A v \in OutboxWorkers \ {w} : worker'[v] = worker[v]
      /\ \/ worker'[w] = worker[w] \/ worker'[w] = Idle
         \/ /\ worker'[w].pc = worker[w].pc /\ worker'[w].todo = worker[w].todo
            /\ worker[w].tx
  BY <1>1 DEF OutboxFault, SendUnacknowledged, Timeout, Fail, TypeOK, WorkerType
<1>3. WorkersInOrder'
  <2>1. worker[w].tx => worker[w].pc # "idle"
    BY <1>1 DEF WorkersInOrder, Idle
  <2> QED BY <1>1, <1>2, <2>1 DEF WorkersInOrder, Idle
<1>4. ASSUME NEW e \in Requests PROVE Charged(e)'
  <2>1. Charged(e)
    BY DEF CopiesInv, CopiesCharged
  <2>2. w \in Sending(e)' => w \in Sending(e)
    BY <1>2, FirstKept DEF Sending, Idle
  <2>3. Sending(e)' \in SUBSET Sending(e)
    BY <1>1, <1>2, <2>2, SendingKept
  <2>4. Copies(e) \in Nat /\ faults \in Nat
    BY <1>1, CopiesAreCounted DEF TypeOK
  <2>5. Chance(e) \in 0..1 /\ Chance(e)' \in 0..1
    BY DEF Chance
  <2>6. CASE SendUnacknowledged(w)
    <3>1. /\ log' = Append(log, First(worker[w].todo)) /\ worker' = worker
          /\ published' = published /\ worker[w].pc = "send"
      BY <2>6 DEF SendUnacknowledged
    <3>2. First(worker[w].todo) \in Requests
      BY <1>1, <3>1, FirstOfBatch DEF BatchIsReal, TypeOK, ApiTypeOK, Stored
    <3>3. Copies(e)' \in {Copies(e), Copies(e) + 1}
      BY <1>1, <3>1, <3>2, AppendCopies DEF TypeOK
    <3>4. Chance(e)' = Chance(e)
      BY <3>1 DEF Chance, Free, Locked
    <3> QED BY <1>1, <2>1, <2>3, <2>4, <2>5, <3>3, <3>4, NoMoreSenders
  <2>7. CASE Timeout(w) \/ Fail(w)
    <3>1. Copies(e)' = Copies(e)
      BY <2>7 DEF Timeout, Fail, Copies
    <3> QED BY <1>1, <2>1, <2>3, <2>4, <2>5, <3>1, NoMoreSenders
  <2> QED BY <2>6, <2>7 DEF OutboxFault
<1> QED BY <1>3, <1>4 DEF CopiesCharged

\* The event API stamps no row that a worker holds.
LEMMA ApiCharged ==
    ASSUME CopiesInv, ApiNext \/ UNCHANGED apiVars, UNCHANGED outboxVars
    PROVE  WorkersInOrder' /\ CopiesCharged'
<1>1. TypeOK /\ WorkersInOrder /\ ApiInv /\ BatchesAreReal
  BY DEF CopiesInv, IInv
<1>2. \A e \in Stored : stamp'[e] = stamp[e]
  BY <1>1, ApiKeepsStored DEF apiVars
<1>3. ASSUME NEW w \in OutboxWorkers
      PROVE  First(worker[w].todo)' = First(worker[w].todo)
  <2>1. \A e \in worker[w].todo : stamp'[e] = stamp[e]
    BY <1>1, <1>2 DEF BatchesAreReal, BatchIsReal
  <2> QED BY <2>1, SameStampsSameFirst DEF First, outboxVars
<1>4. WorkersInOrder'
  BY <1>1 DEF WorkersInOrder, outboxVars
<1>5. ASSUME NEW e \in Requests PROVE Charged(e)'
  <2>1. Charged(e)
    BY DEF CopiesInv, CopiesCharged
  <2>2. Sending(e)' = Sending(e)
    BY <1>3 DEF Sending, outboxVars
  <2>3. Copies(e)' = Copies(e) /\ Chance(e)' = Chance(e) /\ faults' = faults
    BY DEF Copies, Chance, Free, Locked, outboxVars
  <2> QED BY <2>1, <2>2, <2>3 DEF Charged
<1> QED BY <1>4, <1>5 DEF CopiesCharged

LEMMA CopiesInit == Init => WorkersInOrder /\ CopiesCharged
<1> SUFFICES ASSUME Init PROVE WorkersInOrder /\ CopiesCharged
  OBVIOUS
<1>1. worker = [w \in OutboxWorkers |-> Idle] /\ log = <<>> /\ faults = 0
  BY DEF Init, OutboxInit
<1>2. ASSUME NEW e \in Requests PROVE Charged(e)
  <2>1. Sending(e) = {} /\ {i \in DOMAIN log : log[i] = e} = {}
    BY <1>1 DEF Sending, Idle
  <2>2. Copies(e) = 0 /\ IsFiniteSet(Sending(e)) /\ Cardinality(Sending(e)) = 0
    BY <2>1, FS_EmptySet DEF Copies
  <2> QED BY <1>1, <2>2 DEF Charged, Chance
<1> QED BY <1>1, <1>2 DEF WorkersInOrder, CopiesCharged, Idle

LEMMA CopiesStep == CopiesInv /\ [Next]_vars => CopiesInv'
<1> SUFFICES ASSUME CopiesInv, [Next]_vars PROVE CopiesInv'
  OBVIOUS
<1>1. IInv'
  BY InvStep DEF CopiesInv
<1>2. CASE (ApiNext /\ UNCHANGED outboxVars) \/ UNCHANGED vars
  BY <1>1, <1>2, ApiCharged DEF CopiesInv, vars
<1>3. ASSUME NEW w \in OutboxWorkers, OutboxStep(w), UNCHANGED apiVars
      PROVE  CopiesInv'
  BY <1>1, <1>3, PollCharged, SendCharged, MarkCharged, CommitBatchCharged,
     TransactionGoneCharged DEF OutboxStep, CopiesInv
<1>4. ASSUME NEW w \in OutboxWorkers, OutboxFault(w), UNCHANGED apiVars
      PROVE  CopiesInv'
  BY <1>1, <1>4, FaultCharged DEF CopiesInv
<1> QED BY <1>2, <1>3, <1>4 DEF Next

\* A failure makes the platform send an event at most once more; without one,
\* the row locks keep every event to one copy, however many workers poll and
\* whatever transactions end under them.
THEOREM OutboxCopiesNeedFaults == Spec => []CopiesNeedFaults
<1>1. Init => CopiesInv
  BY InvInit, CopiesInit DEF CopiesInv
<1>2. CopiesInv => CopiesNeedFaults
  <2> SUFFICES ASSUME CopiesInv, NEW e \in Requests PROVE Copies(e) <= 1 + faults
    BY DEF CopiesNeedFaults
  <2>1. Charged(e) /\ faults \in Nat /\ Copies(e) \in Nat
    BY CopiesAreCounted DEF CopiesInv, CopiesCharged, IInv, TypeOK
  <2>2. Cardinality(Sending(e)) \in Nat /\ Chance(e) \in Nat
    BY <2>1, FS_CardinalityType DEF Charged, Chance
  <2> QED BY <2>1, <2>2 DEF Charged
<1> QED BY <1>1, <1>2, CopiesStep, PTL DEF Spec

-----------------------------------------------------------------------------
(* The order of publishing.                                                *)
(*                                                                         *)
(* One worker keeps it: what was answered before a request began has an    *)
(* earlier created_at, a poll of an idle outbox misses no earlier row that *)
(* Kafka does not have, and the batch is sent earliest first.  Two workers *)
(* send their batches side by side, so the hypothesis cannot be dropped.   *)

OneWorker == \A v, w \in OutboxWorkers : v = w

\* Whether stamp[r] is the created_at of the row that r makes, or made.
Stamped(r) == ~ClientStamps \/ row[r] # "none"

\* An event that was answered before a request began is stored, with an earlier
\* stamp than the request's row has, at its beginning or from its insert on.
BeforeIsEarlier ==
    \A r \in Requests :
        /\ stamp[r] <= clock
        /\ pc[r] = "start" => before[r] = {}
        /\ \A e \in before[r] : e \in Stored /\ (Stamped(r) => stamp[e] < stamp[r])

\* What should come before an event of a batch is in the batch or in Kafka.
BatchInOrder ==
    \A w \in OutboxWorkers : \A f \in worker[w].todo :
        before[f] \subseteq worker[w].todo \cup Sent

OrderInv == CopiesInv /\ BeforeIsEarlier /\ BatchInOrder /\ PublishOrderKept

LEMMA EarlierStep ==
    ApiInv /\ BeforeIsEarlier /\ [ApiNext]_apiVars => BeforeIsEarlier'
<1> SUFFICES ASSUME ApiInv, BeforeIsEarlier, [ApiNext]_apiVars PROVE BeforeIsEarlier'
  OBVIOUS
<1> USE DEF ApiInv, ApiTypeOK
<1>0. /\ \A e \in AnsweredEvents : e \in Stored /\ stamp[e] <= clock
      /\ Stored \subseteq Requests
  BY InvAcceptedIsStored DEF AcceptedIsStored, AnsweredEvents, BeforeIsEarlier, Stored
<1>1. ASSUME NEW r \in Requests, Tick(r) PROVE \A q \in Requests : stamp'[q] <= clock'
  BY <1>1 DEF Tick, BeforeIsEarlier
<1>2. ASSUME NEW r \in Requests, Begin(r) PROVE BeforeIsEarlier'
  <2>1. /\ before' = [before EXCEPT ![r] = AnsweredEvents]
        /\ row' = row /\ pc[r] = "start"
        /\ \A q \in Requests \ {r} : pc'[q] = pc[q]
        /\ pc'[r] # "start"
    BY <1>2 DEF Begin
  <2>2. row[r] = "none" /\ r \notin Stored /\ Stored' = Stored
    BY <2>1 DEF RowFollowsHandler, Stored
  <2>3. /\ \A q \in Requests \ {r} : stamp'[q] = stamp[q]
        /\ ~ClientStamps => stamp'[r] = clock + 1
        /\ \A q \in Requests : stamp'[q] <= clock'
    BY <1>1, <1>2 DEF Begin, Tick, BeforeIsEarlier
  <2>4. ASSUME NEW q \in Requests, q # r, NEW e \in before'[q]
        PROVE  e \in Stored' /\ (Stamped(q)' => stamp'[e] < stamp'[q])
    BY <2>1, <2>2, <2>3, <2>4 DEF BeforeIsEarlier, Stamped, Stored
  <2>5. ASSUME NEW e \in before'[r]
        PROVE  e \in Stored' /\ (Stamped(r)' => stamp'[e] < stamp'[r])
    <3>1. e \in Stored /\ stamp[e] <= clock /\ e # r /\ e \in Requests
      BY <1>0, <2>1, <2>2, <2>5
    <3>2. stamp[e] \in Nat /\ stamp'[e] = stamp[e] /\ (Stamped(r)' => ~ClientStamps)
      BY <2>1, <2>2, <2>3, <3>1 DEF Stamped
    <3> QED BY <2>2, <2>3, <3>1, <3>2
  <2> QED BY <2>1, <2>3, <2>4, <2>5 DEF BeforeIsEarlier
<1>3. ASSUME NEW r \in Requests, Handle(r), ~Begin(r) PROVE BeforeIsEarlier'
  <2>1. /\ UNCHANGED before
        /\ \A q \in Requests : pc'[q] = "start" => pc[q] = "start"
        /\ \A q \in Requests \ {r} : row'[q] = row[q]
    BY <1>3 DEF Handle, LookupKey, Insert, InsertConflict, Commit, Abort
  <2>2. Stored \subseteq Stored' /\ \A e \in Stored : stamp'[e] = stamp[e]
    BY <1>3, ApiKeepsStored DEF ApiNext
  <2>3. CASE Insert(r) /\ ClientStamps
    <3>1. Tick(r)
      BY <2>3 DEF Insert
    <3>2. ASSUME NEW q \in Requests, NEW e \in before'[q]
          PROVE  e \in Stored' /\ (Stamped(q)' => stamp'[e] < stamp'[q])
      <4>1. e \in Stored /\ e \in Requests /\ stamp'[e] = stamp[e] /\ stamp[e] <= clock
        BY <1>0, <2>1, <2>2, <3>2 DEF BeforeIsEarlier
      <4>2. CASE q = r
        BY <2>2, <3>1, <4>1, <4>2 DEF Tick
      <4>3. CASE q # r
        <5>1. stamp'[q] = stamp[q] /\ (Stamped(q)' => Stamped(q))
          BY <2>1, <3>1, <4>3 DEF Tick, Stamped
        <5> QED BY <2>1, <2>2, <3>2, <4>1, <5>1 DEF BeforeIsEarlier
      <4> QED BY <4>2, <4>3
    <3> QED BY <1>1, <2>1, <3>1, <3>2 DEF BeforeIsEarlier
  <2>4. CASE ~(Insert(r) /\ ClientStamps)
    <3>1. UNCHANGED <<stamp, clock>>
      BY <1>3, <2>4 DEF Handle, LookupKey, Insert, InsertConflict, Commit, Abort
    <3>2. \A q \in Requests : Stamped(q)' => Stamped(q)
      BY <1>3, <2>1, <2>4
      DEF Handle, LookupKey, Insert, InsertConflict, Commit, Abort, Stamped, RowFollowsHandler
    <3> QED BY <2>1, <2>2, <3>1, <3>2 DEF BeforeIsEarlier
  <2> QED BY <2>3, <2>4
<1>4. CASE DeleteTopic \/ UNCHANGED apiVars
  BY <1>4 DEF DeleteTopic, apiVars, BeforeIsEarlier, Stamped, Stored
<1> QED BY <1>2, <1>3, <1>4 DEF ApiNext

\* A request that begins has no row yet, so no batch and no log entry.
LEMMA ApiKeepsBefore ==
    ASSUME ApiInv, ApiNext
    PROVE  \A e \in Stored : before'[e] = before[e]
<1> USE DEF ApiInv, ApiTypeOK
<1>1. ASSUME NEW r \in Requests, Begin(r) PROVE \A e \in Stored : before'[e] = before[e]
  BY <1>1 DEF Begin, RowFollowsHandler, Stored
<1> QED
  BY <1>1 DEF ApiNext, Handle, LookupKey, Insert, InsertConflict, Commit, Abort,
              DeleteTopic

LEMMA ApiKeepsOrder ==
    ASSUME OrderInv, ApiNext \/ UNCHANGED apiVars, UNCHANGED outboxVars
    PROVE  BeforeIsEarlier' /\ BatchInOrder' /\ PublishOrderKept'
<1>1. /\ IInv /\ ApiInv /\ BeforeIsEarlier
      /\ worker' = worker /\ log' = log /\ Sent' = Sent
  BY DEF OrderInv, CopiesInv, IInv, outboxVars, Sent
<1>2. \A e \in Stored : before'[e] = before[e]
  BY <1>1, ApiKeepsBefore DEF apiVars
<1>3. BeforeIsEarlier'
  BY <1>1, EarlierStep
<1>4. BatchInOrder'
  BY <1>1, <1>2 DEF OrderInv, CopiesInv, BatchInOrder, IInv, BatchesAreReal, BatchIsReal
<1>5. PublishOrderKept'
  <2>1. \A i \in DOMAIN log : log[i] \in Stored
    BY <1>1 DEF IInv, PublishedWasSent, Sent
  <2> QED BY <1>1, <1>2, <2>1 DEF OrderInv, PublishOrderKept
<1> QED BY <1>3, <1>4, <1>5

\* A worker's step leaves the requests alone.
LEMMA WorkerKeepsEarlier ==
    ASSUME OrderInv, UNCHANGED apiVars
    PROVE  BeforeIsEarlier' /\ before' = before /\ Stored' = Stored
  BY DEF OrderInv, BeforeIsEarlier, Stamped, apiVars, Stored

\* ORDER BY created_at LIMIT n: a batch has every row that is earlier than one
\* of its rows and is not in Kafka.
LEMMA PollInOrder ==
    ASSUME OneWorker, OrderInv, NEW w \in OutboxWorkers, Poll(w), UNCHANGED apiVars
    PROVE  BatchInOrder'
<1>1. /\ TypeOK /\ PublishedWasSent /\ WorkersInOrder /\ BeforeIsEarlier
      /\ worker[w].pc = "idle" /\ log' = log
      /\ \A v \in OutboxWorkers : v = w
      /\ worker'[w].todo = Batch
  BY DEF OrderInv, CopiesInv, IInv, Poll, OneWorker, TypeOK
<1>2. Locked = {}
  BY <1>1, LockedBy DEF WorkersInOrder, Idle
<1>3. ASSUME NEW f \in Batch, NEW e \in before[f] PROVE e \in Batch \cup Sent
  <2> DEFINE Earlier(x) == {g \in Selectable : stamp[g] < stamp[x]}
  <2>1. f \in Requests /\ f \in Selectable /\ Stamped(f)
    BY DEF Batch, Selectable, Stored, Stamped
  <2>2. e \in Stored /\ stamp[e] < stamp[f]
    BY <1>1, <2>1 DEF BeforeIsEarlier
  <2>3. CASE e \in published
    BY <1>1, <2>3 DEF PublishedWasSent
  <2>4. CASE e \notin published
    <3>1. e \in Selectable
      BY <1>2, <2>2, <2>4 DEF Selectable
    <3>2. \A g \in Selectable : stamp[g] \in Nat
      BY <1>1 DEF Selectable, Stored, TypeOK, ApiTypeOK
    <3>3. Earlier(e) \in SUBSET Earlier(f)
      BY <2>1, <2>2, <3>1, <3>2
    <3>4. IsFiniteSet(Earlier(f)) /\ IsFiniteSet(Earlier(e))
      <4>1. Earlier(f) \in SUBSET Requests /\ Earlier(e) \in SUBSET Requests
        BY DEF Selectable, Stored
      <4> QED BY <4>1, ApiAssumption, FS_Subset
    <3>5. Cardinality(Earlier(f)) < BATCH_SIZE
      BY DEF Batch
    <3>6. /\ Cardinality(Earlier(e)) <= Cardinality(Earlier(f))
          /\ Cardinality(Earlier(e)) \in Nat /\ Cardinality(Earlier(f)) \in Nat
      BY <3>3, <3>4, FS_Subset, FS_CardinalityType
    <3>7. Cardinality(Earlier(e)) < BATCH_SIZE
      BY <3>5, <3>6, OutboxAssumption
    <3> QED BY <3>1, <3>7 DEF Batch
  <2> QED BY <2>3, <2>4
<1>4. Sent' = Sent /\ before' = before
  BY <1>1, WorkerKeepsEarlier DEF Sent
<1> QED BY <1>1, <1>3, <1>4 DEF BatchInOrder

LEMMA FirstIsEarliest ==
    ASSUME stamp \in [Requests -> Nat], NEW S, S \subseteq Requests, NEW f \in S
    PROVE  stamp[First(S)] <= stamp[f]
<1>1. \E e \in S : \A g \in S : stamp[e] <= stamp[g]
  BY EarliestExists
<1> QED BY <1>1 DEF First

\* The earliest event of the batch goes first, so what comes before it is sent.
LEMMA AppendInOrder ==
    ASSUME OrderInv, UNCHANGED apiVars, NEW w \in OutboxWorkers,
           worker[w].pc = "send", log' = Append(log, First(worker[w].todo))
    PROVE  PublishOrderKept'
<1> DEFINE x == First(worker[w].todo)
           n == Len(log) + 1
<1>1. TypeOK /\ BatchIsReal(w) /\ before' = before
  BY WorkerKeepsEarlier DEF OrderInv, CopiesInv, IInv, BatchesAreReal
<1>2. /\ x \in worker[w].todo /\ x \in Requests /\ worker[w].todo \subseteq Requests
      /\ Stamped(x)
  BY <1>1, FirstOfBatch DEF BatchIsReal, TypeOK, ApiTypeOK, Stored, Stamped
<1>3. \A f \in worker[w].todo : stamp[x] <= stamp[f]
  BY <1>1, <1>2, FirstIsEarliest DEF TypeOK, ApiTypeOK
<1> HIDE DEF x
<1>4. before[x] \subseteq Sent
  <2>1. before[x] \subseteq worker[w].todo \cup Sent
    BY <1>2 DEF OrderInv, BatchInOrder
  <2>2. \A e \in before[x] : e \in Requests /\ stamp[e] < stamp[x]
    BY <1>2 DEF OrderInv, BeforeIsEarlier, Stored
  <2>3. \A e \in Requests : stamp[e] \in Nat
    BY <1>1 DEF TypeOK, ApiTypeOK
  <2> QED BY <1>2, <1>3, <2>1, <2>2, <2>3
<1>5. /\ log \in Seq(Requests) /\ log' = Append(log, x)
      /\ DOMAIN log = 1..Len(log) /\ DOMAIN log' = 1..n /\ Len(log) \in Nat
  <2>1. log \in Seq(Requests) /\ log' = Append(log, x)
    BY <1>1 DEF TypeOK, x
  <2> QED BY <1>2, <2>1
<1>6. (\A i \in 1..Len(log) : log'[i] = log[i]) /\ log'[n] = x
  BY <1>2, <1>5
<1>7. ASSUME NEW i \in DOMAIN log', NEW e \in before'[log'[i]]
      PROVE  \E j \in 1..(i - 1) : log'[j] = e
  <2>1. CASE i \in 1..Len(log)
    <3>1. e \in before[log[i]] /\ i \in DOMAIN log
      BY <1>1, <1>5, <1>6, <1>7, <2>1
    <3>2. PICK j \in 1..(i - 1) : log[j] = e
      BY <3>1 DEF OrderInv, PublishOrderKept
    <3>3. j \in 1..Len(log)
      BY <1>5, <2>1
    <3> QED BY <1>6, <3>2, <3>3
  <2>2. CASE i = n
    <3>1. e \in Sent
      BY <1>1, <1>4, <1>6, <1>7, <2>2
    <3>2. PICK j \in 1..Len(log) : log[j] = e
      BY <1>5, <3>1 DEF Sent
    <3> QED BY <1>5, <1>6, <2>2, <3>2
  <2> QED BY <1>5, <2>1, <2>2
<1> QED BY <1>7 DEF PublishOrderKept

LEMMA WorkerKeepsOrder ==
    ASSUME OneWorker, OrderInv, NEW w \in OutboxWorkers,
           OutboxStep(w) \/ OutboxFault(w), UNCHANGED apiVars
    PROVE  BatchInOrder' /\ PublishOrderKept'
<1>1. TypeOK /\ BatchIsReal(w) /\ before' = before
  BY WorkerKeepsEarlier DEF OrderInv, CopiesInv, IInv, BatchesAreReal
<1>2. CASE Send(w) \/ SendUnacknowledged(w)
  <2>1. /\ worker[w].pc = "send" /\ log' = Append(log, First(worker[w].todo))
        /\ \A v \in OutboxWorkers : worker'[v].todo = worker[v].todo
    BY <1>1, <1>2 DEF Send, SendUnacknowledged, TypeOK, WorkerType
  <2>2. Sent' = Sent \cup {First(worker[w].todo)}
    BY <2>1, AppendStep, <1>2 DEF OrderInv, CopiesInv, Send, SendUnacknowledged
  <2>3. BatchInOrder'
    BY <1>1, <2>1, <2>2 DEF OrderInv, BatchInOrder
  <2> QED BY <2>1, <2>3, AppendInOrder
<1>3. CASE ~(Send(w) \/ SendUnacknowledged(w))
  <2>1. log' = log /\ Sent' = Sent
    BY <1>3 DEF OutboxStep, OutboxFault, Poll, Mark, CommitBatch, TransactionGone,
                Timeout, Fail, Sent
  <2>2. PublishOrderKept'
    BY <1>1, <2>1 DEF OrderInv, PublishOrderKept
  <2>3. CASE Mark(w)
    <3>1. /\ \A v \in OutboxWorkers \ {w} : worker'[v] = worker[v]
          /\ worker'[w].todo = worker[w].todo \ {First(worker[w].todo)}
          /\ First(worker[w].todo) \in Sent
      BY <1>1, <2>3 DEF Mark, TypeOK, BatchIsReal
    <3>2. BatchInOrder'
      BY <1>1, <2>1, <3>1 DEF OrderInv, BatchInOrder
    <3> QED BY <2>2, <3>2
  <2>4. CASE CommitBatch(w) \/ TransactionGone(w) \/ Timeout(w) \/ Fail(w)
    <3>1. \A v \in OutboxWorkers : worker'[v].todo \in {worker[v].todo, {}}
      BY <1>1, <2>4 DEF CommitBatch, TransactionGone, Timeout, Fail, TypeOK, WorkerType, Idle
    <3>2. BatchInOrder'
      BY <1>1, <2>1, <3>1 DEF OrderInv, BatchInOrder
    <3> QED BY <2>2, <3>2
  <2> QED BY <1>3, <2>2, <2>3, <2>4, PollInOrder DEF OutboxStep, OutboxFault
<1> QED BY <1>2, <1>3

LEMMA OrderStep == OneWorker /\ OrderInv /\ [Next]_vars => OrderInv'
<1> SUFFICES ASSUME OneWorker, OrderInv, [Next]_vars PROVE OrderInv'
  OBVIOUS
<1>1. CopiesInv'
  BY CopiesStep DEF OrderInv
<1>2. CASE (ApiNext /\ UNCHANGED outboxVars) \/ UNCHANGED vars
  BY <1>1, <1>2, ApiKeepsOrder DEF OrderInv, vars
<1>3. ASSUME NEW w \in OutboxWorkers, OutboxStep(w) \/ OutboxFault(w), UNCHANGED apiVars
      PROVE  OrderInv'
  BY <1>1, <1>3, WorkerKeepsEarlier, WorkerKeepsOrder DEF OrderInv
<1> QED BY <1>2, <1>3 DEF Next

\* A single outbox worker keeps the order in which events were published,
\* through every failure, retry and timeout: no event overtakes one that was
\* answered before its request began.
THEOREM OutboxPublishOrderKept == OneWorker /\ Spec => []PublishOrderKept
<1>1. Init => OrderInv
  <2> SUFFICES ASSUME Init PROVE OrderInv
    OBVIOUS
  <2>1. CopiesInv
    BY InvInit, CopiesInit DEF CopiesInv
  <2>2. BeforeIsEarlier
    BY DEF Init, ApiInit, BeforeIsEarlier
  <2>3. BatchInOrder /\ PublishOrderKept
    BY DEF Init, OutboxInit, Idle, BatchInOrder, PublishOrderKept
  <2> QED BY <2>1, <2>2, <2>3 DEF OrderInv
<1>2. OrderInv => PublishOrderKept
  BY DEF OrderInv
<1>3. OneWorker /\ OrderInv /\ [Next]_vars => OrderInv'
  BY OrderStep
<1> SUFFICES ASSUME OneWorker PROVE Spec => []PublishOrderKept
  OBVIOUS
<1>4. OrderInv /\ [Next]_vars => OrderInv'
  BY <1>3
<1> QED BY <1>1, <1>2, <1>4, PTL DEF Spec
=============================================================================
