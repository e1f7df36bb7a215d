--------------------------- MODULE DeliveryProofs ---------------------------
(***************************************************************************)
(* Theorems about Delivery, for any events, subscriptions, workers, slots, *)
(* schedule, builds and number of failures: history is final, the group's  *)
(* offset never goes back, and when the group starts at the beginning of   *)
(* the partition it never passes a message that some steadily enabled      *)
(* subscription was not served.                                            *)
(*                                                                         *)
(* The argument: a row is written by the one actor that holds it, so what  *)
(* is resolved stays; the worker's loop leaves a subscription out of its   *)
(* todo only after a success or a queued retry is on record; and only the  *)
(* member at the committed offset can move that offset, by one.            *)
(***************************************************************************)
EXTENDS DeliveryTypes

-----------------------------------------------------------------------------
(* What no step takes away.                                                *)

HistoryKept ==
    \A a \in DOMAIN attempts :
        /\ a \in DOMAIN attempts'
        /\ attempts'[a].event = attempts[a].event
        /\ attempts'[a].sub = attempts[a].sub
        /\ attempts'[a].number = attempts[a].number
        /\ attempts[a].status # "pending" => attempts'[a] = attempts[a]

JobsKept ==
    \A j \in DOMAIN jobs :
        /\ j \in DOMAIN jobs'
        /\ jobs'[j].event = jobs[j].event
        /\ jobs'[j].sub = jobs[j].sub
        /\ jobs'[j].number = jobs[j].number

LogKept == /\ Len(log) <= Len(log')
           /\ \A i \in 1..Len(log) : log'[i] = log[i]

Kept == HistoryKept /\ JobsKept /\ LogKept /\ steady' \subseteq steady

\* A row is pending while an actor holds it, and only one actor does.
Holds(c) == con[c].pc \in {"deliver", "resolve"}

SlotHolds(k) == slot[k].pc \in {"deliver", "resolve"}

ManualHolds(m) == manual[m].pc \in {"deliver", "resolve"}

HeldPending ==
    /\ \A c \in Consumers : Holds(c) => attempts[con[c].attempt].status = "pending"
    /\ \A k \in Slots : SlotHolds(k) => attempts[slot[k].attempt].status = "pending"
    /\ \A m \in ManualRetries :
         ManualHolds(m) => attempts[manual[m].attempt].status = "pending"

HeldOnce ==
    /\ \A c, d \in Consumers :
         Holds(c) /\ Holds(d) /\ con[c].attempt = con[d].attempt => c = d
    /\ \A k, i \in Slots :
         SlotHolds(k) /\ SlotHolds(i) /\ slot[k].attempt = slot[i].attempt => k = i
    /\ \A m, n \in ManualRetries :
         ManualHolds(m) /\ ManualHolds(n) /\ manual[m].attempt = manual[n].attempt => m = n
    /\ \A c \in Consumers, k \in Slots :
         Holds(c) /\ SlotHolds(k) => con[c].attempt # slot[k].attempt
    /\ \A c \in Consumers, m \in ManualRetries :
         Holds(c) /\ ManualHolds(m) => con[c].attempt # manual[m].attempt
    /\ \A k \in Slots, m \in ManualRetries :
         SlotHolds(k) /\ ManualHolds(m) => slot[k].attempt # manual[m].attempt

HInv == TInv /\ HeldPending /\ HeldOnce

-----------------------------------------------------------------------------
LEMMA NothingChanged ==
    ASSUME TInv, UNCHANGED <<attempts, jobs, log>>, steady' \subseteq steady
    PROVE  Kept
<1>1. Len(log) \in Nat
  BY DEF TInv, TypeOK, ConsumersTypeOK
<1> QED BY <1>1 DEF Kept, HistoryKept, JobsKept, LogKept

LEMMA CreateKeeps ==
    ASSUME TInv, NEW e \in Events, NEW s \in Subs, NEW n \in Nat,
           createPendingAttempt(e, s, n), UNCHANGED <<jobs, log, steady>>
    PROVE  Kept
<1>1. \A a \in DOMAIN attempts : a \in DOMAIN attempts' /\ attempts'[a] = attempts[a]
  BY AttemptCreated DEF TInv, TypeOK, TablesTypeOK
<1>2. Len(log) \in Nat
  BY DEF TInv, TypeOK, ConsumersTypeOK
<1> QED BY <1>1, <1>2 DEF Kept, HistoryKept, JobsKept, LogKept

LEMMA CreatedIsNew ==
    ASSUME TInv, NEW e \in Events, NEW s \in Subs, NEW n \in Nat,
           createPendingAttempt(e, s, n)
    PROVE  /\ NewAttempt \notin DOMAIN attempts
           /\ \A a \in DOMAIN attempts : attempts'[a] = attempts[a]
           /\ attempts'[NewAttempt].event = e
           /\ attempts'[NewAttempt].sub = s
           /\ attempts'[NewAttempt].number = n
           /\ attempts'[NewAttempt].status = "pending"
<1>1. /\ NewAttempt \notin DOMAIN attempts
      /\ \A a \in DOMAIN attempts : attempts'[a] = attempts[a]
      /\ attempts'[NewAttempt] = [event |-> e, sub |-> s, number |-> n,
                                  status |-> "pending", delay |-> NoDelay]
  BY AttemptCreated DEF TInv, TypeOK, TablesTypeOK
<1> QED BY <1>1

LEMMA ResolveKeeps ==
    ASSUME TInv, NEW a \in DOMAIN attempts, attempts[a].status = "pending",
           NEW status \in {"success", "failed", "dead_lettered"}, NEW delay \in Nat,
           attempts' = [attempts EXCEPT ![a].status = status, ![a].delay = delay],
           UNCHANGED <<jobs, log, steady>>
    PROVE  /\ Kept
           /\ attempts'[a].status = status
           /\ \A b \in DOMAIN attempts : b # a => attempts'[b] = attempts[b]
<1>1. /\ DOMAIN attempts' = DOMAIN attempts
      /\ \A b \in DOMAIN attempts : b # a => attempts'[b] = attempts[b]
      /\ attempts'[a] = [attempts[a] EXCEPT !.status = status, !.delay = delay]
  BY AttemptUpdated DEF TInv, TypeOK, TablesTypeOK
<1>2. attempts[a] \in AttemptType
  BY EntryTyped DEF TInv, TypeOK, TablesTypeOK
<1>3. /\ attempts'[a].event = attempts[a].event
      /\ attempts'[a].sub = attempts[a].sub
      /\ attempts'[a].number = attempts[a].number
      /\ attempts'[a].status = status
  BY <1>1, <1>2 DEF AttemptType
<1>4. Len(log) \in Nat
  BY DEF TInv, TypeOK, ConsumersTypeOK
<1> QED BY <1>1, <1>3, <1>4 DEF Kept, HistoryKept, JobsKept, LogKept

LEMMA JobAddKeeps ==
    ASSUME TInv, NEW e \in Events, NEW s \in Subs, NEW n \in Nat, NEW delay \in Nat,
           TakesEffect(e, s, n, delay), UNCHANGED <<attempts, log, steady>>
    PROVE  Kept /\ RetryAdded(e, s, n)'
<1>0. jobs \in Seq(JobType)
  BY DEF TInv, TypeOK, TablesTypeOK
<1>1. /\ DOMAIN jobs \subseteq DOMAIN jobs'
      /\ \A j \in DOMAIN jobs : jobs'[j] = jobs[j]
      /\ \E j \in DOMAIN jobs' : jobs'[j].event = e /\ jobs'[j].sub = s
                                 /\ jobs'[j].number = n
  BY <1>0, JobAdded
<1>2. Len(log) \in Nat
  BY DEF TInv, TypeOK, ConsumersTypeOK
<1> QED BY <1>1, <1>2 DEF Kept, HistoryKept, JobsKept, LogKept, RetryAdded

LEMMA FinishKeeps ==
    ASSUME TInv, NEW j \in DOMAIN jobs,
           NEW state \in {"waiting", "active", "completed", "failed"},
           MoveJob(j, state) \/ UNCHANGED jobs, UNCHANGED <<attempts, log, steady>>
    PROVE  Kept
<1>1. /\ DOMAIN jobs' = DOMAIN jobs
      /\ \A i \in DOMAIN jobs : /\ jobs'[i].event = jobs[i].event
                                /\ jobs'[i].sub = jobs[i].sub
                                /\ jobs'[i].number = jobs[i].number
  BY JobUpdated, 0 \in Nat DEF MoveJob, TInv, TypeOK, TablesTypeOK
<1>2. Len(log) \in Nat
  BY DEF TInv, TypeOK, ConsumersTypeOK
<1> QED BY <1>1, <1>2 DEF Kept, HistoryKept, JobsKept, LogKept

\* An outcome on record stays on record.
LEMMA DeliveredStays ==
    ASSUME Kept
    PROVE  \A e, s : Delivered(e, s) => Delivered(e, s)'
<1>1. ASSUME NEW e, NEW s, Attempted(e, s, 1, "success")
      PROVE  Attempted(e, s, 1, "success")'
  BY <1>1 DEF Attempted, Kept, HistoryKept
<1>2. ASSUME NEW e, NEW s, RetryAdded(e, s, 2) PROVE RetryAdded(e, s, 2)'
  BY <1>2 DEF RetryAdded, Kept, JobsKept
<1> QED BY <1>1, <1>2 DEF Delivered

-----------------------------------------------------------------------------
(* Every step keeps what is on record.                                     *)

LEMMA ConsumerKeeps ==
    ASSUME HInv, NEW c \in Consumers, ConsumerStep(c) \/ ConsumerFault(c),
           UNCHANGED <<retryVars, requestVars>>
    PROVE  Kept
<1>0. TInv /\ ConOK(con[c])
  BY ConTyped DEF HInv
<1>1. CASE CreateFirst(c)
  <2>1. PICK s \in con[c].todo : createPendingAttempt(Event(c), s, 1)
    BY <1>1 DEF CreateFirst
  <2>2. Event(c) \in Events /\ s \in Subs
    BY <1>0, <1>1
    DEF CreateFirst, At, ConOK, ConsumerType, Event, TInv, TypeOK, ConsumersTypeOK
  <2> QED BY <1>0, <1>1, <2>1, <2>2, CreateKeeps DEF CreateFirst
<1>2. CASE ResolveFirst(c)
  <2>1. /\ Attempt(c) \in DOMAIN attempts
        /\ attempts[Attempt(c)].status = "pending"
    BY <1>0, <1>2 DEF ResolveFirst, At, ConOK, InHand, Attempt, HInv, HeldPending, Holds
  <2>2. PICK status \in {"success", "failed"}, delay \in Nat :
            attempts' = [attempts EXCEPT ![Attempt(c)].status = status,
                                         ![Attempt(c)].delay = delay]
    BY <1>2, DelayType DEF ResolveFirst, resolveAttempt, FirstDelay, NoDelay
  <2> QED BY <1>0, <1>2, <2>1, <2>2, ResolveKeeps DEF ResolveFirst
<1>3. CASE ScheduleRetry(c) \/ ScheduleUnanswered(c)
  <2>1. con[c].pc \in InHand /\ Event(c) \in Events
    BY <1>0, <1>3
    DEF ScheduleRetry, ScheduleUnanswered, At, InHand, ConOK, ConsumerType, Event, TInv,
        TypeOK, ConsumersTypeOK
  <2>2. attempts[Attempt(c)] \in AttemptType
    BY <1>0, <2>1, EntryTyped DEF ConOK, Attempt, TInv, TypeOK, TablesTypeOK
  <2>3. attempts[Attempt(c)].sub \in Subs
    BY <2>2 DEF AttemptType
  <2>4. TakesEffect(Event(c), attempts[Attempt(c)].sub, 2, computeRetryDelay(1))
    BY <1>3 DEF ScheduleRetry, ScheduleUnanswered, TakesEffect
  <2>5. UNCHANGED <<attempts, log, steady>>
    BY <1>3 DEF ScheduleRetry, ScheduleUnanswered, consumerVars
  <2> QED BY <1>0, <2>1, <2>3, <2>4, <2>5, DelayType, JobAddKeeps
<1>4. CASE ~(CreateFirst(c) \/ ResolveFirst(c) \/ ScheduleRetry(c) \/ ScheduleUnanswered(c))
  <2>1. UNCHANGED <<attempts, jobs, log, steady>>
    BY <1>4
    DEF ConsumerStep, ConsumerFault, Join, Fetch, LoadSubscriptions, CreateRefused,
        Deliver, IndexFirst, CommitOffset, Fenced, Throw, CommitThrows, Crash, Evict,
        tableVars
  <2> QED BY <1>0, <2>1, NothingChanged
<1> QED BY <1>1, <1>2, <1>3, <1>4

LEMMA ProduceKeeps ==
    ASSUME TInv, Produce
    PROVE  Kept
<1>1. PICK e \in Events : log' = Append(log, e)
  BY DEF Produce
<1>2. log \in Seq(Events)
  BY DEF TInv, TypeOK, ConsumersTypeOK
<1>3. LogKept
  BY <1>1, <1>2 DEF LogKept
<1> QED BY <1>3 DEF Produce, tableVars, Kept, HistoryKept, JobsKept

LEMMA TablesKeep ==
    ASSUME TInv, TablesNext, UNCHANGED <<consumerVars, retryVars, requestVars>>
    PROVE  Kept
  BY NothingChanged
  DEF TablesNext, createSubscription, updateSubscription, deleteSubscription, consumerVars

LEMMA RetryKeeps ==
    ASSUME HInv, RetryNext, UNCHANGED <<consumerVars, build, requestVars>>
    PROVE  Kept
<1>0. TInv /\ log' = log
  BY DEF HInv, consumerVars
<1>1. ASSUME NEW k \in Slots,
             SlotStep(k) \/ AgainUnanswered(k) \/ RetryThrow(k) \/ LoseLock(k)
      PROVE  Kept
  <2>0. SlotOK(slot[k])
    BY <1>0, SlotTyped
  <2>1. CASE Take(k)
    BY <1>0, <2>1, FinishKeeps DEF Take
  <2>2. CASE CreateNext(k)
    <3>1. /\ JobOf(k).event \in Events /\ JobOf(k).sub \in Subs
          /\ JobOf(k).number \in Nat
      BY <1>0, <2>2, SlotTyped DEF CreateNext, SlotAt
    <3> QED BY <1>0, <2>2, <3>1, CreateKeeps DEF CreateNext
  <2>3. CASE ResolveNext(k)
    <3>1. /\ slot[k].attempt \in DOMAIN attempts
          /\ attempts[slot[k].attempt].status = "pending"
      BY <2>0, <2>3 DEF ResolveNext, SlotAt, SlotOK, HInv, HeldPending, SlotHolds
    <3>2. PICK status \in {"success", "failed", "dead_lettered"}, delay \in Nat :
              attempts' = [attempts EXCEPT ![slot[k].attempt].status = status,
                                           ![slot[k].attempt].delay = delay]
      <4>1. NoDelay \in Nat /\ computeRetryDelay(JobOf(k).number) \in Nat
        BY DelayType DEF NoDelay
      <4> QED BY <2>3, <4>1 DEF ResolveNext, resolveAttempt, deadLetterAttempt
    <3> QED BY <1>0, <2>3, <3>1, <3>2, ResolveKeeps DEF ResolveNext
  <2>4. CASE RetryAgain(k) \/ AgainUnanswered(k)
    <3>1. /\ JobOf(k).event \in Events /\ JobOf(k).sub \in Subs
          /\ JobOf(k).number + 1 \in Nat
      BY <1>0, <2>4, SlotTyped DEF RetryAgain, AgainUnanswered, SlotAt
    <3>2. TakesEffect(JobOf(k).event, JobOf(k).sub, JobOf(k).number + 1,
                      computeRetryDelay(JobOf(k).number))
      BY <2>4 DEF RetryAgain, AgainUnanswered, TakesEffect
    <3>3. UNCHANGED <<attempts, log, steady>>
      BY <1>0, <2>4 DEF RetryAgain, AgainUnanswered
    <3> QED BY <1>0, <3>1, <3>2, <3>3, DelayType, JobAddKeeps
  <2>5. CASE Complete(k) \/ NextRefused(k) \/ IndexUnbound(k) \/ RetryThrow(k)
    <3>1. slot[k].job \in DOMAIN jobs
      BY <2>0, <2>5 DEF Complete, NextRefused, IndexUnbound, RetryThrow, SlotAt, SlotOK
    <3> QED BY <1>0, <2>5, <3>1, FinishKeeps
            DEF Complete, NextRefused, IndexUnbound, RetryThrow, JobFails, FinishJob
  <2>6. CASE Load(k) \/ Redeliver(k) \/ IndexNext(k) \/ Bury(k) \/ LoseLock(k)
    BY <1>0, <2>6, NothingChanged DEF Load, Redeliver, IndexNext, Bury, LoseLock, tableVars
  <2> QED BY <1>1, <2>1, <2>2, <2>3, <2>4, <2>5, <2>6 DEF SlotStep
<1>2. CASE RetryCrash
  BY <1>0, <1>2, NothingChanged DEF RetryCrash, tableVars
<1>3. CASE Stalled
  <2>1. PICK j \in DOMAIN jobs :
            jobs' = [jobs EXCEPT
                      ![j].state = IF jobs[j].stalls < 1 THEN "waiting" ELSE "failed",
                      ![j].stalls = @ + 1]
    BY <1>3 DEF Stalled
  <2>2. jobs \in Seq(JobType)
    BY <1>0 DEF TInv, TypeOK, TablesTypeOK
  <2>3. jobs[j] \in JobType
    BY <2>2, EntryTyped
  <2>4. jobs[j].stalls + 1 \in Nat
    BY <2>3 DEF JobType
  <2>5. PICK state \in {"waiting", "failed"}, stalls \in Nat :
            jobs' = [jobs EXCEPT ![j].state = state, ![j].stalls = stalls]
    BY <2>1, <2>4
  <2>6. JobsKept
    BY <2>2, <2>5, JobUpdated DEF JobsKept
  <2>7. Len(log) \in Nat
    BY <1>0 DEF TInv, TypeOK, ConsumersTypeOK
  <2> QED BY <1>0, <1>3, <2>6, <2>7 DEF Stalled, Kept, HistoryKept, LogKept
<1> QED BY <1>1, <1>2, <1>3 DEF RetryNext

LEMMA RequestsKeep ==
    ASSUME HInv, RedeliveryNext, UNCHANGED <<consumerVars, retryVars>>
    PROVE  Kept
<1>0. TInv /\ log' = log
  BY DEF HInv, consumerVars
<1>1. ASSUME NEW r \in Replays, replaySubscription(r) PROVE Kept
  <2>1. CASE AddBulk(r)
    <3>1. replay[r].bulk \in Seq(JobType) /\ jobs \in Seq(JobType) /\ Len(log) \in Nat
      BY <1>0
      DEF TInv, TypeOK, RedeliveryTypeOK, ReplayType, TablesTypeOK, ConsumersTypeOK
    <3>2. DOMAIN jobs \subseteq DOMAIN jobs' /\ \A j \in DOMAIN jobs : jobs'[j] = jobs[j]
      BY <2>1, <3>1, BulkAdded DEF AddBulk
    <3> QED BY <1>0, <2>1, <3>1, <3>2 DEF AddBulk, Kept, HistoryKept, JobsKept, LogKept
  <2>2. CASE BulkUnanswered(r)
    <3>1. PICK bulk \in Seq(JobType) : jobs' = jobs \o bulk
      BY <1>0, <2>2, UnansweredBulk
      DEF BulkUnanswered, TInv, TypeOK, RedeliveryTypeOK, ReplayType
    <3>2. jobs \in Seq(JobType) /\ Len(log) \in Nat
      BY <1>0 DEF TInv, TypeOK, TablesTypeOK, ConsumersTypeOK
    <3>3. DOMAIN jobs \subseteq DOMAIN jobs' /\ \A j \in DOMAIN jobs : jobs'[j] = jobs[j]
      BY <3>1, <3>2, BulkAdded
    <3> QED BY <1>0, <2>2, <3>2, <3>3
            DEF BulkUnanswered, Kept, HistoryKept, JobsKept, LogKept
  <2>3. CASE ReadEvents(r) \/ ReplayFails(r)
    BY <1>0, <2>3, NothingChanged DEF ReadEvents, ReplayFails, tableVars
  <2> QED BY <1>1, <2>1, <2>2, <2>3 DEF replaySubscription
<1>2. ASSUME NEW m \in ManualRetries, retryDeadLetter(m) PROVE Kept
  <2>0. ManualOK(manual[m])
    BY <1>0, LetterTyped
  <2>1. CASE CreateManual(m)
    <3>1. Letter(m).event \in Events /\ Letter(m).sub \in Subs /\ ManualNumber(m) \in Nat
      BY <1>0, <2>1, LetterTyped DEF CreateManual, ManualNumber
    <3> QED BY <1>0, <2>1, <3>1, CreateKeeps DEF CreateManual
  <2>2. CASE ResolveLetter(m) \/ RecordFailure(m)
    <3>1. /\ manual[m].attempt \in DOMAIN attempts
          /\ attempts[manual[m].attempt].status = "pending"
      BY <2>0, <2>2
      DEF ResolveLetter, RecordFailure, ManualOK, HInv, HeldPending, ManualHolds
    <3>2. PICK status \in {"success", "failed"}, delay \in Nat :
              attempts' = [attempts EXCEPT ![manual[m].attempt].status = status,
                                           ![manual[m].attempt].delay = delay]
      BY <2>2 DEF ResolveLetter, RecordFailure, resolveAttempt, NoDelay
    <3> QED BY <1>0, <2>2, <3>1, <3>2, ResolveKeeps DEF ResolveLetter, RecordFailure
  <2>3. CASE LoadLetter(m) \/ DeliverManual(m) \/ ManualFails(m)
    BY <1>0, <2>3, NothingChanged DEF LoadLetter, DeliverManual, ManualFails, tableVars
  <2> QED BY <1>2, <2>1, <2>2, <2>3 DEF retryDeadLetter
<1> QED BY <1>1, <1>2 DEF RedeliveryNext

LEMMA StepKeeps == HInv /\ [Next]_vars => Kept
<1> SUFFICES ASSUME HInv, [Next]_vars PROVE Kept
  OBVIOUS
<1>1. TInv
  BY DEF HInv
<1>2. CASE UNCHANGED vars
  BY <1>1, <1>2, NothingChanged DEF vars, tableVars, consumerVars
<1> QED BY <1>1, <1>2, ConsumerKeeps, ProduceKeeps, TablesKeep, RetryKeeps, RequestsKeep
        DEF Next, ConsumersNext

-----------------------------------------------------------------------------
(* Every step keeps a held row pending and in one hand.                    *)

\* Nobody holds a row that was not held before, and what is held is pending.
NothingTaken ==
    /\ \A c \in Consumers : Holds(c)' =>
         /\ Holds(c)
         /\ con'[c].attempt = con[c].attempt
         /\ attempts'[con[c].attempt].status = "pending"
    /\ \A k \in Slots : SlotHolds(k)' =>
         /\ SlotHolds(k)
         /\ slot'[k].attempt = slot[k].attempt
         /\ attempts'[slot[k].attempt].status = "pending"
    /\ \A m \in ManualRetries : ManualHolds(m)' =>
         /\ ManualHolds(m)
         /\ manual'[m].attempt = manual[m].attempt
         /\ attempts'[manual[m].attempt].status = "pending"

LEMMA HeldStays ==
    ASSUME HeldPending, HeldOnce, NothingTaken
    PROVE  HeldPending' /\ HeldOnce'
<1>1. HeldPending'
  BY DEF HeldPending, NothingTaken
<1>2. HeldOnce'
  <2>1. \A c, d \in Consumers :
          Holds(c)' /\ Holds(d)' /\ con'[c].attempt = con'[d].attempt => c = d
    BY DEF HeldOnce, NothingTaken
  <2>2. \A k, i \in Slots :
          SlotHolds(k)' /\ SlotHolds(i)' /\ slot'[k].attempt = slot'[i].attempt => k = i
    BY DEF HeldOnce, NothingTaken
  <2>3. \A c \in Consumers, k \in Slots :
          Holds(c)' /\ SlotHolds(k)' => con'[c].attempt # slot'[k].attempt
    BY DEF HeldOnce, NothingTaken
  <2>4. \A m, n \in ManualRetries :
          ManualHolds(m)' /\ ManualHolds(n)' /\ manual'[m].attempt = manual'[n].attempt => m = n
    BY DEF HeldOnce, NothingTaken
  <2>5. \A c \in Consumers, m \in ManualRetries :
          Holds(c)' /\ ManualHolds(m)' => con'[c].attempt # manual'[m].attempt
    BY DEF HeldOnce, NothingTaken
  <2>6. \A k \in Slots, m \in ManualRetries :
          SlotHolds(k)' /\ ManualHolds(m)' => slot'[k].attempt # manual'[m].attempt
    BY DEF HeldOnce, NothingTaken
  <2> QED BY <2>1, <2>2, <2>3, <2>4, <2>5, <2>6 DEF HeldOnce
<1> QED BY <1>1, <1>2

\* A step that writes no attempt, and after which every actor is where it was
\* or holds nothing new.
LEMMA NoWriteHeld ==
    ASSUME HInv, UNCHANGED attempts,
           \A c \in Consumers : Holds(c)' => Holds(c) /\ con'[c].attempt = con[c].attempt,
           \A k \in Slots : SlotHolds(k)' => SlotHolds(k) /\ slot'[k].attempt = slot[k].attempt,
           \A m \in ManualRetries :
                ManualHolds(m)' => ManualHolds(m) /\ manual'[m].attempt = manual[m].attempt
    PROVE  HeldPending' /\ HeldOnce'
<1>1. NothingTaken
  BY DEF NothingTaken, HInv, HeldPending
<1> QED BY <1>1, HeldStays DEF HInv

LEMMA HeldInTable ==
    ASSUME TInv
    PROVE  /\ \A c \in Consumers : Holds(c) => con[c].attempt \in DOMAIN attempts
           /\ \A k \in Slots : SlotHolds(k) => slot[k].attempt \in DOMAIN attempts
           /\ \A m \in ManualRetries : ManualHolds(m) => manual[m].attempt \in DOMAIN attempts
  BY DEF TInv, Pointers, ConOK, SlotOK, ManualOK, Holds, SlotHolds, ManualHolds, InHand

LEMMA ConsumerHeld ==
    ASSUME HInv, NEW c \in Consumers, ConsumerStep(c) \/ ConsumerFault(c),
           UNCHANGED <<retryVars, requestVars>>
    PROVE  HeldPending' /\ HeldOnce'
<1>0. /\ TInv /\ ConOK(con[c]) /\ con \in [Consumers -> ConsumerType]
      /\ slot' = slot /\ manual' = manual
  BY ConTyped DEF HInv, TInv, TypeOK, ConsumersTypeOK, retryVars, requestVars
<1>a. \A d \in Consumers \ {c} : con'[d] = con[d]
  BY <1>0
  DEF ConsumerStep, ConsumerFault, Join, Fetch, LoadSubscriptions, CreateFirst,
      CreateRefused, Deliver, ResolveFirst, IndexFirst, ScheduleRetry,
      ScheduleUnanswered, CommitOffset, Fenced, Throw, CommitThrows, Crash, Evict,
      consumerVars
<1>1. CASE CreateFirst(c)
  <2>1. PICK s \in con[c].todo : createPendingAttempt(Event(c), s, 1)
    BY <1>1 DEF CreateFirst
  <2>2. Event(c) \in Events /\ s \in Subs
    BY <1>0, <1>1
    DEF CreateFirst, At, ConOK, ConsumerType, Event, TInv, TypeOK, ConsumersTypeOK
  <2>3. /\ NewAttempt \notin DOMAIN attempts
        /\ \A a \in DOMAIN attempts : attempts'[a] = attempts[a]
        /\ attempts'[NewAttempt].status = "pending"
    BY <1>0, <2>1, <2>2, CreatedIsNew
  <2>4. con'[c].attempt = NewAttempt /\ con'[c].pc = "deliver" /\ ~Holds(c)
    BY <1>0, <1>1 DEF CreateFirst, At, Holds, ConsumerType
  <2>5. HeldPending'
    BY <1>0, <1>a, <2>3, <2>4, HeldInTable
    DEF HeldPending, HInv, Holds, SlotHolds, ManualHolds
  <2>6. HeldOnce'
    BY <1>0, <1>a, <2>3, <2>4, HeldInTable
    DEF HeldOnce, HInv, Holds, SlotHolds, ManualHolds
  <2> QED BY <2>5, <2>6
<1>2. CASE ResolveFirst(c)
  <2>1. Holds(c) /\ Attempt(c) = con[c].attempt
    BY <1>2 DEF ResolveFirst, At, Holds, Attempt
  <2>2. PICK status, delay :
            attempts' = [attempts EXCEPT ![con[c].attempt].status = status,
                                         ![con[c].attempt].delay = delay]
    BY <1>2, <2>1 DEF ResolveFirst, resolveAttempt
  <2>3. \A b \in DOMAIN attempts : b # con[c].attempt => attempts'[b] = attempts[b]
    BY <1>0, <2>2 DEF TInv, TypeOK, TablesTypeOK
  <2>4. ~Holds(c)'
    BY <1>0, <1>2 DEF ResolveFirst, Holds, ConsumerType
  <2>5. NothingTaken
    BY <1>0, <1>a, <2>1, <2>3, <2>4, HeldInTable
    DEF NothingTaken, HInv, HeldPending, HeldOnce, Holds, SlotHolds, ManualHolds
  <2> QED BY <2>5, HeldStays DEF HInv
<1>3. CASE ~(CreateFirst(c) \/ ResolveFirst(c))
  <2>1. UNCHANGED attempts
    BY <1>3
    DEF ConsumerStep, ConsumerFault, Join, Fetch, LoadSubscriptions, CreateRefused,
        Deliver, IndexFirst, ScheduleRetry, ScheduleUnanswered, CommitOffset, Fenced,
        Throw, CommitThrows, Crash, Evict, tableVars
  <2>2. Holds(c)' => Holds(c) /\ con'[c].attempt = con[c].attempt
    <3>1. CASE Deliver(c)
      BY <1>0, <3>1 DEF Deliver, At, Holds, ConsumerType
    <3>2. CASE Evict(c) \/ ScheduleUnanswered(c)
      BY <3>2 DEF Evict, ScheduleUnanswered, consumerVars, Holds
    <3>3. CASE ~(Deliver(c) \/ Evict(c) \/ ScheduleUnanswered(c))
      <4>1. CASE Join(c) \/ CreateRefused(c) \/ CommitOffset(c) \/ Throw(c) \/ CommitThrows(c)
        BY <1>0, <4>1
        DEF Join, CreateRefused, CommitOffset, Throw, CommitThrows, Holds, Polling, Out
      <4>2. CASE Fenced(c) \/ Crash(c)
        BY <1>0, <4>2 DEF Fenced, Crash, Holds, Out
      <4>3. CASE Fetch(c)
        BY <1>0, <4>3 DEF Fetch, Holds, ConsumerType
      <4>4. CASE LoadSubscriptions(c)
        BY <1>0, <4>4 DEF LoadSubscriptions, Holds, ConsumerType
      <4>5. DoneWithOne(c).pc \in {"create", "commit"}
        BY DEF DoneWithOne, Out
      <4>6. CASE IndexFirst(c)
        <5>1. con'[c] = DoneWithOne(c) \/ con'[c].pc = "retry"
          BY <1>0, <4>6 DEF IndexFirst, ConsumerType
        <5> QED BY <4>5, <5>1 DEF Holds
      <4>7. CASE ScheduleRetry(c)
        BY <1>0, <4>5, <4>7 DEF ScheduleRetry, Holds
      <4> QED BY <1>3, <3>3, <4>1, <4>2, <4>3, <4>4, <4>6, <4>7
              DEF ConsumerStep, ConsumerFault
    <3> QED BY <3>1, <3>2, <3>3
  <2> QED BY <1>0, <1>a, <2>1, <2>2, NoWriteHeld
      DEF Holds, SlotHolds, ManualHolds
<1> QED BY <1>1, <1>2, <1>3

LEMMA RetryHeld ==
    ASSUME HInv, RetryNext, UNCHANGED <<consumerVars, build, requestVars>>
    PROVE  HeldPending' /\ HeldOnce'
<1>0. TInv /\ con' = con /\ manual' = manual /\ slot \in [Slots -> SlotType]
  BY DEF HInv, TInv, TypeOK, RetryTypeOK, consumerVars, requestVars
<1>1. ASSUME NEW k \in Slots,
             SlotStep(k) \/ AgainUnanswered(k) \/ RetryThrow(k) \/ LoseLock(k)
      PROVE  HeldPending' /\ HeldOnce'
  <2>a. \A i \in Slots \ {k} : slot'[i] = slot[i]
    BY <1>0, <1>1
    DEF SlotStep, Take, Load, CreateNext, NextRefused, Redeliver, ResolveNext, IndexNext,
        IndexUnbound, JobFails, Bury, RetryAgain, AgainUnanswered, Complete, RetryThrow,
        LoseLock
  <2>1. CASE CreateNext(k)
    <3>1. /\ JobOf(k).event \in Events /\ JobOf(k).sub \in Subs
          /\ JobOf(k).number \in Nat
      BY <1>0, <2>1, SlotTyped DEF CreateNext, SlotAt
    <3>2. /\ NewAttempt \notin DOMAIN attempts
          /\ \A a \in DOMAIN attempts : attempts'[a] = attempts[a]
          /\ attempts'[NewAttempt].status = "pending"
      BY <1>0, <2>1, <3>1, CreatedIsNew DEF CreateNext
    <3>3. slot'[k].attempt = NewAttempt /\ slot'[k].pc = "deliver" /\ ~SlotHolds(k)
      BY <1>0, <2>1 DEF CreateNext, SlotAt, SlotHolds, SlotType
    <3>4. HeldPending'
      BY <1>0, <2>a, <3>2, <3>3, HeldInTable
    DEF HeldPending, HInv, Holds, SlotHolds, ManualHolds
    <3>5. HeldOnce'
      BY <1>0, <2>a, <3>2, <3>3, HeldInTable
    DEF HeldOnce, HInv, Holds, SlotHolds, ManualHolds
    <3> QED BY <3>4, <3>5
  <2>2. CASE ResolveNext(k)
    <3>1. SlotHolds(k)
      BY <2>2 DEF ResolveNext, SlotAt, SlotHolds
    <3>2. PICK status, delay :
              attempts' = [attempts EXCEPT ![slot[k].attempt].status = status,
                                           ![slot[k].attempt].delay = delay]
      BY <2>2 DEF ResolveNext, resolveAttempt, deadLetterAttempt
    <3>3. \A b \in DOMAIN attempts : b # slot[k].attempt => attempts'[b] = attempts[b]
      BY <1>0, <3>2 DEF TInv, TypeOK, TablesTypeOK
    <3>4. ~SlotHolds(k)'
      BY <1>0, <2>2 DEF ResolveNext, SlotHolds, SlotType
    <3>5. NothingTaken
      BY <1>0, <2>a, <3>1, <3>3, <3>4, HeldInTable
      DEF NothingTaken, HInv, HeldPending, HeldOnce, Holds, SlotHolds, ManualHolds
    <3> QED BY <3>5, HeldStays DEF HInv
  <2>3. CASE ~(CreateNext(k) \/ ResolveNext(k))
    <3>1. UNCHANGED attempts
      BY <1>1, <2>3
      DEF SlotStep, Take, Load, NextRefused, Redeliver, IndexNext, IndexUnbound, JobFails,
          Bury, RetryAgain, AgainUnanswered, Complete, RetryThrow, LoseLock, tableVars
    <3>2. SlotHolds(k)' => SlotHolds(k) /\ slot'[k].attempt = slot[k].attempt
      <4>1. CASE Redeliver(k)
        BY <1>0, <4>1 DEF Redeliver, SlotAt, SlotHolds, SlotType
      <4>2. CASE ~Redeliver(k)
        <5>1. CASE Take(k)
          BY <1>0, <5>1 DEF Take, SlotHolds, Free
        <5>2. CASE NextRefused(k) \/ IndexUnbound(k) \/ Complete(k) \/ RetryThrow(k)
          BY <1>0, <5>2
          DEF NextRefused, IndexUnbound, Complete, RetryThrow, JobFails, SlotHolds, Free
        <5>3. CASE Load(k) \/ IndexNext(k) \/ Bury(k) \/ RetryAgain(k)
          BY <1>0, <5>3
          DEF Load, IndexNext, Bury, RetryAgain, SlotHolds, SlotType, AfterIndex
        <5>4. CASE AgainUnanswered(k) \/ LoseLock(k)
          BY <1>0, <5>4 DEF AgainUnanswered, LoseLock, SlotHolds, SlotType
        <5> QED BY <1>1, <2>3, <4>2, <5>1, <5>2, <5>3, <5>4 DEF SlotStep
      <4> QED BY <4>1, <4>2
    <3> QED BY <1>0, <2>a, <3>1, <3>2, NoWriteHeld
      DEF Holds, SlotHolds, ManualHolds
  <2> QED BY <2>1, <2>2, <2>3
<1>2. CASE RetryCrash \/ Stalled
  <2>1. UNCHANGED attempts
    BY <1>2 DEF RetryCrash, Stalled, tableVars
  <2>2. \A i \in Slots : SlotHolds(i)' => SlotHolds(i) /\ slot'[i].attempt = slot[i].attempt
    <3>1. CASE RetryCrash
      BY <3>1 DEF RetryCrash, SlotHolds, Free
    <3>2. CASE Stalled
      BY <3>2 DEF Stalled, SlotHolds
    <3> QED BY <1>2, <3>1, <3>2
  <2> QED BY <1>0, <2>1, <2>2, NoWriteHeld DEF Holds, ManualHolds
<1> QED BY <1>1, <1>2 DEF RetryNext

LEMMA ManualHeld ==
    ASSUME HInv, NEW m \in ManualRetries, retryDeadLetter(m),
           UNCHANGED <<consumerVars, retryVars>>
    PROVE  HeldPending' /\ HeldOnce'
<1>0. /\ TInv /\ con' = con /\ slot' = slot
      /\ manual \in [ManualRetries -> ManualType]
  BY DEF HInv, TInv, TypeOK, RedeliveryTypeOK, consumerVars, retryVars
<1>a. \A n \in ManualRetries \ {m} : manual'[n] = manual[n]
  BY <1>0
  DEF retryDeadLetter, LoadLetter, CreateManual, DeliverManual, ResolveLetter,
      RecordFailure, ManualFails
<1>1. CASE CreateManual(m)
  <2>1. Letter(m).event \in Events /\ Letter(m).sub \in Subs /\ ManualNumber(m) \in Nat
    BY <1>0, <1>1, LetterTyped DEF CreateManual, ManualNumber
  <2>2. /\ NewAttempt \notin DOMAIN attempts
        /\ \A a \in DOMAIN attempts : attempts'[a] = attempts[a]
        /\ attempts'[NewAttempt].status = "pending"
    BY <1>0, <1>1, <2>1, CreatedIsNew DEF CreateManual
  <2>3. /\ manual'[m].attempt = NewAttempt /\ manual'[m].pc = "deliver"
        /\ ~ManualHolds(m)
    BY <1>0, <1>1 DEF CreateManual, ManualHolds, ManualType
  <2>4. HeldPending'
    BY <1>0, <1>a, <2>2, <2>3, HeldInTable
    DEF HeldPending, HInv, Holds, SlotHolds, ManualHolds
  <2>5. HeldOnce'
    BY <1>0, <1>a, <2>2, <2>3, HeldInTable
    DEF HeldOnce, HInv, Holds, SlotHolds, ManualHolds
  <2> QED BY <2>4, <2>5
<1>2. CASE ResolveLetter(m) \/ RecordFailure(m)
  <2>1. ManualHolds(m)
    BY <1>2 DEF ResolveLetter, RecordFailure, ManualHolds
  <2>2. PICK status, delay :
            attempts' = [attempts EXCEPT ![manual[m].attempt].status = status,
                                         ![manual[m].attempt].delay = delay]
    BY <1>2 DEF ResolveLetter, RecordFailure, resolveAttempt
  <2>3. \A b \in DOMAIN attempts : b # manual[m].attempt => attempts'[b] = attempts[b]
    BY <1>0, <2>2 DEF TInv, TypeOK, TablesTypeOK
  <2>4. ~ManualHolds(m)'
    BY <1>0, <1>2 DEF ResolveLetter, RecordFailure, ManualHolds, ManualType
  <2>5. NothingTaken
    BY <1>0, <1>a, <2>1, <2>3, <2>4, HeldInTable
    DEF NothingTaken, HInv, HeldPending, HeldOnce, Holds, SlotHolds, ManualHolds
  <2> QED BY <2>5, HeldStays DEF HInv
<1>3. CASE LoadLetter(m) \/ DeliverManual(m) \/ ManualFails(m)
  <2>1. UNCHANGED attempts
    BY <1>3 DEF LoadLetter, DeliverManual, ManualFails, tableVars
  <2>2. ManualHolds(m)' => ManualHolds(m) /\ manual'[m].attempt = manual[m].attempt
    BY <1>0, <1>3 DEF LoadLetter, DeliverManual, ManualFails, ManualHolds, ManualType
  <2> QED BY <1>0, <1>a, <2>1, <2>2, NoWriteHeld DEF Holds, SlotHolds, ManualHolds
<1> QED BY <1>1, <1>2, <1>3 DEF retryDeadLetter

LEMMA HInvStep == HInv /\ [Next]_vars => HInv'
<1> SUFFICES ASSUME HInv, [Next]_vars PROVE HInv'
  OBVIOUS
<1>1. TInv'
  BY TInvStep DEF HInv
<1>2. ASSUME UNCHANGED <<attempts, con, slot, manual>> PROVE HeldPending' /\ HeldOnce'
  <2>1. \A c \in Consumers : Holds(c)' => Holds(c) /\ con'[c].attempt = con[c].attempt
    BY <1>2 DEF Holds
  <2>2. \A k \in Slots : SlotHolds(k)' => SlotHolds(k) /\ slot'[k].attempt = slot[k].attempt
    BY <1>2 DEF SlotHolds
  <2>3. \A m \in ManualRetries :
            ManualHolds(m)' => ManualHolds(m) /\ manual'[m].attempt = manual[m].attempt
    BY <1>2 DEF ManualHolds
  <2> QED BY <1>2, <2>1, <2>2, <2>3, NoWriteHeld
<1>3. CASE TablesNext /\ UNCHANGED <<consumerVars, retryVars, requestVars>>
  BY <1>1, <1>2, <1>3
  DEF HInv, TablesNext, createSubscription, updateSubscription, deleteSubscription,
      consumerVars, retryVars, requestVars
<1>4. CASE UNCHANGED vars \/ (Produce /\ UNCHANGED <<retryVars, requestVars>>)
  BY <1>1, <1>2, <1>4
  DEF HInv, Produce, vars, tableVars, consumerVars, retryVars, requestVars
<1>5. CASE RedeliveryNext /\ UNCHANGED <<consumerVars, retryVars>>
  <2>1. ASSUME NEW r \in Replays, replaySubscription(r) PROVE HeldPending' /\ HeldOnce'
    BY <1>2, <1>5, <2>1
    DEF replaySubscription, ReadEvents, AddBulk, BulkUnanswered, ReplayFails, tableVars,
        consumerVars, retryVars, requestVars
  <2> QED BY <1>1, <1>5, <2>1, ManualHeld DEF RedeliveryNext, HInv
<1>6. HeldPending' /\ HeldOnce'
  BY <1>1, <1>2, <1>3, <1>4, <1>5, ConsumerHeld, RetryHeld DEF Next, ConsumersNext, HInv
<1> QED BY <1>1, <1>6 DEF HInv

LEMMA HInvInit == Init => HInv
  BY TInvInit
  DEF Init, ConsumersInit, RetryInit, RedeliveryInit, HInv, HeldPending, HeldOnce, Holds,
      SlotHolds, ManualHolds, Out, Free

\* Rows in hand are pending and never shared, in every reachable state.
THEOREM RowsHaveOneHolder == Spec => []HInv
  BY HInvInit, HInvStep, PTL DEF Spec

\* No worker, redelivery or rerun of a job ever rewrites a resolved attempt.
THEOREM HistoryIsFinal == Spec => ResolvedIsFinal
<1>1. HInv /\ [Next]_vars =>
        [\A a \in DOMAIN attempts :
            /\ a \in DOMAIN attempts'
            /\ attempts[a].status # "pending" => attempts'[a] = attempts[a]]_vars
  BY StepKeeps DEF Kept, HistoryKept
<1> QED BY <1>1, RowsHaveOneHolder, PTL DEF Spec, ResolvedIsFinal

-----------------------------------------------------------------------------
(* The offset.                                                             *)

\* One member owns the partition at most, and it stands at the committed offset,
\* or before the last message of it when its commit took effect and threw: a
\* member that lost the partition cannot commit, so nobody else moves the offset.
OwnerAtOffset ==
    /\ \A c, d \in owner : c = d
    /\ \A c \in owner : /\ con[c].pc # "out"
                        /\ committed # NoOffset =>
                             committed \in {con[c].offset, con[c].offset + 1}
    /\ committed # NoOffset => committed <= Len(log)

OInv == TInv /\ OwnerAtOffset

\* Owners may go, and those that stay do not move.
LEMMA OwnersStay ==
    ASSUME OInv, owner' \subseteq owner, committed' = committed, log' = log,
           \A d \in owner' : con'[d].pc # "out" /\ con'[d].offset = con[d].offset
    PROVE  OwnerAtOffset'
<1>1. \A c, d \in owner' : c = d
  BY DEF OInv, OwnerAtOffset
<1>2. \A c \in owner' : /\ con'[c].pc # "out"
                        /\ committed' # NoOffset =>
                             committed' \in {con'[c].offset, con'[c].offset + 1}
  BY DEF OInv, OwnerAtOffset
<1>3. committed' # NoOffset => committed' <= Len(log')
  BY DEF OInv, OwnerAtOffset
<1> QED BY <1>1, <1>2, <1>3 DEF OwnerAtOffset

\* One owner, at the committed offset or one before it.
LEMMA OneOwner ==
    ASSUME NEW c, owner' = {c}, con'[c].pc # "out",
           committed' # NoOffset => /\ committed' \in {con'[c].offset, con'[c].offset + 1}
                                    /\ committed' <= Len(log')
    PROVE  OwnerAtOffset'
  BY DEF OwnerAtOffset

\* The commit of c takes effect.
Commits(c) == CommitOffset(c) \/ CommitThrows(c)

LEMMA ConsumerOffset ==
    ASSUME OInv, NEW c \in Consumers, ConsumerStep(c) \/ ConsumerFault(c)
    PROVE  OwnerAtOffset'
<1>0. /\ ConOK(con[c]) /\ con[c].offset \in Nat /\ con \in [Consumers -> ConsumerType]
      /\ owner \subseteq Consumers /\ committed \in Nat \cup {NoOffset}
      /\ NoOffset \notin Nat /\ Len(log) \in Nat
  BY ConTyped, ConsumerAssumption
  DEF OInv, TInv, TypeOK, ConsumersTypeOK, ConOK, ConsumerType
<1>a. \A d \in owner : con[d].pc # "out"
  BY DEF OInv, OwnerAtOffset
<1>1. CASE Join(c)
  <2>1. con'[c].pc = "poll" /\ con'[c].offset = StartOffset
    BY <1>0, <1>1 DEF Join, Polling, Out
  <2>2. owner' = {c} /\ committed' = committed /\ log' = log
    BY <1>1 DEF Join
  <2>3. committed # NoOffset => StartOffset = committed /\ committed <= Len(log)
    BY DEF StartOffset, OInv, OwnerAtOffset
  <2> QED BY <2>1, <2>2, <2>3, OneOwner
<1>2. CASE Commits(c)
  <2>1. /\ con'[c].pc = "poll" /\ con'[c].offset \in {con[c].offset, con[c].offset + 1}
        /\ c \in owner /\ owner' = owner /\ con[c].pc = "commit" /\ log' = log
        /\ committed' = con[c].offset + 1
    BY <1>0, <1>2 DEF Commits, CommitOffset, CommitThrows, Polling, Out, At
  <2>2. con[c].offset + 1 <= Len(log)
    BY <1>0, <2>1 DEF ConOK
  <2>3. owner = {c}
    BY <2>1 DEF OInv, OwnerAtOffset
  <2> QED BY <2>1, <2>2, <2>3, OneOwner
<1>3. CASE Crash(c)
  <2>1. \A d \in owner \ {c} : con'[d] = con[d]
    BY <1>0, <1>3 DEF Crash
  <2> QED BY <1>3, <1>a, <2>1, OwnersStay DEF Crash
<1>4. CASE Evict(c)
  BY <1>4, OwnersStay DEF Evict
<1>5. CASE Fenced(c)
  <2>1. \A d \in owner : con'[d] = con[d]
    BY <1>0, <1>5 DEF Fenced
  <2> QED BY <1>5, <1>a, <2>1, OwnersStay DEF Fenced
<1>6. CASE ~(Join(c) \/ Commits(c) \/ Crash(c) \/ Evict(c) \/ Fenced(c))
  <2>1. UNCHANGED <<committed, owner, log>> /\ \A d \in Consumers \ {c} : con'[d] = con[d]
    BY <1>0, <1>6
    DEF ConsumerStep, ConsumerFault, Fetch, LoadSubscriptions, CreateFirst,
        CreateRefused, Deliver, ResolveFirst, IndexFirst, ScheduleRetry,
        ScheduleUnanswered, consumerVars, Throw, Commits
  <2>2. con'[c].pc # "out" /\ con'[c].offset = con[c].offset
    <3>1. CASE CreateRefused(c) \/ Throw(c)
      BY <1>0, <3>1 DEF CreateRefused, Throw, Polling, Out
    <3>2. DoneWithOne(c).pc # "out" /\ DoneWithOne(c).offset = con[c].offset
      BY DEF DoneWithOne, Out
    <3>3. CASE IndexFirst(c)
      <4>1. CASE con' = [con EXCEPT ![c] = DoneWithOne(c)]
        BY <1>0, <3>2, <4>1
      <4>2. CASE con' = [con EXCEPT ![c].pc = "retry"]
        BY <1>0, <4>2 DEF ConsumerType
      <4> QED BY <3>3, <4>1, <4>2 DEF IndexFirst
    <3>4. CASE ScheduleRetry(c) \/ ScheduleUnanswered(c)
      <4>1. con[c].pc # "out"
        BY <3>4 DEF ScheduleRetry, ScheduleUnanswered, At
      <4> QED BY <1>0, <3>2, <3>4, <4>1 DEF ScheduleRetry, ScheduleUnanswered, consumerVars
    <3>5. CASE Fetch(c) \/ LoadSubscriptions(c) \/ Deliver(c)
      BY <1>0, <3>5 DEF Fetch, LoadSubscriptions, Deliver, ConsumerType
    <3>6. CASE CreateFirst(c) \/ ResolveFirst(c)
      BY <1>0, <3>6 DEF CreateFirst, ResolveFirst, ConsumerType
    <3> QED BY <1>6, <3>1, <3>3, <3>4, <3>5, <3>6
            DEF ConsumerStep, ConsumerFault, Commits
  <2>3. \A d \in owner : con'[d].pc # "out" /\ con'[d].offset = con[d].offset
    BY <1>0, <1>a, <2>1, <2>2
  <2> QED BY <2>1, <2>3, OwnersStay
<1> QED BY <1>1, <1>2, <1>3, <1>4, <1>5, <1>6

\* What a step does to the offset: nothing, or one member's commit.
OffsetStep ==
    \/ committed' = committed
    \/ \E c \in Consumers : /\ Commits(c)
                            /\ c \in owner
                            /\ committed' = con[c].offset + 1

LEMMA OInvStep == OInv /\ [Next]_vars => OInv' /\ OffsetStep
<1> SUFFICES ASSUME OInv, [Next]_vars PROVE OInv' /\ OffsetStep
  OBVIOUS
<1>1. TInv'
  BY TInvStep DEF OInv
<1>2. ASSUME UNCHANGED <<committed, owner, con>>, Len(log) <= Len(log')
      PROVE  OwnerAtOffset' /\ OffsetStep
  <2>1. Len(log) \in Nat /\ Len(log') \in Nat /\ committed \in Nat \cup {NoOffset}
    BY <1>1 DEF OInv, TInv, TypeOK, ConsumersTypeOK
  <2> QED BY <1>2, <2>1 DEF OInv, OwnerAtOffset, OffsetStep
<1>3. CASE UNCHANGED consumerVars
  <2>1. UNCHANGED <<committed, owner, con, log>> /\ Len(log) <= Len(log)
    BY <1>3 DEF consumerVars, OInv, TInv, TypeOK, ConsumersTypeOK
  <2> QED BY <1>1, <1>2, <2>1 DEF OInv
<1>4. CASE Produce
  <2>1. LogKept
    BY <1>4, ProduceKeeps DEF OInv, Kept
  <2> QED BY <1>1, <1>2, <1>4, <2>1 DEF OInv, Produce, LogKept
<1>5. ASSUME NEW c \in Consumers, ConsumerStep(c) \/ ConsumerFault(c)
      PROVE  OInv' /\ OffsetStep
  <2>1. CASE Commits(c)
    BY <1>1, <1>5, <2>1, ConsumerOffset
    DEF OInv, OffsetStep, Commits, CommitOffset, CommitThrows
  <2>2. CASE ~Commits(c)
    <3>1. committed' = committed
      BY <1>5, <2>2
      DEF ConsumerStep, ConsumerFault, Commits, Join, Fetch, LoadSubscriptions,
          CreateFirst, CreateRefused, Deliver, ResolveFirst, IndexFirst, ScheduleRetry,
          ScheduleUnanswered, consumerVars, Fenced, Throw, Crash, Evict
    <3> QED BY <1>1, <1>5, <3>1, ConsumerOffset DEF OInv, OffsetStep
  <2> QED BY <2>1, <2>2
<1>6. UNCHANGED vars => UNCHANGED consumerVars
  BY DEF vars
<1> QED BY <1>3, <1>4, <1>5, <1>6 DEF Next, ConsumersNext

LEMMA OInvInit == Init => OInv
<1> SUFFICES ASSUME Init PROVE OInv
  OBVIOUS
<1>1. TInv
  BY TInvInit
<1>2. owner = {} /\ committed \in {0, NoOffset} /\ log = <<>>
  BY ConsumerAssumption DEF Init, ConsumersInit
<1>3. Len(log) = 0
  BY <1>2
<1> QED BY <1>1, <1>2, <1>3, ConsumerAssumption DEF OInv, OwnerAtOffset

\* The owner of the partition stands at the committed offset or one message
\* before it, always.
THEOREM OwnerStandsAtOffset == Spec => []OInv
<1>1. OInv /\ [Next]_vars => OInv'
  BY OInvStep
<1> QED BY <1>1, OInvInit, PTL DEF Spec

\* The group's offset never goes back, whoever lost or won the partition.
THEOREM OffsetNeverGoesBack == Spec => OffsetMovesForward
<1>1. OInv /\ [Next]_vars =>
        [committed # NoOffset => committed' >= committed]_<<tableVars, consumerVars>>
  <2> SUFFICES ASSUME OInv, [Next]_vars, committed # NoOffset
               PROVE  committed' >= committed
    OBVIOUS
  <2>1. committed \in Nat
    BY DEF OInv, TInv, TypeOK, ConsumersTypeOK
  <2>2. OffsetStep
    BY OInvStep
  <2>3. ASSUME NEW c \in Consumers, c \in owner, committed' = con[c].offset + 1
        PROVE  committed' >= committed
    <3>1. con[c].offset \in Nat
      BY ConTyped DEF OInv, ConOK, ConsumerType
    <3> QED BY <2>1, <2>3, <3>1 DEF OInv, OwnerAtOffset
  <2> QED BY <2>1, <2>2, <2>3 DEF OffsetStep
<1> QED BY <1>1, OwnerStandsAtOffset, PTL DEF Spec, OffsetMovesForward

-----------------------------------------------------------------------------
(* The fan-out.                                                            *)

\* The row in hand is attempt 1 of the message in hand, for a subscription the
\* loop is not done with; past the update it has the result of the call.
RowInHand(c) ==
    con[c].pc \in InHand =>
        LET a == con[c].attempt
        IN /\ attempts[a].event = Event(c)
           /\ attempts[a].sub \in con[c].todo
           /\ attempts[a].number = 1
           /\ con[c].pc \in {"index", "retry"} =>
                attempts[a].status = IF con[c].success THEN "success" ELSE "failed"

\* The loop is done with a steady subscription only once it is served.
LoopServes(c) ==
    /\ con[c].pc \in InHand \cup {"create", "commit"} =>
         \A s \in steady : s \in con[c].todo \/ Delivered(Event(c), s)
    /\ con[c].pc = "commit" => con[c].todo = {}

FInv == /\ HInv
        /\ OInv
        /\ committed \in Nat
        /\ steady \subseteq Enabled
        /\ \A c \in Consumers : RowInHand(c) /\ LoopServes(c)
        /\ AtLeastOnce

\* The message in hand stays the same message.
LEMMA EventStays ==
    ASSUME TInv, LogKept, NEW c \in Consumers, con[c].pc \notin {"out", "poll"},
           con'[c].offset = con[c].offset
    PROVE  Event(c)' = Event(c)
<1>1. con[c].offset + 1 \in 1..Len(log)
  <2>1. ConOK(con[c]) /\ Len(log) \in Nat
    BY ConTyped DEF TInv, TypeOK, ConsumersTypeOK
  <2> QED BY <2>1 DEF ConOK, ConsumerType
<1> QED BY <1>1 DEF LogKept, Event

\* A worker that does not move keeps its part of the invariant.
LEMMA StandStill ==
    ASSUME TInv, Kept, NEW c \in Consumers, con'[c] = con[c],
           RowInHand(c), LoopServes(c)
    PROVE  RowInHand(c)' /\ LoopServes(c)'
<1>1. CASE con[c].pc \in {"out", "poll"}
  BY <1>1 DEF RowInHand, LoopServes, InHand
<1>2. CASE con[c].pc \notin {"out", "poll"}
  <2>1. Event(c)' = Event(c)
    BY <1>2, EventStays DEF Kept
  <2>2. LoopServes(c)'
    BY <2>1, DeliveredStays DEF LoopServes, Kept
  <2>3. ASSUME con[c].pc \in InHand PROVE con[c].attempt \in DOMAIN attempts
    BY <2>3, ConTyped DEF ConOK
  <2>4. RowInHand(c)'
    BY <2>1, <2>3 DEF RowInHand, Kept, HistoryKept
  <2> QED BY <2>2, <2>4
<1> QED BY <1>1, <1>2

\* The loop moves on from a subscription that is served.
LEMMA LoopMovesOn ==
    ASSUME TInv, Kept, NEW c \in Consumers, con[c].pc \in InHand,
           LoopServes(c), con'[c] = DoneWithOne(c),
           NEW e, e = Event(c), NEW s, s = attempts[con[c].attempt].sub,
           Delivered(e, s)'
    PROVE  RowInHand(c)' /\ LoopServes(c)'
<1>1. /\ con'[c].offset = con[c].offset
      /\ con'[c].todo = con[c].todo \ {s}
      /\ con'[c].pc = IF con[c].todo \ {s} = {} THEN "commit" ELSE "create"
  BY DEF DoneWithOne, Out, Attempt
<1>2. Event(c)' = e
  BY <1>1, EventStays DEF InHand, Kept
<1>3. \A t \in steady' : t \in con[c].todo \/ Delivered(e, t)'
  BY DeliveredStays DEF LoopServes, Kept
<1>4. LoopServes(c)'
  BY <1>1, <1>2, <1>3 DEF LoopServes
<1>5. RowInHand(c)'
  BY <1>1 DEF RowInHand, InHand
<1> QED BY <1>4, <1>5

\* A worker whose message, todo and row stay the same keeps its promise.
LEMMA LoopStays ==
    ASSUME TInv, Kept, NEW c \in Consumers, LoopServes(c),
           con[c].pc \in InHand \cup {"create"}, con'[c].pc \in InHand,
           con'[c].offset = con[c].offset, con'[c].todo = con[c].todo
    PROVE  LoopServes(c)' /\ Event(c)' = Event(c)
<1>1. Event(c)' = Event(c)
  BY EventStays DEF InHand, Kept
<1>2. LoopServes(c)'
  BY <1>1, DeliveredStays DEF LoopServes, Kept, InHand
<1> QED BY <1>1, <1>2

\* A worker between two messages promises nothing.
LEMMA BetweenMessages ==
    ASSUME NEW c, con'[c].pc \in {"out", "poll", "load"}
    PROVE  RowInHand(c)' /\ LoopServes(c)'
  BY DEF RowInHand, LoopServes, InHand

LEMMA ConsumerServes ==
    ASSUME FInv, Kept, NEW c \in Consumers, ConsumerStep(c) \/ ConsumerFault(c)
    PROVE  RowInHand(c)' /\ LoopServes(c)'
<1>0. /\ TInv /\ HInv /\ ConOK(con[c]) /\ con \in [Consumers -> ConsumerType]
      /\ RowInHand(c) /\ LoopServes(c) /\ steady \subseteq Enabled
  BY ConTyped DEF FInv, HInv, TInv, TypeOK, ConsumersTypeOK
<1>1. CASE Join(c) \/ CreateRefused(c) \/ CommitOffset(c) \/ Throw(c) \/ CommitThrows(c)
  <2>1. con'[c].pc = "poll"
    BY <1>0, <1>1 DEF Join, CreateRefused, CommitOffset, Throw, CommitThrows, Polling, Out
  <2> QED BY <2>1, BetweenMessages
<1>2. CASE Fetch(c) \/ Fenced(c) \/ Crash(c)
  <2>1. con'[c].pc \in {"load", "out"}
    BY <1>0, <1>2 DEF Fetch, Fenced, Crash, Out, ConsumerType
  <2> QED BY <2>1, BetweenMessages
<1>3. CASE LoadSubscriptions(c)
  <2>1. /\ con'[c].todo = Enabled
        /\ con'[c].pc = IF Enabled = {} THEN "commit" ELSE "create"
        /\ steady' = steady
    BY <1>0, <1>3 DEF LoadSubscriptions, ConsumerType, tableVars
  <2>2. LoopServes(c)'
    BY <1>0, <2>1 DEF LoopServes
  <2>3. RowInHand(c)'
    BY <2>1 DEF RowInHand, InHand
  <2> QED BY <2>2, <2>3
<1>4. CASE CreateFirst(c)
  <2>a. PICK s \in con[c].todo : createPendingAttempt(Event(c), s, 1)
    BY <1>4 DEF CreateFirst
  <2>1. PICK e : e = Event(c) /\ createPendingAttempt(e, s, 1)
    BY <2>a
  <2>2. e \in Events /\ s \in Subs
    BY <1>0, <1>4, <2>1
    DEF CreateFirst, At, ConOK, ConsumerType, Event, TInv, TypeOK, ConsumersTypeOK
  <2>3. /\ attempts'[NewAttempt].event = e
        /\ attempts'[NewAttempt].sub = s
        /\ attempts'[NewAttempt].number = 1
    BY <1>0, <2>1, <2>2, CreatedIsNew
  <2>4. /\ con[c].pc = "create" /\ con'[c].pc = "deliver"
        /\ con'[c].attempt = NewAttempt
        /\ con'[c].offset = con[c].offset /\ con'[c].todo = con[c].todo
    BY <1>0, <1>4 DEF CreateFirst, At, ConsumerType
  <2>5. LoopServes(c)' /\ Event(c)' = Event(c)
    BY <1>0, <2>4, LoopStays DEF InHand
  <2>6. RowInHand(c)'
    BY <2>1, <2>3, <2>4, <2>5 DEF RowInHand
  <2> QED BY <2>5, <2>6
<1>5. CASE Deliver(c)
  <2>1. /\ con[c].pc = "deliver" /\ con'[c].pc = "resolve"
        /\ con'[c].attempt = con[c].attempt
        /\ con'[c].offset = con[c].offset /\ con'[c].todo = con[c].todo
        /\ attempts' = attempts
    BY <1>0, <1>5 DEF Deliver, At, ConsumerType, tableVars
  <2>2. LoopServes(c)' /\ Event(c)' = Event(c)
    BY <1>0, <2>1, LoopStays DEF InHand
  <2>3. RowInHand(c)'
    BY <1>0, <2>1, <2>2 DEF RowInHand, InHand
  <2> QED BY <2>2, <2>3
<1>6. CASE ResolveFirst(c)
  <2>1. /\ con[c].pc = "resolve" /\ con'[c].pc = "index"
        /\ con'[c].attempt = con[c].attempt /\ con'[c].success = con[c].success
        /\ con'[c].offset = con[c].offset /\ con'[c].todo = con[c].todo
    BY <1>0, <1>6 DEF ResolveFirst, At, ConsumerType
  <2>2. LoopServes(c)' /\ Event(c)' = Event(c)
    BY <1>0, <2>1, LoopStays DEF InHand
  <2>3. con[c].attempt \in DOMAIN attempts
    BY <1>0, <2>1 DEF ConOK, InHand
  <2>4. attempts'[con[c].attempt].status = IF con[c].success THEN "success" ELSE "failed"
    <3>1. attempts[con[c].attempt] \in AttemptType
      BY <1>0, <2>3, EntryTyped DEF TInv, TypeOK, TablesTypeOK
    <3>2. PICK status, delay :
            /\ status = IF con[c].success THEN "success" ELSE "failed"
            /\ attempts' = [attempts EXCEPT ![con[c].attempt].status = status,
                                            ![con[c].attempt].delay = delay]
      BY <1>6 DEF ResolveFirst, resolveAttempt, Attempt
    <3>3. attempts'[con[c].attempt]
            = [attempts[con[c].attempt] EXCEPT !.status = status, !.delay = delay]
      BY <1>0, <2>3, <3>2 DEF TInv, TypeOK, TablesTypeOK
    <3> QED BY <3>1, <3>2, <3>3 DEF AttemptType
  <2>5. RowInHand(c)'
    BY <1>0, <2>1, <2>2, <2>3, <2>4 DEF RowInHand, InHand, Kept, HistoryKept
  <2> QED BY <2>2, <2>5
<1>7. CASE IndexFirst(c)
  <2>1. con[c].pc = "index" /\ con[c].pc \in InHand /\ attempts' = attempts
    BY <1>7 DEF IndexFirst, At, InHand
  <2>2. CASE con[c].success
    <3>1. con'[c] = DoneWithOne(c)
      BY <1>0, <1>7, <2>2 DEF IndexFirst, FirstDelay
    <3>2. PICK e, s : e = Event(c) /\ s = attempts[con[c].attempt].sub
      OBVIOUS
    <3>3. con[c].attempt \in DOMAIN attempts
      BY <1>0, <2>1 DEF ConOK
    <3>4. Delivered(e, s)
      BY <1>0, <2>1, <2>2, <3>2, <3>3 DEF RowInHand, Delivered, Attempted
    <3>5. Delivered(e, s)'
      BY <3>4, DeliveredStays
    <3> QED BY <1>0, <2>1, <3>1, <3>2, <3>5, LoopMovesOn
  <2>3. CASE ~con[c].success
    <3>1. con' = [con EXCEPT ![c].pc = "retry"]
      BY <1>7, <2>3, FirstDelayExists DEF IndexFirst, FirstDelay
    <3>2. /\ con'[c].pc = "retry" /\ con'[c].attempt = con[c].attempt
          /\ con'[c].success = con[c].success
          /\ con'[c].offset = con[c].offset /\ con'[c].todo = con[c].todo
      BY <1>0, <3>1 DEF ConsumerType
    <3>3. LoopServes(c)' /\ Event(c)' = Event(c)
      BY <1>0, <2>1, <3>2, LoopStays DEF InHand
    <3>4. RowInHand(c)'
      BY <1>0, <2>1, <3>2, <3>3 DEF RowInHand, InHand
    <3> QED BY <3>3, <3>4
  <2> QED BY <2>2, <2>3
<1>8. CASE ScheduleRetry(c)
  <2>1. con[c].pc \in InHand /\ con'[c] = DoneWithOne(c) /\ Event(c) \in Events
    BY <1>0, <1>8
    DEF ScheduleRetry, At, InHand, ConOK, ConsumerType, Event, TInv, TypeOK, ConsumersTypeOK
  <2>2. PICK e, s : e = Event(c) /\ s = attempts[con[c].attempt].sub
    OBVIOUS
  <2>3. attempts[con[c].attempt] \in AttemptType
    BY <1>0, <2>1, EntryTyped DEF ConOK, TInv, TypeOK, TablesTypeOK
  <2>4. s \in Subs /\ e \in Events
    BY <2>1, <2>2, <2>3 DEF AttemptType
  <2>5. /\ TakesEffect(e, s, 2, computeRetryDelay(1))
        /\ UNCHANGED <<attempts, log, steady>>
    BY <1>8, <2>2 DEF ScheduleRetry, Attempt, TakesEffect
  <2>6. RetryAdded(e, s, 2)'
    BY <1>0, <2>4, <2>5, DelayType, JobAddKeeps
  <2>7. Delivered(e, s)'
    BY <2>6 DEF Delivered
  <2> QED BY <1>0, <2>1, <2>2, <2>7, LoopMovesOn
<1>9. CASE Evict(c) \/ ScheduleUnanswered(c)
  BY <1>0, <1>9, StandStill DEF Evict, ScheduleUnanswered, consumerVars
<1> QED BY <1>1, <1>2, <1>3, <1>4, <1>5, <1>6, <1>7, <1>8, <1>9
        DEF ConsumerStep, ConsumerFault

\* The offset passes one message, and only when the loop has served it.
LEMMA OffsetServes ==
    ASSUME FInv, Kept, OffsetStep
    PROVE  committed' \in Nat /\ AtLeastOnce'
<1>0. /\ committed \in Nat /\ NoOffset \notin Nat /\ committed <= Len(log)
      /\ Len(log) \in Nat /\ Len(log') >= Len(log)
  BY ConsumerAssumption
  DEF FInv, OInv, OwnerAtOffset, TInv, TypeOK, ConsumersTypeOK, Kept, LogKept
<1>1. ASSUME NEW e, \E i \in 1..committed : e = log[i], NEW s \in steady'
      PROVE  Delivered(e, s)'
  <2>1. Delivered(e, s)
    BY <1>0, <1>1 DEF FInv, AtLeastOnce, Kept
  <2> QED BY <2>1, DeliveredStays
<1>2. \A i \in 1..committed : log'[i] = log[i]
  BY <1>0 DEF Kept, LogKept
<1>3. CASE committed' = committed
  BY <1>0, <1>1, <1>2, <1>3 DEF AtLeastOnce
<1>4. ASSUME NEW c \in Consumers, Commits(c), c \in owner,
             committed' = con[c].offset + 1, committed' # committed
      PROVE  committed' \in Nat /\ AtLeastOnce'
  <2>1. con[c].pc = "commit" /\ con[c].offset = committed
    BY <1>0, <1>4
    DEF Commits, CommitOffset, CommitThrows, At, FInv, OInv, OwnerAtOffset
  <2>2. LoopServes(c) /\ log' = log
    BY <1>4 DEF FInv, Commits, CommitOffset, CommitThrows
  <2>3. ASSUME NEW e, e = log[committed + 1], NEW s \in steady'
        PROVE  Delivered(e, s)'
    <3>1. Delivered(e, s)
      BY <2>1, <2>2, <2>3 DEF LoopServes, Event, Kept
    <3> QED BY <3>1, DeliveredStays
  <2>4. committed' = committed + 1
    BY <1>4, <2>1
  <2>5. ASSUME NEW i \in 1..committed', NEW s \in steady'
        PROVE  Delivered(log[i], s)'
    <3>1. PICK e : e = log[i]
      OBVIOUS
    <3>2. i \in 1..committed \/ i = committed + 1
      BY <1>0, <2>4
    <3>3. Delivered(e, s)'
      BY <1>1, <2>3, <3>1, <3>2
    <3> QED BY <2>2, <3>1, <3>3
  <2> QED BY <1>0, <2>4, <2>5 DEF AtLeastOnce
<1> QED BY <1>3, <1>4 DEF OffsetStep

LEMMA SteadyStays ==
    ASSUME TInv, steady \subseteq Enabled, [Next]_vars
    PROVE  steady' \subseteq Enabled'
<1>1. CASE UNCHANGED <<sub, steady>>
  BY <1>1 DEF Enabled
<1>2. ASSUME NEW s \in Subs, createSubscription(s) PROVE steady' \subseteq Enabled'
  BY <1>2 DEF createSubscription, Enabled, TInv, TypeOK, TablesTypeOK
<1>3. ASSUME NEW s \in Subs, updateSubscription(s) PROVE steady' \subseteq Enabled'
  BY <1>3 DEF updateSubscription, Enabled, TInv, TypeOK, TablesTypeOK
<1>4. ASSUME NEW s \in Subs, deleteSubscription(s) PROVE steady' \subseteq Enabled'
  BY <1>4 DEF deleteSubscription, Enabled, TInv, TypeOK, TablesTypeOK
<1>5. CASE ConsumersNext \/ UNCHANGED vars
  <2>1. UNCHANGED <<sub, steady>>
    BY <1>5
    DEF ConsumersNext, Produce, ConsumerStep, ConsumerFault, Join, Fetch,
        LoadSubscriptions, CreateFirst, CreateRefused, Deliver, ResolveFirst,
        IndexFirst, ScheduleRetry, ScheduleUnanswered, CommitOffset, Fenced, Throw,
        CommitThrows, Crash, Evict, vars, tableVars
  <2> QED BY <1>1, <2>1
<1>6. CASE RetryNext
  <2>1. UNCHANGED <<sub, steady>>
    BY <1>6
    DEF RetryNext, SlotStep, Take, Load, CreateNext, NextRefused, Redeliver, ResolveNext,
        IndexNext, IndexUnbound, JobFails, Bury, RetryAgain, AgainUnanswered, Complete,
        RetryThrow, LoseLock, RetryCrash, Stalled, tableVars
  <2> QED BY <1>1, <2>1
<1>7. CASE RedeliveryNext
  <2>1. UNCHANGED <<sub, steady>>
    BY <1>7
    DEF RedeliveryNext, replaySubscription, ReadEvents, AddBulk, BulkUnanswered,
        ReplayFails, retryDeadLetter, LoadLetter, CreateManual, DeliverManual, ResolveLetter,
        RecordFailure, ManualFails, tableVars
  <2> QED BY <1>1, <2>1
<1> QED BY <1>2, <1>3, <1>4, <1>5, <1>6, <1>7 DEF Next, TablesNext

LEMMA FInvStep == FInv /\ [Next]_vars => FInv'
<1> SUFFICES ASSUME FInv, [Next]_vars PROVE FInv'
  OBVIOUS
<1>1. Kept /\ HInv' /\ OInv' /\ OffsetStep
  BY StepKeeps, HInvStep, OInvStep DEF FInv
<1>2. committed' \in Nat /\ AtLeastOnce'
  BY <1>1, OffsetServes
<1>3. steady' \subseteq Enabled'
  BY SteadyStays DEF FInv, HInv
<1>4. ASSUME NEW c \in Consumers PROVE RowInHand(c)' /\ LoopServes(c)'
  <2>0. TInv /\ RowInHand(c) /\ LoopServes(c) /\ con \in [Consumers -> ConsumerType]
    BY DEF FInv, HInv, TInv, TypeOK, ConsumersTypeOK
  <2>1. CASE con'[c] = con[c]
    BY <1>1, <2>0, <2>1, StandStill
  <2>2. ASSUME NEW d \in Consumers, ConsumerStep(d) \/ ConsumerFault(d)
        PROVE  con'[c] = con[c] \/ c = d
    BY <2>0, <2>2
    DEF ConsumerStep, ConsumerFault, Join, Fetch, LoadSubscriptions, CreateFirst,
        CreateRefused, Deliver, ResolveFirst, IndexFirst, ScheduleRetry,
        ScheduleUnanswered, consumerVars, CommitOffset, Fenced, Throw, CommitThrows,
        Crash, Evict
  <2>3. CASE ConsumersNext
    BY <1>1, <2>1, <2>2, <2>3, ConsumerServes DEF ConsumersNext, Produce
  <2>4. CASE ~ConsumersNext
    <3>1. con' = con
      BY <2>4 DEF Next, consumerVars, vars
    <3> QED BY <2>1, <3>1
  <2> QED BY <2>3, <2>4
<1> QED BY <1>1, <1>2, <1>3, <1>4 DEF FInv

LEMMA FInvInit == InitialOffset = 0 /\ Init => FInv
<1> SUFFICES ASSUME InitialOffset = 0, Init PROVE FInv
  OBVIOUS
<1>1. HInv /\ OInv
  BY HInvInit, OInvInit
<1>2. committed = 0 /\ steady = Enabled /\ con = [c \in Consumers |-> Out]
  BY DEF Init, TablesInit, ConsumersInit
<1>3. AtLeastOnce
  BY <1>2 DEF AtLeastOnce
<1>4. \A c \in Consumers : RowInHand(c) /\ LoopServes(c)
  BY <1>2 DEF RowInHand, LoopServes, Out, InHand
<1> QED BY <1>1, <1>2, <1>3, <1>4 DEF FInv

\* At-least-once delivery: for a group that starts at the beginning of the
\* partition, the committed offset never passes a message that a steadily
\* enabled subscription was not served, whatever crashes, throws or rebalances.
THEOREM FanOutIsAtLeastOnce == InitialOffset = 0 /\ Spec => []AtLeastOnce
<1>1. FInv => AtLeastOnce
  BY DEF FInv
<1> QED BY <1>1, FInvInit, FInvStep, PTL DEF Spec
=============================================================================
