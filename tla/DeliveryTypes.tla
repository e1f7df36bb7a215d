--------------------------- MODULE DeliveryTypes ----------------------------
(***************************************************************************)
(* The variables of Delivery keep their types, and no worker ever reads a  *)
(* row, job or message that does not exist, for any events, subscriptions, *)
(* workers, slots, schedule and number of failures.  With it, the facts    *)
(* about the tables that the theorems of DeliveryProofs rest on.           *)
(***************************************************************************)
EXTENDS Delivery, SequenceTheorems, TLAPS

-----------------------------------------------------------------------------
(* Facts about the operators of RetrySchedule and DeliveryTables.          *)

LEMMA DelayType == \A n : computeRetryDelay(n) \in Nat
  BY ScheduleAssumption DEF computeRetryDelay, NoDelay

\* The first failure always has a delay: the worker takes the retry branch.
LEMMA FirstDelayExists == 1 < MAX_ATTEMPTS /\ computeRetryDelay(1) # NoDelay
  BY ScheduleAssumption DEF computeRetryDelay, NoDelay

LEMMA AttemptCreated ==
    ASSUME attempts \in Seq(AttemptType), NEW e \in Events, NEW s \in Subs,
           NEW n \in Nat, createPendingAttempt(e, s, n)
    PROVE  /\ attempts' \in Seq(AttemptType)
           /\ NewAttempt \in Nat /\ NewAttempt \notin DOMAIN attempts
           /\ DOMAIN attempts' = DOMAIN attempts \cup {NewAttempt}
           /\ \A a \in DOMAIN attempts : attempts'[a] = attempts[a]
           /\ attempts'[NewAttempt] = [event |-> e, sub |-> s, number |-> n,
                                       status |-> "pending", delay |-> NoDelay]
<1> DEFINE x == [event |-> e, sub |-> s, number |-> n,
                 status |-> "pending", delay |-> NoDelay]
<1>1. x \in AttemptType
  BY DEF AttemptType, NoDelay
<1>2. attempts' = Append(attempts, x)
  BY DEF createPendingAttempt
<1> HIDE DEF x
<1>3. /\ attempts' \in Seq(AttemptType)
      /\ Len(attempts') = Len(attempts) + 1
      /\ attempts'[Len(attempts) + 1] = x
      /\ \A a \in 1..Len(attempts) : attempts'[a] = attempts[a]
  BY <1>1, <1>2
<1>4. /\ Len(attempts) \in Nat
      /\ DOMAIN attempts = 1..Len(attempts)
      /\ DOMAIN attempts' = 1..(Len(attempts) + 1)
  BY <1>3
<1> QED BY <1>3, <1>4 DEF NewAttempt, x

LEMMA EntryReplaced ==
    ASSUME NEW S, NEW q \in Seq(S), NEW i \in DOMAIN q, NEW x \in S
    PROVE  [q EXCEPT ![i] = x] \in Seq(S)
  OBVIOUS

LEMMA EntryTyped ==
    ASSUME NEW S, NEW q \in Seq(S), NEW i \in DOMAIN q
    PROVE  q[i] \in S
  OBVIOUS

LEMMA AttemptUpdated ==
    ASSUME attempts \in Seq(AttemptType), NEW a \in DOMAIN attempts,
           NEW status \in {"pending", "success", "failed", "dead_lettered"},
           NEW delay \in Nat,
           attempts' = [attempts EXCEPT ![a].status = status, ![a].delay = delay]
    PROVE  /\ attempts' \in Seq(AttemptType)
           /\ DOMAIN attempts' = DOMAIN attempts
           /\ \A b \in DOMAIN attempts : b # a => attempts'[b] = attempts[b]
           /\ attempts'[a] = [attempts[a] EXCEPT !.status = status, !.delay = delay]
<1> DEFINE x == [attempts[a] EXCEPT !.status = status, !.delay = delay]
<1>1. attempts' = [attempts EXCEPT ![a] = x]
  OBVIOUS
<1>2. attempts[a] \in AttemptType
  OBVIOUS
<1>3. x \in AttemptType
  BY <1>2 DEF AttemptType
<1> HIDE DEF x
<1>4. attempts' \in Seq(AttemptType)
  <2>1. \A q \in Seq(AttemptType) : \A i \in DOMAIN q : [q EXCEPT ![i] = x] \in Seq(AttemptType)
    BY <1>3, EntryReplaced
  <2>2. [attempts EXCEPT ![a] = x] \in Seq(AttemptType)
    BY <2>1
  <2> QED BY <1>1, <2>2, Zenon
<1>5. DOMAIN attempts' = DOMAIN attempts
  BY <1>1
<1>6. attempts'[a] = x /\ \A b \in DOMAIN attempts : b # a => attempts'[b] = attempts[b]
  BY <1>1
<1> QED BY <1>4, <1>5, <1>6 DEF x

LEMMA UnansweredTyped ==
    ASSUME NEW job \in JobType
    PROVE  /\ unanswered(job) \in JobType
           /\ unanswered(job).event = job.event /\ unanswered(job).sub = job.sub
           /\ unanswered(job).number = job.number /\ unanswered(job).delay = job.delay
           /\ unanswered(job).state = job.state /\ unanswered(job).stalls = job.stalls
           /\ unanswered(job).answered = FALSE
  BY DEF unanswered, JobType

\* An add takes effect, whether its answer arrives or not.
TakesEffect(e, s, n, delay) ==
    addRetry(e, s, n, delay) \/ addRetryUnanswered(e, s, n, delay)

LEMMA AddedOne ==
    ASSUME NEW e \in Events, NEW s \in Subs, NEW n \in Nat, NEW delay \in Nat,
           TakesEffect(e, s, n, delay)
    PROVE  \E x \in JobType :
              /\ jobs' = Append(jobs, x)
              /\ x.event = e /\ x.sub = s /\ x.number = n /\ x.delay = delay
              /\ x.state = "waiting" /\ x.stalls = 0
              /\ x.answered => addRetry(e, s, n, delay)
<1> DEFINE x == newJob(e, s, n, delay)
<1>1. /\ x \in JobType
      /\ x.event = e /\ x.sub = s /\ x.number = n /\ x.delay = delay
      /\ x.state = "waiting" /\ x.stalls = 0 /\ x.answered = TRUE
  BY DEF newJob, JobType
<1>2. CASE addRetry(e, s, n, delay)
  BY <1>1, <1>2 DEF addRetry
<1>3. CASE addRetryUnanswered(e, s, n, delay)
  <2>1. jobs' = Append(jobs, unanswered(x))
    BY <1>3 DEF addRetryUnanswered
  <2> HIDE DEF x
  <2> QED BY <1>1, <2>1, UnansweredTyped
<1> QED BY <1>2, <1>3 DEF TakesEffect

LEMMA JobAdded ==
    ASSUME jobs \in Seq(JobType), NEW e \in Events, NEW s \in Subs, NEW n \in Nat,
           NEW delay \in Nat, TakesEffect(e, s, n, delay)
    PROVE  /\ jobs' \in Seq(JobType)
           /\ DOMAIN jobs \subseteq DOMAIN jobs'
           /\ \A j \in DOMAIN jobs : jobs'[j] = jobs[j]
           /\ \E j \in DOMAIN jobs' : jobs'[j].event = e /\ jobs'[j].sub = s
                                      /\ jobs'[j].number = n
<1>1. PICK x \in JobType : /\ jobs' = Append(jobs, x)
                           /\ x.event = e /\ x.sub = s /\ x.number = n
  BY AddedOne
<1>3. /\ jobs' \in Seq(JobType)
      /\ Len(jobs') = Len(jobs) + 1
      /\ jobs'[Len(jobs) + 1] = x
      /\ \A j \in 1..Len(jobs) : jobs'[j] = jobs[j]
  BY <1>1
<1>4. /\ Len(jobs) \in Nat
      /\ DOMAIN jobs = 1..Len(jobs)
      /\ DOMAIN jobs' = 1..(Len(jobs) + 1)
  BY <1>3
<1> QED BY <1>1, <1>3, <1>4

LEMMA UnansweredBulk ==
    ASSUME NEW bulk \in Seq(JobType)
    PROVE  /\ [i \in DOMAIN bulk |-> unanswered(bulk[i])] \in Seq(JobType)
           /\ DOMAIN [i \in DOMAIN bulk |-> unanswered(bulk[i])] = DOMAIN bulk
<1>1. Len(bulk) \in Nat /\ DOMAIN bulk = 1..Len(bulk)
  OBVIOUS
<1>2. \A i \in 1..Len(bulk) : unanswered(bulk[i]) \in JobType
  BY <1>1, UnansweredTyped, EntryTyped
<1>3. [i \in DOMAIN bulk |-> unanswered(bulk[i])] \in [1..Len(bulk) -> JobType]
  BY <1>1, <1>2
<1>4. ASSUME NEW n \in Nat, NEW q \in [1..n -> JobType] PROVE q \in Seq(JobType)
  OBVIOUS
<1> QED BY <1>1, <1>3, <1>4, Zenon

\* The jobs of a replay come after the others.
LEMMA BulkAdded ==
    ASSUME jobs \in Seq(JobType), NEW bulk \in Seq(JobType), jobs' = jobs \o bulk
    PROVE  /\ jobs' \in Seq(JobType)
           /\ DOMAIN jobs \subseteq DOMAIN jobs'
           /\ \A j \in DOMAIN jobs : jobs'[j] = jobs[j]
           /\ \A j \in DOMAIN jobs' \ DOMAIN jobs :
                \E i \in DOMAIN bulk : jobs'[j] = bulk[i]
<1>1. /\ Len(jobs) \in Nat /\ DOMAIN jobs = 1..Len(jobs)
      /\ Len(bulk) \in Nat /\ DOMAIN bulk = 1..Len(bulk)
  OBVIOUS
<1>2. /\ jobs' \in Seq(JobType) /\ Len(jobs') = Len(jobs) + Len(bulk)
      /\ DOMAIN jobs' = 1..(Len(jobs) + Len(bulk))
      /\ \A j \in 1..(Len(jobs) + Len(bulk)) :
            jobs'[j] = IF j <= Len(jobs) THEN jobs[j] ELSE bulk[j - Len(jobs)]
  OBVIOUS
<1>3. ASSUME NEW j \in DOMAIN jobs' \ DOMAIN jobs
      PROVE  \E i \in DOMAIN bulk : jobs'[j] = bulk[i]
  <2>1. j - Len(jobs) \in DOMAIN bulk /\ jobs'[j] = bulk[j - Len(jobs)]
    BY <1>1, <1>2, <1>3
  <2> QED BY <2>1
<1> QED BY <1>1, <1>2, <1>3

LEMMA LetterAdded ==
    ASSUME deadLetters \in Seq(DeadLetterType), NEW e \in Events, NEW s \in Subs,
           NEW total \in Nat, createDeadLetter(e, s, total)
    PROVE  /\ deadLetters' \in Seq(DeadLetterType)
           /\ DOMAIN deadLetters' = DOMAIN deadLetters \cup {Len(deadLetters) + 1}
           /\ \A d \in DOMAIN deadLetters : deadLetters'[d] = deadLetters[d]
           /\ deadLetters'[Len(deadLetters) + 1]
                = [event |-> e, sub |-> s, total |-> total, resolved |-> FALSE]
<1> DEFINE x == [event |-> e, sub |-> s, total |-> total, resolved |-> FALSE]
<1>1. x \in DeadLetterType
  BY DEF DeadLetterType
<1>2. deadLetters' = Append(deadLetters, x)
  BY DEF createDeadLetter
<1> HIDE DEF x
<1>3. /\ deadLetters' \in Seq(DeadLetterType)
      /\ Len(deadLetters') = Len(deadLetters) + 1
      /\ deadLetters'[Len(deadLetters) + 1] = x
      /\ \A d \in 1..Len(deadLetters) : deadLetters'[d] = deadLetters[d]
  BY <1>1, <1>2
<1>4. /\ Len(deadLetters) \in Nat
      /\ DOMAIN deadLetters = 1..Len(deadLetters)
      /\ DOMAIN deadLetters' = 1..(Len(deadLetters) + 1)
  BY <1>3
<1> QED BY <1>3, <1>4 DEF x

LEMMA LetterResolved ==
    ASSUME deadLetters \in Seq(DeadLetterType), NEW d \in DOMAIN deadLetters,
           deadLetters' = [deadLetters EXCEPT ![d].resolved = TRUE]
    PROVE  /\ deadLetters' \in Seq(DeadLetterType)
           /\ DOMAIN deadLetters' = DOMAIN deadLetters
           /\ \A c \in DOMAIN deadLetters : c # d => deadLetters'[c] = deadLetters[c]
           /\ deadLetters'[d].event = deadLetters[d].event
           /\ deadLetters'[d].sub = deadLetters[d].sub
           /\ deadLetters'[d].total = deadLetters[d].total
           /\ deadLetters'[d].resolved = TRUE
<1> DEFINE x == [deadLetters[d] EXCEPT !.resolved = TRUE]
<1>1. deadLetters' = [deadLetters EXCEPT ![d] = x]
  OBVIOUS
<1>2. deadLetters[d] \in DeadLetterType
  OBVIOUS
<1>3. /\ x \in DeadLetterType /\ x.event = deadLetters[d].event
      /\ x.sub = deadLetters[d].sub /\ x.total = deadLetters[d].total
      /\ x.resolved = TRUE
  BY <1>2 DEF DeadLetterType
<1> HIDE DEF x
<1>4. deadLetters' \in Seq(DeadLetterType) /\ DOMAIN deadLetters' = DOMAIN deadLetters
  <2>1. \A q \in Seq(DeadLetterType) : \A i \in DOMAIN q :
            [q EXCEPT ![i] = x] \in Seq(DeadLetterType)
    BY <1>3, EntryReplaced
  <2>2. [deadLetters EXCEPT ![d] = x] \in Seq(DeadLetterType)
    BY <2>1
  <2>3. DOMAIN deadLetters' = DOMAIN deadLetters
    BY <1>1
  <2> QED BY <1>1, <2>2, <2>3, Zenon
<1>5. deadLetters'[d] = x /\ \A c \in DOMAIN deadLetters : c # d => deadLetters'[c] = deadLetters[c]
  BY <1>1
<1> QED BY <1>3, <1>4, <1>5

LEMMA JobUpdated ==
    ASSUME jobs \in Seq(JobType), NEW j \in DOMAIN jobs,
           NEW state \in {"waiting", "active", "completed", "failed"},
           NEW stalls \in Nat,
           jobs' = [jobs EXCEPT ![j].state = state, ![j].stalls = stalls]
           \/ jobs' = [jobs EXCEPT ![j].state = state]
    PROVE  /\ jobs' \in Seq(JobType)
           /\ DOMAIN jobs' = DOMAIN jobs
           /\ \A i \in DOMAIN jobs : /\ jobs'[i].event = jobs[i].event
                                     /\ jobs'[i].sub = jobs[i].sub
                                     /\ jobs'[i].number = jobs[i].number
                                     /\ jobs'[i].delay = jobs[i].delay
                                     /\ jobs'[i].answered = jobs[i].answered
<1>1. jobs[j] \in JobType
  OBVIOUS
<1>2. PICK x \in JobType : /\ jobs' = [jobs EXCEPT ![j] = x]
                           /\ x.event = jobs[j].event /\ x.sub = jobs[j].sub
                           /\ x.number = jobs[j].number /\ x.delay = jobs[j].delay
                           /\ x.answered = jobs[j].answered
  <2>1. CASE jobs' = [jobs EXCEPT ![j].state = state, ![j].stalls = stalls]
    <3> DEFINE x == [jobs[j] EXCEPT !.state = state, !.stalls = stalls]
    <3>1. x \in JobType /\ x.event = jobs[j].event /\ x.sub = jobs[j].sub
          /\ x.number = jobs[j].number /\ x.delay = jobs[j].delay
          /\ x.answered = jobs[j].answered
      BY <1>1 DEF JobType
    <3>2. jobs' = [jobs EXCEPT ![j] = x]
      BY <2>1
    <3> QED BY <3>1, <3>2
  <2>2. CASE jobs' = [jobs EXCEPT ![j].state = state]
    <3> DEFINE x == [jobs[j] EXCEPT !.state = state]
    <3>1. x \in JobType /\ x.event = jobs[j].event /\ x.sub = jobs[j].sub
          /\ x.number = jobs[j].number /\ x.delay = jobs[j].delay
          /\ x.answered = jobs[j].answered
      BY <1>1 DEF JobType
    <3>2. jobs' = [jobs EXCEPT ![j] = x]
      BY <2>2
    <3> QED BY <3>1, <3>2
  <2> QED BY <2>1, <2>2
<1>3. jobs' \in Seq(JobType) /\ DOMAIN jobs' = DOMAIN jobs
  BY <1>2
<1> QED BY <1>2, <1>3

-----------------------------------------------------------------------------
(* The inductive invariant: types, and pointers that lead somewhere.       *)

InHand == {"deliver", "resolve", "index", "retry"}

\* A delivery worker past the poll has its message, and past the insert its row.
ConOK(x) ==
    /\ x \in ConsumerType
    /\ x.pc \notin {"out", "poll"} => x.offset < Len(log)
    /\ x.pc \in InHand => x.attempt \in DOMAIN attempts

\* A busy slot has its job, and past the insert its row.
SlotOK(y) ==
    /\ y \in SlotType
    /\ y.pc # "idle" => y.job \in DOMAIN jobs
    /\ y.pc \in {"deliver", "resolve"} => y.attempt \in DOMAIN attempts

\* A manual retry has its dead letter, and past the insert its row.
ManualOK(z) ==
    /\ z \in ManualType
    /\ z.pc # "unsent" => z.letter \in DOMAIN deadLetters
    /\ z.pc \in {"deliver", "resolve"} => z.attempt \in DOMAIN attempts

Pointers == /\ \A c \in Consumers : ConOK(con[c])
            /\ \A k \in Slots : SlotOK(slot[k])
            /\ \A m \in ManualRetries : ManualOK(manual[m])

TInv == TypeOK /\ Pointers

TablesGrow == /\ DOMAIN attempts \subseteq DOMAIN attempts'
              /\ DOMAIN jobs \subseteq DOMAIN jobs'
              /\ DOMAIN deadLetters \subseteq DOMAIN deadLetters'
              /\ Len(log) <= Len(log')

\* What is still there stays pointed to.
LEMMA PointersKept ==
    ASSUME log \in Seq(Events), log' \in Seq(Events), TablesGrow
    PROVE  /\ \A x : ConOK(x) => ConOK(x)'
           /\ \A y : SlotOK(y) => SlotOK(y)'
           /\ \A z : ManualOK(z) => ManualOK(z)'
<1>1. Len(log) \in Nat /\ Len(log') \in Nat
  OBVIOUS
<1>2. ASSUME NEW x, ConOK(x) PROVE ConOK(x)'
  <2>1. x.offset \in Nat
    BY <1>2 DEF ConOK, ConsumerType
  <2> QED BY <1>1, <1>2, <2>1 DEF ConOK, TablesGrow
<1>3. ASSUME NEW y, SlotOK(y) PROVE SlotOK(y)'
  BY <1>3 DEF SlotOK, TablesGrow
<1>4. ASSUME NEW z, ManualOK(z) PROVE ManualOK(z)'
  BY <1>4 DEF ManualOK, TablesGrow
<1> QED BY <1>2, <1>3, <1>4

\* The requests keep their places when they do not move.
LEMMA RequestsKept ==
    ASSUME TInv, log' \in Seq(Events), TablesGrow, UNCHANGED requestVars
    PROVE  RedeliveryTypeOK' /\ \A m \in ManualRetries : ManualOK(manual[m])'
  BY PointersKept
  DEF TInv, Pointers, TypeOK, ConsumersTypeOK, RedeliveryTypeOK, requestVars

\* A step of one delivery worker is a new record for it and new tables.
LEMMA ConsumerUpdate ==
    ASSUME TInv, NEW c \in Consumers, NEW x, con' = [con EXCEPT ![c] = x],
           ConOK(x)', TablesGrow, TablesTypeOK', UNCHANGED <<log, retryVars, requestVars>>,
           committed' \in Nat \cup {NoOffset}, owner' \subseteq Consumers,
           faults' \in Nat
    PROVE  TInv'
<1>1. ConsumersTypeOK' /\ RetryTypeOK'
  BY DEF TInv, TypeOK, ConsumersTypeOK, RetryTypeOK, retryVars, ConOK
<1>2. \A d \in Consumers : ConOK(con[d])'
  <2>1. ASSUME NEW d \in Consumers, d # c PROVE ConOK(con[d])'
    <3>1. con'[d] = con[d]
      BY <2>1 DEF TInv, TypeOK, ConsumersTypeOK
    <3> QED BY <3>1, PointersKept DEF TInv, Pointers, TypeOK, ConsumersTypeOK
  <2>2. con'[c] = x
    BY DEF TInv, TypeOK, ConsumersTypeOK
  <2> QED BY <2>1, <2>2
<1>3. \A k \in Slots : SlotOK(slot[k])'
  BY PointersKept DEF TInv, Pointers, TypeOK, ConsumersTypeOK, retryVars
<1>4. RedeliveryTypeOK' /\ \A m \in ManualRetries : ManualOK(manual[m])'
  BY <1>1, RequestsKept DEF ConsumersTypeOK
<1> QED BY <1>1, <1>2, <1>3, <1>4 DEF TInv, TypeOK, Pointers

LEMMA SlotUpdate ==
    ASSUME TInv, NEW k \in Slots, NEW y, slot' = [slot EXCEPT ![k] = y],
           SlotOK(y)', TablesGrow, TablesTypeOK', UNCHANGED <<consumerVars, build, requestVars>>,
           retryFaults' \in Nat
    PROVE  TInv'
<1>1. ConsumersTypeOK' /\ RetryTypeOK'
  BY DEF TInv, TypeOK, ConsumersTypeOK, RetryTypeOK, consumerVars, SlotOK
<1>2. \A i \in Slots : SlotOK(slot[i])'
  <2>1. ASSUME NEW i \in Slots, i # k PROVE SlotOK(slot[i])'
    <3>1. slot'[i] = slot[i]
      BY <2>1 DEF TInv, TypeOK, RetryTypeOK
    <3> QED BY <3>1, <1>1, PointersKept DEF TInv, Pointers, TypeOK, ConsumersTypeOK
  <2>2. slot'[k] = y
    BY DEF TInv, TypeOK, RetryTypeOK
  <2> QED BY <2>1, <2>2
<1>3. \A c \in Consumers : ConOK(con[c])'
  BY <1>1, PointersKept DEF TInv, Pointers, TypeOK, ConsumersTypeOK, consumerVars
<1>4. RedeliveryTypeOK' /\ \A m \in ManualRetries : ManualOK(manual[m])'
  BY <1>1, RequestsKept DEF ConsumersTypeOK
<1> QED BY <1>1, <1>2, <1>3, <1>4 DEF TInv, TypeOK, Pointers

-----------------------------------------------------------------------------
(* The delivery workers keep the invariant.                                *)

LEMMA ConTyped ==
    ASSUME TInv, NEW c \in Consumers
    PROVE  ConOK(con[c])
  BY DEF TInv, Pointers

LEMMA OutOK == ConOK(Out)
  BY DEF ConOK, Out, ConsumerType, InHand

LEMMA PollingOK == \A offset \in Nat : ConOK(Polling(offset))
  BY DEF ConOK, Polling, Out, ConsumerType, InHand

LEMMA DoneWithOneOK ==
    ASSUME TInv, NEW c \in Consumers, con[c].pc \in InHand
    PROVE  ConOK(DoneWithOne(c))
  BY ConTyped DEF ConOK, DoneWithOne, Out, ConsumerType, InHand

\* Steps that touch no table, and change no more than the worker's record.
LEMMA RecordStep ==
    ASSUME TInv, NEW c \in Consumers, NEW x, con' = [con EXCEPT ![c] = x],
           ConOK(x), UNCHANGED <<tableVars, log, retryVars, requestVars>>,
           committed' \in Nat \cup {NoOffset}, owner' \subseteq Consumers,
           faults' \in Nat
    PROVE  TInv'
<1>1. TablesTypeOK' /\ TablesGrow
  BY DEF TInv, TypeOK, TablesTypeOK, ConsumersTypeOK, tableVars, TablesGrow,
         AttemptType, DeadLetterType, JobType
<1>2. ConOK(x)'
  BY DEF ConOK, tableVars
<1> QED BY <1>1, <1>2, ConsumerUpdate

LEMMA ConsumerTypes ==
    ASSUME TInv, NEW c \in Consumers, ConsumerStep(c), UNCHANGED <<retryVars, requestVars>>
    PROVE  TInv'
<1> DEFINE x(pc) == [con[c] EXCEPT !.pc = pc]
<1>0. /\ ConOK(con[c]) /\ con[c].offset \in Nat
      /\ committed \in Nat \cup {NoOffset} /\ owner \subseteq Consumers
      /\ faults \in Nat /\ con \in [Consumers -> ConsumerType]
      /\ Len(log) \in Nat /\ NoOffset \notin Nat
  BY ConTyped, ConsumerAssumption DEF TInv, TypeOK, ConsumersTypeOK, ConOK, ConsumerType
<1>1. CASE Join(c)
  <2>1. StartOffset \in Nat
    BY <1>0 DEF StartOffset
  <2> QED BY <1>0, <1>1, <2>1, PollingOK, RecordStep DEF Join
<1>2. CASE Fetch(c)
  <2>1. con' = [con EXCEPT ![c] = x("load")] /\ ConOK(x("load"))
    BY <1>0, <1>2 DEF Fetch, At, ConOK, ConsumerType, InHand
  <2> QED BY <1>0, <1>2, <2>1, RecordStep DEF Fetch
<1>3. CASE LoadSubscriptions(c)
  <2> DEFINE y == [con[c] EXCEPT !.todo = Enabled,
                                 !.pc = IF Enabled = {} THEN "commit" ELSE "create"]
  <2>1. con' = [con EXCEPT ![c] = y]
    BY <1>3 DEF LoadSubscriptions
  <2>2. ConOK(y)
    BY <1>0, <1>3 DEF LoadSubscriptions, At, ConOK, ConsumerType, InHand, Enabled
  <2> QED BY <1>0, <1>3, <2>1, <2>2, RecordStep DEF LoadSubscriptions
<1>4. CASE CreateFirst(c)
  <2>1. PICK s \in con[c].todo : createPendingAttempt(Event(c), s, 1)
    BY <1>4 DEF CreateFirst
  <2>2. Event(c) \in Events /\ s \in Subs
    BY <1>0, <1>4 DEF CreateFirst, At, ConOK, ConsumerType, Event, TInv, TypeOK, ConsumersTypeOK
  <2>3. /\ attempts' \in Seq(AttemptType)
        /\ NewAttempt \in Nat
        /\ DOMAIN attempts' = DOMAIN attempts \cup {NewAttempt}
    BY <2>1, <2>2, AttemptCreated DEF TInv, TypeOK, TablesTypeOK
  <2>4. PICK y : /\ y = [con[c] EXCEPT !.pc = "deliver", !.attempt = NewAttempt]
                 /\ con' = [con EXCEPT ![c] = y]
    BY <1>4 DEF CreateFirst
  <2>5. ConOK(y)'
    BY <1>0, <1>4, <2>3, <2>4 DEF CreateFirst, At, ConOK, ConsumerType, InHand
  <2>6. TablesTypeOK' /\ TablesGrow
    BY <1>0, <1>4, <2>3 DEF CreateFirst, TInv, TypeOK, TablesTypeOK, TablesGrow
  <2> QED BY <1>0, <1>4, <2>4, <2>5, <2>6, ConsumerUpdate DEF CreateFirst
<1>5. CASE CreateRefused(c)
  BY <1>0, <1>5, PollingOK, RecordStep DEF CreateRefused
<1>6. CASE Deliver(c)
  <2>1. PICK ok \in BOOLEAN : con' = [con EXCEPT ![c].pc = "resolve", ![c].success = ok]
    BY <1>6 DEF Deliver
  <2> DEFINE y == [con[c] EXCEPT !.pc = "resolve", !.success = ok]
  <2>2. con' = [con EXCEPT ![c] = y]
    BY <2>1
  <2>3. ConOK(y)
    BY <1>0, <1>6 DEF Deliver, At, ConOK, ConsumerType, InHand
  <2> QED BY <1>0, <1>6, <2>2, <2>3, RecordStep DEF Deliver
<1>7. CASE ResolveFirst(c)
  <2>1. Attempt(c) \in DOMAIN attempts
    BY <1>0, <1>7 DEF ResolveFirst, At, ConOK, InHand, Attempt
  <2>2. FirstDelay(con[c].success) \in Nat
    BY DelayType DEF FirstDelay, NoDelay
  <2>3. attempts' \in Seq(AttemptType) /\ DOMAIN attempts' = DOMAIN attempts
    BY <1>7, <2>1, <2>2, AttemptUpdated
    DEF ResolveFirst, resolveAttempt, TInv, TypeOK, TablesTypeOK
  <2>4. PICK y : y = x("index") /\ con' = [con EXCEPT ![c] = y]
    BY <1>7 DEF ResolveFirst
  <2>6. ConOK(y)'
    BY <1>0, <1>7, <2>3, <2>4 DEF ResolveFirst, At, ConOK, ConsumerType, InHand
  <2>5. TablesTypeOK' /\ TablesGrow
    BY <1>0, <1>7, <2>3 DEF ResolveFirst, TInv, TypeOK, TablesTypeOK, TablesGrow
  <2> QED BY <1>0, <1>7, <2>4, <2>5, <2>6, ConsumerUpdate DEF ResolveFirst
<1>8. CASE IndexFirst(c)
  <2>1. PICK y \in {DoneWithOne(c), x("retry")} : con' = [con EXCEPT ![c] = y]
    BY <1>8 DEF IndexFirst
  <2>2. ConOK(y)
    BY <1>0, <1>8, DoneWithOneOK DEF IndexFirst, At, ConOK, ConsumerType, InHand
  <2>3. Attempt(c) \in Nat
    BY <1>0 DEF ConOK, ConsumerType, Attempt
  <2>4. TablesTypeOK' /\ TablesGrow
    BY <1>0, <1>8, <2>3
    DEF IndexFirst, FirstStatus, addIndexJob, TInv, TypeOK, TablesTypeOK, TablesGrow
  <2>5. ConOK(y)'
    BY <1>8, <2>2 DEF IndexFirst, ConOK
  <2> QED BY <1>0, <1>8, <2>1, <2>4, <2>5, ConsumerUpdate DEF IndexFirst
<1>9. CASE ScheduleRetry(c)
  <2>1. con[c].pc \in InHand /\ Event(c) \in Events
    BY <1>0, <1>9
    DEF ScheduleRetry, At, InHand, ConOK, Event, TInv, TypeOK, ConsumersTypeOK
  <2>2. attempts[Attempt(c)].sub \in Subs
    <3>1. Attempt(c) \in DOMAIN attempts /\ attempts \in Seq(AttemptType)
      BY <1>0, <2>1 DEF ConOK, Attempt, TInv, TypeOK, TablesTypeOK
    <3>2. attempts[Attempt(c)] \in AttemptType
      BY <3>1, EntryTyped
    <3> QED BY <3>2 DEF AttemptType
  <2>3. jobs' \in Seq(JobType) /\ DOMAIN jobs \subseteq DOMAIN jobs'
    BY <1>9, <2>1, <2>2, DelayType, JobAdded
    DEF ScheduleRetry, TakesEffect, TInv, TypeOK, TablesTypeOK
  <2>4. PICK y : y = DoneWithOne(c) /\ con' = [con EXCEPT ![c] = y]
    BY <1>9 DEF ScheduleRetry
  <2>6. ConOK(y)'
    BY <1>9, <2>1, <2>4, DoneWithOneOK DEF ScheduleRetry, ConOK
  <2>5. TablesTypeOK' /\ TablesGrow
    BY <1>0, <1>9, <2>3 DEF ScheduleRetry, TInv, TypeOK, TablesTypeOK, TablesGrow
  <2> QED BY <1>0, <1>9, <2>4, <2>5, <2>6, ConsumerUpdate DEF ScheduleRetry
<1>10. CASE CommitOffset(c)
  <2>1. con[c].offset + 1 \in Nat
    BY <1>0
  <2> QED BY <1>0, <1>10, <2>1, PollingOK, RecordStep DEF CommitOffset
<1>11. CASE Fenced(c)
  BY <1>0, <1>11, OutOK, RecordStep DEF Fenced
<1> QED BY <1>1, <1>2, <1>3, <1>4, <1>5, <1>6, <1>7, <1>8, <1>9, <1>10, <1>11
        DEF ConsumerStep

LEMMA ConsumerFaultTypes ==
    ASSUME TInv, NEW c \in Consumers, ConsumerFault(c), UNCHANGED <<retryVars, requestVars>>
    PROVE  TInv'
<1>0. /\ ConOK(con[c]) /\ con[c].offset \in Nat
      /\ committed \in Nat \cup {NoOffset} /\ owner \subseteq Consumers
      /\ faults \in Nat /\ con \in [Consumers -> ConsumerType]
  BY ConTyped DEF TInv, TypeOK, ConsumersTypeOK, ConOK, ConsumerType
<1>1. faults' \in Nat
  BY <1>0
  DEF ConsumerFault, ScheduleUnanswered, Throw, CommitThrows, Crash, Evict, Fault,
      consumerVars
<1>2. CASE Throw(c)
  BY <1>0, <1>1, <1>2, PollingOK, RecordStep DEF Throw
<1>3. CASE Crash(c)
  BY <1>0, <1>1, <1>3, OutOK, RecordStep DEF Crash
<1>4. CASE Evict(c)
  <2>1. con' = [con EXCEPT ![c] = con[c]] /\ owner' \subseteq Consumers
    BY <1>0, <1>4 DEF Evict
  <2> QED BY <1>0, <1>1, <1>4, <2>1, RecordStep DEF Evict
<1>5. CASE CommitThrows(c)
  <2>1. con[c].offset + 1 \in Nat
    BY <1>0
  <2> QED BY <1>0, <1>1, <1>5, <2>1, PollingOK, RecordStep DEF CommitThrows
<1>6. CASE ScheduleUnanswered(c)
  <2>1. Attempt(c) \in DOMAIN attempts /\ Event(c) \in Events
    BY <1>0, <1>6
    DEF ScheduleUnanswered, At, InHand, ConOK, Attempt, Event, TInv, TypeOK,
        ConsumersTypeOK
  <2>2. attempts[Attempt(c)].sub \in Subs
    <3>1. attempts[Attempt(c)] \in AttemptType
      BY <2>1, EntryTyped DEF TInv, TypeOK, TablesTypeOK
    <3> QED BY <3>1 DEF AttemptType
  <2>3. jobs' \in Seq(JobType) /\ DOMAIN jobs \subseteq DOMAIN jobs'
    BY <1>6, <2>1, <2>2, DelayType, JobAdded
    DEF ScheduleUnanswered, TakesEffect, TInv, TypeOK, TablesTypeOK
  <2>4. con' = [con EXCEPT ![c] = con[c]] /\ UNCHANGED <<log, committed, owner>>
    BY <1>0, <1>6 DEF ScheduleUnanswered, consumerVars
  <2>5. ConOK(con[c])'
    BY <1>0, <1>6, <2>4 DEF ScheduleUnanswered, ConOK, consumerVars
  <2>6. TablesTypeOK' /\ TablesGrow
    BY <1>0, <1>6, <2>3
    DEF ScheduleUnanswered, TInv, TypeOK, TablesTypeOK, TablesGrow, consumerVars
  <2>7. PICK y : y = con[c]
    OBVIOUS
  <2>8. con' = [con EXCEPT ![c] = y] /\ ConOK(y)'
    BY <1>0, <1>6, <2>4, <2>5, <2>7 DEF ScheduleUnanswered, ConOK, consumerVars
  <2> QED BY <1>0, <1>1, <2>4, <2>6, <2>8, ConsumerUpdate
<1> QED BY <1>2, <1>3, <1>4, <1>5, <1>6 DEF ConsumerFault

LEMMA ProduceTypes ==
    ASSUME TInv, Produce, UNCHANGED <<retryVars, requestVars>>
    PROVE  TInv'
<1>1. PICK e \in Events : log' = Append(log, e)
  BY DEF Produce
<1>2. log \in Seq(Events)
  BY DEF TInv, TypeOK, ConsumersTypeOK
<1>3. log' \in Seq(Events) /\ Len(log) <= Len(log')
  BY <1>1, <1>2
<1>4. TablesTypeOK' /\ ConsumersTypeOK' /\ RetryTypeOK' /\ TablesGrow
  BY <1>3
  DEF Produce, TInv, TypeOK, TablesTypeOK, ConsumersTypeOK, RetryTypeOK,
      tableVars, retryVars, TablesGrow
<1>5. RedeliveryTypeOK' /\ Pointers'
  BY <1>2, <1>3, <1>4, PointersKept, RequestsKept DEF Produce, TInv, Pointers, retryVars
<1> QED BY <1>4, <1>5 DEF TInv, TypeOK

-----------------------------------------------------------------------------
(* The subscriptions and the retry worker keep it.                         *)

LEMMA TablesTypes ==
    ASSUME TInv, TablesNext, UNCHANGED <<consumerVars, retryVars, requestVars>>
    PROVE  TInv'
<1>1. TablesTypeOK'
  BY DEF TablesNext, createSubscription, updateSubscription, deleteSubscription,
         TInv, TypeOK, TablesTypeOK
<1>2. UNCHANGED <<attempts, jobs, deadLetters>>
  BY DEF TablesNext, createSubscription, updateSubscription, deleteSubscription
<1>3. ConsumersTypeOK' /\ RetryTypeOK' /\ RedeliveryTypeOK'
  BY DEF TInv, TypeOK, ConsumersTypeOK, RetryTypeOK, RedeliveryTypeOK,
         consumerVars, retryVars, requestVars
<1>4. Pointers'
  BY <1>2 DEF TInv, Pointers, ConOK, SlotOK, ManualOK, consumerVars, retryVars, requestVars
<1> QED BY <1>1, <1>3, <1>4 DEF TInv, TypeOK

LEMMA SlotTyped ==
    ASSUME TInv, NEW k \in Slots
    PROVE  /\ SlotOK(slot[k]) /\ slot[k] \in SlotType
           /\ slot[k].pc # "idle" =>
                JobOf(k).event \in Events /\ JobOf(k).sub \in Subs
                /\ JobOf(k).number \in Nat
<1>1. SlotOK(slot[k])
  BY DEF TInv, Pointers
<1>2. ASSUME slot[k].pc # "idle" PROVE JobOf(k) \in JobType
  BY <1>1, <1>2, EntryTyped DEF SlotOK, JobOf, TInv, TypeOK, TablesTypeOK
<1> QED BY <1>1, <1>2 DEF SlotOK, JobType

LEMMA FreeOK == SlotOK(Free)
  BY DEF SlotOK, Free, SlotType

\* Steps that touch no table.
LEMMA SlotRecordStep ==
    ASSUME TInv, NEW k \in Slots, NEW y, slot' = [slot EXCEPT ![k] = y], SlotOK(y),
           UNCHANGED <<tableVars, consumerVars, build, requestVars>>, retryFaults' \in Nat
    PROVE  TInv'
<1>1. log' = log /\ Len(log) \in Nat
  BY DEF consumerVars, TInv, TypeOK, ConsumersTypeOK
<1>2. TablesTypeOK' /\ TablesGrow
  BY <1>1 DEF TInv, TypeOK, TablesTypeOK, tableVars, TablesGrow
<1>3. SlotOK(y)'
  BY DEF SlotOK, tableVars
<1> QED BY <1>2, <1>3, SlotUpdate

\* A job's record changes its state and nothing that SlotOK looks at.
LEMMA FinishTypes ==
    ASSUME TInv, NEW k \in Slots, NEW j \in DOMAIN jobs,
           NEW state \in {"waiting", "active", "completed", "failed"},
           MoveJob(j, state) \/ UNCHANGED jobs, NEW y, slot' = [slot EXCEPT ![k] = y], SlotOK(y),
           UNCHANGED <<sub, steady, attempts, deadLetters, indexJobs>>,
           UNCHANGED <<consumerVars, build, requestVars>>, retryFaults' \in Nat
    PROVE  TInv'
<1>1. /\ jobs \in Seq(JobType)
      /\ jobs' = [jobs EXCEPT ![j].state = state] \/ UNCHANGED jobs
  BY DEF TInv, TypeOK, TablesTypeOK, MoveJob
<1>2. jobs' \in Seq(JobType) /\ DOMAIN jobs' = DOMAIN jobs
  BY <1>1, JobUpdated, 0 \in Nat
<1>3. log' = log /\ Len(log) \in Nat
  BY DEF consumerVars, TInv, TypeOK, ConsumersTypeOK
<1>4. TablesTypeOK' /\ TablesGrow
  BY <1>2, <1>3 DEF TInv, TypeOK, TablesTypeOK, TablesGrow
<1>5. SlotOK(y)'
  BY <1>2 DEF SlotOK
<1> QED BY <1>4, <1>5, SlotUpdate

LEMMA JobFailsTypes ==
    ASSUME TInv, NEW k \in Slots, slot[k].pc # "idle", JobFails(k),
           UNCHANGED <<consumerVars, build, requestVars>>, retryFaults' \in Nat
    PROVE  TInv'
<1>1. slot[k].job \in DOMAIN jobs
  BY SlotTyped DEF SlotOK
<1> QED BY <1>1, FreeOK, FinishTypes DEF JobFails, FinishJob

LEMMA SlotTypes ==
    ASSUME TInv, NEW k \in Slots, SlotStep(k), UNCHANGED <<consumerVars, build, requestVars>>
    PROVE  TInv'
<1> DEFINE y(pc) == [slot[k] EXCEPT !.pc = pc]
<1>0. /\ SlotOK(slot[k]) /\ slot[k] \in SlotType /\ retryFaults \in Nat
      /\ slot \in [Slots -> SlotType]
      /\ log' = log /\ Len(log) \in Nat
  BY SlotTyped DEF TInv, TypeOK, RetryTypeOK, ConsumersTypeOK, consumerVars
<1>1. CASE Take(k)
  <2>1. PICK j \in DOMAIN jobs :
            MoveJob(j, "active")
            /\ slot' = [slot EXCEPT ![k] = [Free EXCEPT !.pc = "load", !.job = j,
                                                        !.locked = TRUE]]
    BY <1>1 DEF Take
  <2>2. j \in Nat
    BY DEF TInv, TypeOK, TablesTypeOK
  <2>3. PICK z : z = [Free EXCEPT !.pc = "load", !.job = j, !.locked = TRUE]
    OBVIOUS
  <2>4. SlotOK(z)
    BY <2>2, <2>3 DEF SlotOK, Free, SlotType
  <2> QED BY <1>0, <1>1, <2>1, <2>3, <2>4, FinishTypes DEF Take
<1>2. CASE Load(k)
  <2>1. PICK z \in {y("create"), y("return")} : slot' = [slot EXCEPT ![k] = z]
    BY <1>2 DEF Load
  <2>2. SlotOK(z)
    BY <1>0, <1>2 DEF Load, SlotAt, SlotOK, SlotType
  <2> QED BY <1>0, <1>2, <2>1, <2>2, SlotRecordStep DEF Load
<1>3. CASE CreateNext(k)
  <2>1. /\ JobOf(k).event \in Events /\ JobOf(k).sub \in Subs
        /\ JobOf(k).number \in Nat
    BY <1>3, SlotTyped DEF CreateNext, SlotAt
  <2>2. /\ attempts' \in Seq(AttemptType)
        /\ NewAttempt \in Nat
        /\ DOMAIN attempts' = DOMAIN attempts \cup {NewAttempt}
    BY <1>3, <2>1, AttemptCreated DEF CreateNext, TInv, TypeOK, TablesTypeOK
  <2>3. PICK z : /\ z = [slot[k] EXCEPT !.pc = "deliver", !.attempt = NewAttempt]
                 /\ slot' = [slot EXCEPT ![k] = z]
    BY <1>3 DEF CreateNext
  <2>4. SlotOK(z)'
    BY <1>0, <1>3, <2>2, <2>3 DEF CreateNext, SlotAt, SlotOK, SlotType
  <2>5. TablesTypeOK' /\ TablesGrow
    BY <1>0, <1>3, <2>2 DEF CreateNext, TInv, TypeOK, TablesTypeOK, TablesGrow
  <2> QED BY <1>0, <1>3, <2>3, <2>4, <2>5, SlotUpdate DEF CreateNext
<1>4. CASE Redeliver(k)
  <2>1. PICK ok \in BOOLEAN : slot' = [slot EXCEPT ![k].pc = "resolve", ![k].success = ok]
    BY <1>4 DEF Redeliver
  <2>2. PICK z : /\ z = [slot[k] EXCEPT !.pc = "resolve", !.success = ok]
                 /\ slot' = [slot EXCEPT ![k] = z]
    BY <2>1
  <2>3. SlotOK(z)
    BY <1>0, <1>4, <2>2 DEF Redeliver, SlotAt, SlotOK, SlotType
  <2> QED BY <1>0, <1>4, <2>2, <2>3, SlotRecordStep DEF Redeliver
<1>5. CASE ResolveNext(k)
  <2>1. slot[k].attempt \in DOMAIN attempts
    BY <1>0, <1>5 DEF ResolveNext, SlotAt, SlotOK
  <2>2. PICK status \in {"success", "failed", "dead_lettered"}, delay \in Nat :
            attempts' = [attempts EXCEPT ![slot[k].attempt].status = status,
                                         ![slot[k].attempt].delay = delay]
    <3>1. NoDelay \in Nat /\ computeRetryDelay(JobOf(k).number) \in Nat
      BY DelayType DEF NoDelay
    <3> QED BY <1>5, <3>1 DEF ResolveNext, resolveAttempt, deadLetterAttempt
  <2>3. attempts' \in Seq(AttemptType) /\ DOMAIN attempts' = DOMAIN attempts
    BY <2>1, <2>2, AttemptUpdated DEF TInv, TypeOK, TablesTypeOK
  <2>4. PICK z : z = y("index") /\ slot' = [slot EXCEPT ![k] = z]
    BY <1>5 DEF ResolveNext
  <2>5. SlotOK(z)'
    BY <1>0, <1>5, <2>3, <2>4 DEF ResolveNext, SlotAt, SlotOK, SlotType
  <2>6. TablesTypeOK' /\ TablesGrow
    BY <1>0, <1>5, <2>3 DEF ResolveNext, TInv, TypeOK, TablesTypeOK, TablesGrow
  <2> QED BY <1>0, <1>5, <2>4, <2>5, <2>6, SlotUpdate DEF ResolveNext
<1>6. CASE IndexNext(k)
  <2>1. PICK z \in {y("return"), y("bury"), y("again")} : slot' = [slot EXCEPT ![k] = z]
    BY <1>6 DEF IndexNext, AfterIndex
  <2>2. SlotOK(z) /\ slot[k].attempt \in Nat
    BY <1>0, <1>6 DEF IndexNext, SlotAt, SlotOK, SlotType
  <2>3. SlotOK(z)'
    BY <1>6, <2>2 DEF IndexNext, SlotOK
  <2>4. TablesTypeOK' /\ TablesGrow
    BY <1>0, <1>6, <2>2
    DEF IndexNext, StatusOf, addIndexJob, TInv, TypeOK, TablesTypeOK, TablesGrow
  <2> QED BY <1>0, <1>6, <2>1, <2>3, <2>4, SlotUpdate DEF IndexNext
<1>7. CASE IndexUnbound(k) \/ NextRefused(k)
  BY <1>0, <1>7, JobFailsTypes DEF IndexUnbound, NextRefused, SlotAt
<1>8. CASE Bury(k)
  <2>1. /\ JobOf(k).event \in Events /\ JobOf(k).sub \in Subs
        /\ JobOf(k).number \in Nat
    BY <1>8, SlotTyped DEF Bury, SlotAt
  <2>2. deadLetters' \in Seq(DeadLetterType) /\ DOMAIN deadLetters \subseteq DOMAIN deadLetters'
    BY <1>8, <2>1, LetterAdded DEF Bury, TInv, TypeOK, TablesTypeOK
  <2>3. PICK z : z = y("return") /\ slot' = [slot EXCEPT ![k] = z]
    BY <1>8 DEF Bury
  <2>4. SlotOK(z)'
    BY <1>0, <1>8, <2>3 DEF Bury, SlotAt, SlotOK, SlotType
  <2>5. TablesTypeOK' /\ TablesGrow
    BY <1>0, <1>8, <2>2 DEF Bury, TInv, TypeOK, TablesTypeOK, TablesGrow
  <2> QED BY <1>0, <1>8, <2>3, <2>4, <2>5, SlotUpdate DEF Bury
<1>9. CASE RetryAgain(k)
  <2>1. /\ JobOf(k).event \in Events /\ JobOf(k).sub \in Subs
        /\ JobOf(k).number + 1 \in Nat
    BY <1>9, SlotTyped DEF RetryAgain, SlotAt
  <2>2. jobs' \in Seq(JobType) /\ DOMAIN jobs \subseteq DOMAIN jobs'
    BY <1>9, <2>1, DelayType, JobAdded
    DEF RetryAgain, TakesEffect, TInv, TypeOK, TablesTypeOK
  <2>3. PICK z : z = y("return") /\ slot' = [slot EXCEPT ![k] = z]
    BY <1>9 DEF RetryAgain
  <2>4. SlotOK(z)'
    BY <1>0, <1>9, <2>2, <2>3 DEF RetryAgain, SlotAt, SlotOK, SlotType
  <2>5. TablesTypeOK' /\ TablesGrow
    BY <1>0, <1>9, <2>2 DEF RetryAgain, TInv, TypeOK, TablesTypeOK, TablesGrow
  <2> QED BY <1>0, <1>9, <2>3, <2>4, <2>5, SlotUpdate DEF RetryAgain
<1>10. CASE Complete(k)
  <2>1. slot[k].job \in DOMAIN jobs
    BY <1>0, <1>10 DEF Complete, SlotAt, SlotOK
  <2> QED BY <1>0, <1>10, <2>1, FreeOK, FinishTypes DEF Complete, FinishJob
<1> QED BY <1>1, <1>2, <1>3, <1>4, <1>5, <1>6, <1>7, <1>8, <1>9, <1>10 DEF SlotStep

LEMMA RetryTypes ==
    ASSUME TInv, RetryNext, UNCHANGED <<consumerVars, build, requestVars>>
    PROVE  TInv'
<1>0. /\ retryFaults \in Nat /\ log' = log /\ Len(log) \in Nat
      /\ jobs \in Seq(JobType)
  BY DEF TInv, TypeOK, RetryTypeOK, TablesTypeOK, ConsumersTypeOK, consumerVars
<1>1. ASSUME NEW k \in Slots, RetryThrow(k) PROVE TInv'
  BY <1>0, <1>1, JobFailsTypes DEF RetryThrow, RetryFault, SlotAt
<1>2. CASE RetryCrash
  <2>1. TablesTypeOK' /\ RetryTypeOK' /\ ConsumersTypeOK' /\ RedeliveryTypeOK'
    BY <1>0, <1>2, FreeOK
    DEF RetryCrash, RetryFault, SlotOK, TInv, TypeOK, TablesTypeOK, RetryTypeOK,
        ConsumersTypeOK, RedeliveryTypeOK, tableVars, consumerVars, requestVars
  <2>2. Pointers'
    BY <1>2, FreeOK
    DEF RetryCrash, TInv, Pointers, ConOK, SlotOK, ManualOK, tableVars, consumerVars,
        requestVars
  <2> QED BY <2>1, <2>2 DEF TInv, TypeOK
<1>3. CASE Stalled
  <2>1. PICK j \in DOMAIN jobs :
            jobs' = [jobs EXCEPT
                      ![j].state = IF jobs[j].stalls < 1 THEN "waiting" ELSE "failed",
                      ![j].stalls = @ + 1]
    BY <1>3 DEF Stalled
  <2>2. jobs[j].stalls + 1 \in Nat
    <3>1. jobs[j] \in JobType
      BY <1>0, EntryTyped
    <3> QED BY <3>1 DEF JobType
  <2>3. PICK state \in {"waiting", "failed"}, stalls \in Nat :
            jobs' = [jobs EXCEPT ![j].state = state, ![j].stalls = stalls]
    BY <2>1, <2>2
  <2>4. jobs' \in Seq(JobType) /\ DOMAIN jobs' = DOMAIN jobs
    BY <1>0, <2>3, JobUpdated
  <2>5. TablesTypeOK' /\ RetryTypeOK' /\ ConsumersTypeOK' /\ RedeliveryTypeOK'
    BY <1>0, <1>3, <2>4
    DEF Stalled, TInv, TypeOK, TablesTypeOK, RetryTypeOK, ConsumersTypeOK,
        RedeliveryTypeOK, consumerVars, requestVars
  <2>6. Pointers'
    BY <1>3, <2>4
    DEF Stalled, TInv, Pointers, ConOK, SlotOK, ManualOK, consumerVars, requestVars
  <2> QED BY <2>5, <2>6 DEF TInv, TypeOK
<1>4. ASSUME NEW k \in Slots, LoseLock(k) PROVE TInv'
  <2>1. PICK z : /\ z = [slot[k] EXCEPT !.locked = FALSE]
                 /\ slot' = [slot EXCEPT ![k] = z]
    BY <1>4 DEF LoseLock
  <2>2. SlotOK(z)
    BY <2>1, SlotTyped DEF SlotOK, SlotType
  <2>3. retryFaults' \in Nat
    BY <1>0, <1>4 DEF LoseLock, RetryFault
  <2>4. UNCHANGED <<tableVars, consumerVars, build, requestVars>>
    BY <1>4 DEF LoseLock
  <2> QED BY <2>1, <2>2, <2>3, <2>4, SlotRecordStep
<1>5. ASSUME NEW k \in Slots, AgainUnanswered(k) PROVE TInv'
  <2>1. /\ JobOf(k).event \in Events /\ JobOf(k).sub \in Subs
        /\ JobOf(k).number + 1 \in Nat
    BY <1>5, SlotTyped DEF AgainUnanswered, SlotAt
  <2>2. jobs' \in Seq(JobType) /\ DOMAIN jobs \subseteq DOMAIN jobs'
    BY <1>5, <2>1, DelayType, JobAdded
    DEF AgainUnanswered, TakesEffect, TInv, TypeOK, TablesTypeOK
  <2>3. PICK z : z = slot[k] /\ slot' = [slot EXCEPT ![k] = z]
    BY <1>5 DEF AgainUnanswered, TInv, TypeOK, RetryTypeOK
  <2>4. SlotOK(z)'
    BY <1>0, <1>5, <2>2, <2>3, SlotTyped DEF AgainUnanswered, SlotAt, SlotOK
  <2>5. TablesTypeOK' /\ TablesGrow
    BY <1>0, <1>5, <2>2 DEF AgainUnanswered, TInv, TypeOK, TablesTypeOK, TablesGrow
  <2> QED BY <1>0, <1>5, <2>3, <2>4, <2>5, SlotUpdate DEF AgainUnanswered
<1> QED BY <1>1, <1>2, <1>3, <1>4, <1>5, SlotTypes DEF RetryNext

-----------------------------------------------------------------------------
(* The requests of tenants keep it.                                        *)

LEMMA LetterTyped ==
    ASSUME TInv, NEW m \in ManualRetries
    PROVE  /\ ManualOK(manual[m]) /\ manual[m] \in ManualType
           /\ manual[m].pc # "unsent" =>
                /\ Letter(m).event \in Events /\ Letter(m).sub \in Subs
                /\ Letter(m).total \in Nat
<1>1. ManualOK(manual[m])
  BY DEF TInv, Pointers
<1>2. ASSUME manual[m].pc # "unsent" PROVE Letter(m) \in DeadLetterType
  BY <1>1, <1>2, EntryTyped DEF ManualOK, Letter, TInv, TypeOK, TablesTypeOK
<1> QED BY <1>1, <1>2 DEF ManualOK, DeadLetterType

\* A step of one manual retry is a new record for it and new tables.
LEMMA ManualUpdate ==
    ASSUME TInv, NEW m \in ManualRetries, NEW z, manual' = [manual EXCEPT ![m] = z],
           ManualOK(z)', DOMAIN attempts \subseteq DOMAIN attempts',
           DOMAIN deadLetters \subseteq DOMAIN deadLetters', TablesTypeOK',
           UNCHANGED <<jobs, replay, consumerVars, retryVars>>
    PROVE  TInv'
<1>1. ConsumersTypeOK' /\ RetryTypeOK' /\ RedeliveryTypeOK'
  BY DEF TInv, TypeOK, ConsumersTypeOK, RetryTypeOK, RedeliveryTypeOK, consumerVars,
         retryVars, ManualOK
<1>2. log' \in Seq(Events) /\ log \in Seq(Events) /\ TablesGrow
  <2>1. log' = log /\ Len(log) \in Nat
    BY DEF TInv, TypeOK, ConsumersTypeOK, consumerVars
  <2> QED BY <1>1, <2>1 DEF TablesGrow, ConsumersTypeOK
<1>3. \A n \in ManualRetries : ManualOK(manual[n])'
  <2>1. ASSUME NEW n \in ManualRetries, n # m PROVE ManualOK(manual[n])'
    <3>1. manual'[n] = manual[n]
      BY <2>1 DEF TInv, TypeOK, RedeliveryTypeOK
    <3> QED BY <3>1, <1>2, PointersKept DEF TInv, Pointers
  <2>2. manual'[m] = z
    BY DEF TInv, TypeOK, RedeliveryTypeOK
  <2> QED BY <2>1, <2>2
<1>4. /\ \A c \in Consumers : ConOK(con[c])'
      /\ \A k \in Slots : SlotOK(slot[k])'
  BY <1>2, PointersKept DEF TInv, Pointers, consumerVars, retryVars
<1> QED BY <1>1, <1>3, <1>4 DEF TInv, TypeOK, Pointers

\* The jobs a replay is about to add.
LEMMA BulkTyped ==
    ASSUME NEW events \in Listings, NEW s \in Subs
    PROVE  [i \in DOMAIN events |-> replayJob(events[i], s)] \in Seq(JobType)
<1>1. PICK n \in 0..Cardinality(Events) : events \in [1..n -> Events]
  <2> DEFINE all == {Injection(1..i, Events) : i \in 0..Cardinality(Events)}
  <2>1. events \in UNION all
    BY DEF Listings
  <2> HIDE DEF all
  <2>2. PICK listing \in all : events \in listing
    BY <2>1
  <2>3. PICK n \in 0..Cardinality(Events) : listing = Injection(1..n, Events)
    BY <2>2 DEF all
  <2>4. events \in [1..n -> Events]
    BY <2>2, <2>3, Zenon DEF Injection
  <2> QED BY <2>4
<1>2. n \in Nat
  OBVIOUS
<1>3. \A i \in 1..n : replayJob(events[i], s) \in JobType
  BY <1>1 DEF replayJob, newJob, JobType, NoDelay
<1>4. [i \in DOMAIN events |-> replayJob(events[i], s)] \in [1..n -> JobType]
  BY <1>1, <1>3
<1>5. ASSUME NEW q \in [1..n -> JobType] PROVE q \in Seq(JobType)
  BY <1>2
<1> QED BY <1>4, <1>5, Zenon

LEMMA ReplayTypes ==
    ASSUME TInv, NEW r \in Replays, replaySubscription(r),
           UNCHANGED <<consumerVars, retryVars>>
    PROVE  TInv'
<1>0. /\ replay[r] \in ReplayType /\ jobs \in Seq(JobType)
      /\ log' = log /\ Len(log) \in Nat
  BY DEF TInv, TypeOK, RedeliveryTypeOK, TablesTypeOK, ConsumersTypeOK, consumerVars
<1>1. manual' = manual /\ UNCHANGED <<sub, steady, attempts, deadLetters, indexJobs>>
  BY DEF replaySubscription, ReadEvents, AddBulk, BulkUnanswered, ReplayFails, tableVars,
         requestVars
<1>2. PICK x : replay' = [replay EXCEPT ![r] = x] /\ x \in ReplayType
  <2>1. CASE ReadEvents(r)
    <3>1. PICK s \in Subs, events \in Listings :
            replay' = [replay EXCEPT ![r] =
                        [pc |-> IF events = <<>> THEN "done" ELSE "add",
                         bulk |-> [i \in DOMAIN events |-> replayJob(events[i], s)]]]
      BY <2>1 DEF ReadEvents
    <3>2. PICK bulk \in Seq(JobType) :
            bulk = [i \in DOMAIN events |-> replayJob(events[i], s)]
      BY BulkTyped
    <3>3. PICK pc \in {"done", "add"} : pc = IF events = <<>> THEN "done" ELSE "add"
      OBVIOUS
    <3>4. [pc |-> pc, bulk |-> bulk] \in ReplayType
      BY DEF ReplayType
    <3> QED BY <3>1, <3>2, <3>3, <3>4
  <2>2. CASE BulkUnanswered(r)
    <3>1. replay' = [replay EXCEPT ![r] = replay[r]]
      BY <2>2 DEF BulkUnanswered, requestVars, TInv, TypeOK, RedeliveryTypeOK
    <3> QED BY <1>0, <3>1
  <2>3. CASE AddBulk(r) \/ ReplayFails(r)
    <3>1. PICK pc \in {"done", "error"} :
            replay' = [replay EXCEPT ![r] = [replay[r] EXCEPT !.pc = pc]]
      BY <2>3 DEF AddBulk, ReplayFails
    <3>2. [replay[r] EXCEPT !.pc = pc] \in ReplayType
      BY <1>0 DEF ReplayType
    <3> QED BY <3>1, <3>2
  <2> QED BY <2>1, <2>2, <2>3 DEF replaySubscription
<1>3. jobs' \in Seq(JobType) /\ DOMAIN jobs \subseteq DOMAIN jobs'
  <2>1. CASE AddBulk(r)
    BY <1>0, <2>1, BulkAdded DEF AddBulk, ReplayType
  <2>2. CASE ReadEvents(r) \/ ReplayFails(r)
    BY <1>0, <2>2 DEF ReadEvents, ReplayFails, tableVars
  <2>3. CASE BulkUnanswered(r)
    <3>1. PICK bulk \in Seq(JobType) : jobs' = jobs \o bulk
      BY <1>0, <2>3, UnansweredBulk DEF BulkUnanswered, ReplayType
    <3> QED BY <1>0, <3>1, BulkAdded
  <2> QED BY <2>1, <2>2, <2>3 DEF replaySubscription
<1>4. TablesTypeOK' /\ TablesGrow
  BY <1>0, <1>1, <1>3 DEF TInv, TypeOK, TablesTypeOK, TablesGrow
<1>5. ConsumersTypeOK' /\ RetryTypeOK' /\ RedeliveryTypeOK'
  BY <1>1, <1>2
  DEF TInv, TypeOK, ConsumersTypeOK, RetryTypeOK, RedeliveryTypeOK, consumerVars,
      retryVars
<1>6. Pointers'
  BY <1>0, <1>1, <1>4, <1>5, PointersKept
  DEF TInv, TypeOK, ConsumersTypeOK, Pointers, consumerVars, retryVars
<1> QED BY <1>4, <1>5, <1>6 DEF TInv, TypeOK

LEMMA ManualTypes ==
    ASSUME TInv, NEW m \in ManualRetries, retryDeadLetter(m),
           UNCHANGED <<consumerVars, retryVars>>
    PROVE  TInv'
<1>0. /\ ManualOK(manual[m]) /\ manual[m] \in ManualType
      /\ attempts \in Seq(AttemptType) /\ deadLetters \in Seq(DeadLetterType)
      /\ TablesTypeOK
  BY LetterTyped DEF TInv, TypeOK, TablesTypeOK
<1>1. CASE LoadLetter(m)
  <2>1. PICK d \in DOMAIN deadLetters :
            manual' = [manual EXCEPT ![m] = [manual[m] EXCEPT !.pc = "create", !.letter = d]]
    BY <1>1 DEF LoadLetter
  <2>2. UNCHANGED tableVars /\ replay' = replay
    BY <1>1 DEF LoadLetter
  <2>3. PICK z : z = [manual[m] EXCEPT !.pc = "create", !.letter = d]
    OBVIOUS
  <2>4. d \in Nat
    BY <1>0
  <2>5. ManualOK(z)'
    BY <1>0, <2>2, <2>3, <2>4 DEF ManualOK, ManualType, tableVars
  <2>6. TablesTypeOK'
    BY <1>0, <2>2 DEF TablesTypeOK, tableVars
  <2> QED BY <2>1, <2>2, <2>3, <2>5, <2>6, ManualUpdate DEF tableVars
<1>2. CASE CreateManual(m)
  <2>1. /\ Letter(m).event \in Events /\ Letter(m).sub \in Subs
        /\ ManualNumber(m) \in Nat
    BY <1>2, LetterTyped DEF CreateManual, ManualNumber
  <2>2. /\ attempts' \in Seq(AttemptType)
        /\ NewAttempt \in Nat
        /\ DOMAIN attempts' = DOMAIN attempts \cup {NewAttempt}
    BY <1>0, <1>2, <2>1, AttemptCreated DEF CreateManual
  <2>3. PICK z : /\ z = [manual[m] EXCEPT !.pc = "deliver", !.attempt = NewAttempt]
                 /\ manual' = [manual EXCEPT ![m] = z]
    BY <1>2 DEF CreateManual
  <2>4. ManualOK(z)'
    BY <1>0, <1>2, <2>2, <2>3 DEF CreateManual, ManualOK, ManualType
  <2>5. TablesTypeOK'
    BY <1>0, <1>2, <2>2 DEF CreateManual, TablesTypeOK
  <2> QED BY <1>2, <2>2, <2>3, <2>4, <2>5, ManualUpdate DEF CreateManual
<1>3. CASE DeliverManual(m) \/ ManualFails(m)
  <2>1. PICK z : /\ manual' = [manual EXCEPT ![m] = z]
                 /\ ManualOK(z)
    <3>1. CASE DeliverManual(m)
      <4>1. PICK ok \in BOOLEAN :
                manual' = [manual EXCEPT ![m] = [manual[m] EXCEPT !.pc = "resolve",
                                                                  !.success = ok]]
        BY <3>1 DEF DeliverManual
      <4>2. ManualOK([manual[m] EXCEPT !.pc = "resolve", !.success = ok])
        BY <1>0, <3>1 DEF DeliverManual, ManualOK, ManualType
      <4> QED BY <4>1, <4>2
    <3>2. CASE ManualFails(m)
      <4>1. manual' = [manual EXCEPT ![m] = [manual[m] EXCEPT !.pc = "error"]]
        BY <3>2 DEF ManualFails
      <4>2. ManualOK([manual[m] EXCEPT !.pc = "error"])
        BY <1>0, <3>2 DEF ManualFails, ManualOK, ManualType
      <4> QED BY <4>1, <4>2
    <3> QED BY <1>3, <3>1, <3>2
  <2>2. UNCHANGED tableVars /\ replay' = replay
    BY <1>3 DEF DeliverManual, ManualFails
  <2>3. ManualOK(z)' /\ TablesTypeOK'
    BY <1>0, <2>1, <2>2 DEF ManualOK, TablesTypeOK, tableVars
  <2> QED BY <2>1, <2>2, <2>3, ManualUpdate DEF tableVars
<1>4. CASE ResolveLetter(m) \/ RecordFailure(m)
  <2>1. /\ manual[m].attempt \in DOMAIN attempts
        /\ manual[m].letter \in DOMAIN deadLetters
    BY <1>0, <1>4 DEF ResolveLetter, RecordFailure, ManualOK
  <2>2. PICK status \in {"success", "failed"}, delay \in Nat :
            attempts' = [attempts EXCEPT ![manual[m].attempt].status = status,
                                         ![manual[m].attempt].delay = delay]
    BY <1>4 DEF ResolveLetter, RecordFailure, resolveAttempt, NoDelay
  <2>3. attempts' \in Seq(AttemptType) /\ DOMAIN attempts' = DOMAIN attempts
    BY <1>0, <2>1, <2>2, AttemptUpdated
  <2>4. deadLetters' \in Seq(DeadLetterType) /\ DOMAIN deadLetters' = DOMAIN deadLetters
    BY <1>0, <1>4, <2>1, LetterResolved DEF ResolveLetter, RecordFailure
  <2>5. PICK z : z = [manual[m] EXCEPT !.pc = "done"] /\ manual' = [manual EXCEPT ![m] = z]
    BY <1>4 DEF ResolveLetter, RecordFailure
  <2>6. ManualOK(z)'
    BY <1>0, <2>1, <2>3, <2>4, <2>5 DEF ManualOK, ManualType
  <2>7. TablesTypeOK' /\ UNCHANGED <<jobs, replay>>
    BY <1>0, <1>4, <2>3, <2>4 DEF ResolveLetter, RecordFailure, TablesTypeOK
  <2> QED BY <2>3, <2>4, <2>5, <2>6, <2>7, ManualUpdate
<1> QED BY <1>1, <1>2, <1>3, <1>4 DEF retryDeadLetter

-----------------------------------------------------------------------------
LEMMA TInvInit == Init => TInv
<1> SUFFICES ASSUME Init PROVE TInv
  OBVIOUS
<1>1. TablesTypeOK
  BY DEF Init, TablesInit, TablesTypeOK, Enabled
<1>2. ConsumersTypeOK /\ RetryTypeOK
  BY OutOK, FreeOK, ConsumerAssumption, RetryAssumption
  DEF Init, ConsumersInit, RetryInit, ConsumersTypeOK, RetryTypeOK, ConOK, SlotOK
<1>3. RedeliveryTypeOK
  <2>1. <<>> \in Seq(JobType)
    OBVIOUS
  <2> QED BY <2>1 DEF Init, RedeliveryInit, RedeliveryTypeOK, ReplayType, ManualType
<1>4. Pointers
  BY <1>3, OutOK, FreeOK
  DEF Init, ConsumersInit, RetryInit, RedeliveryInit, RedeliveryTypeOK, ManualOK, Pointers
<1> QED BY <1>1, <1>2, <1>3, <1>4 DEF TInv, TypeOK

LEMMA TInvStep == TInv /\ [Next]_vars => TInv'
<1> SUFFICES ASSUME TInv, [Next]_vars PROVE TInv'
  OBVIOUS
<1>1. CASE ConsumersNext /\ UNCHANGED <<retryVars, requestVars>>
  BY <1>1, ConsumerTypes, ConsumerFaultTypes, ProduceTypes DEF ConsumersNext
<1>2. CASE UNCHANGED vars
  BY <1>2
  DEF vars, tableVars, consumerVars, retryVars, requestVars, TInv, TypeOK, TablesTypeOK,
      ConsumersTypeOK, RetryTypeOK, RedeliveryTypeOK, Pointers, ConOK, SlotOK, ManualOK
<1>3. CASE RedeliveryNext /\ UNCHANGED <<consumerVars, retryVars>>
  BY <1>3, ReplayTypes, ManualTypes DEF RedeliveryNext
<1> QED BY <1>1, <1>2, <1>3, TablesTypes, RetryTypes DEF Next

\* Types hold and no pointer dangles, in every reachable state.
THEOREM DeliveryPointers == Spec => []TInv
  BY TInvInit, TInvStep, PTL DEF Spec

\* The variables of Delivery keep their types.
THEOREM DeliveryTypeOK == Spec => []TypeOK
<1>1. TInv => TypeOK
  BY DEF TInv
<1> QED BY <1>1, DeliveryPointers, PTL
=============================================================================
