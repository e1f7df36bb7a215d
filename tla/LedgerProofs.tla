---------------------------- MODULE LedgerProofs -----------------------------
(***************************************************************************)
(* What a tenant can read off the tables, for any number of events,        *)
(* subscriptions, workers, slots, replays, manual retries and failures and *)
(* any schedule: every attempt has its cause, dead letters are backed and  *)
(* resolved by attempts, the log agrees with the table, and delivery       *)
(* implements the ledger.                                                  *)
(*                                                                         *)
(* The argument: a row, job or dead letter is justified by other rows that *)
(* are final when it is written, so what justifies it never goes away; and *)
(* a worker's place in its function agrees with the row it works on.       *)
(***************************************************************************)
EXTENDS DeliveryProofs

-----------------------------------------------------------------------------
(* What justifies a row, a job, a dead letter and a document.              *)

\* All the attempts before number n failed and announced the next.
Chain(e, s, n) == \A m \in 1..(n - 1) : Announced(e, s, m)

Redeemed(e, s) == \E d \in DOMAIN deadLetters : /\ deadLetters[d].event = e
                                               /\ deadLetters[d].sub = s
                                               /\ deadLetters[d].resolved

RowOK(x) ==
    /\ \/ x.number \in 1..MAX_ATTEMPTS /\ Chain(x.event, x.sub, x.number)
       \/ x.number = MAX_ATTEMPTS + 1 /\ DeadLettered(x.event, x.sub)
    /\ x.status = "failed" /\ x.number <= MAX_ATTEMPTS =>
         x.number < MAX_ATTEMPTS /\ x.delay = computeRetryDelay(x.number)
    /\ x.status = "dead_lettered" => x.number = MAX_ATTEMPTS
    /\ x.status = "success" /\ x.number = MAX_ATTEMPTS + 1 => Redeemed(x.event, x.sub)

\* Replay r has read its events and lists e for s.
Asks(r, e, s) == replay[r].pc # "unsent" /\ Lists(r, e, s)

JobOK(x) ==
    /\ x.number \in 1..MAX_ATTEMPTS
    /\ Chain(x.event, x.sub, x.number)
    /\ x.delay = computeRetryDelay(x.number - 1)
    /\ x.number = 1 => \E r \in Replays : Asks(r, x.event, x.sub)

LetterOK(x) ==
    /\ x.total = MAX_ATTEMPTS
    /\ Chain(x.event, x.sub, MAX_ATTEMPTS)
    /\ Attempted(x.event, x.sub, MAX_ATTEMPTS, "dead_lettered")
    /\ x.resolved => Attempted(x.event, x.sub, MAX_ATTEMPTS + 1, "success")

DocumentOK(x) == /\ x.attempt \in DOMAIN attempts
                 /\ attempts[x.attempt].status = x.status
                 /\ x.status # "pending"

Justified == /\ \A a \in DOMAIN attempts : RowOK(attempts[a])
             /\ \A j \in DOMAIN jobs : JobOK(jobs[j])
             /\ \A d \in DOMAIN deadLetters : LetterOK(deadLetters[d])
             /\ \A x \in indexJobs : DocumentOK(x)

RowsNamed == \A a \in DOMAIN attempts : sub[attempts[a].sub] # "deleted"

-----------------------------------------------------------------------------
(* Where an actor is and what its row says.                                *)

ConAgrees(x) ==
    /\ x.pc \in InHand => /\ attempts[x.attempt].event = log[x.offset + 1]
                          /\ attempts[x.attempt].number = 1
    /\ x.pc = "index" => attempts[x.attempt].status = FirstStatus(x.success)
    /\ x.pc = "retry" => attempts[x.attempt].status = "failed"

HasRow == {"deliver", "resolve", "index", "bury", "again"}

Outcome(y) == IF y.success THEN "success"
              ELSE IF isLastAttempt(jobs[y.job].number) THEN "dead_lettered"
              ELSE "failed"

SlotAgrees(y) ==
    /\ y.pc \in HasRow => /\ y.attempt \in DOMAIN attempts
                          /\ attempts[y.attempt].event = jobs[y.job].event
                          /\ attempts[y.attempt].sub = jobs[y.job].sub
                          /\ attempts[y.attempt].number = jobs[y.job].number
    /\ y.pc = "index" => attempts[y.attempt].status = Outcome(y)
    /\ y.pc = "bury" => attempts[y.attempt].status = "dead_lettered"
    /\ y.pc = "again" => attempts[y.attempt].status = "failed"

ManualAgrees(z) ==
    z.pc \in {"deliver", "resolve"} =>
        /\ attempts[z.attempt].event = deadLetters[z.letter].event
        /\ attempts[z.attempt].sub = deadLetters[z.letter].sub
        /\ attempts[z.attempt].number = MAX_ATTEMPTS + 1

BulkOK(r) == \A i \in DOMAIN replay[r].bulk : /\ replay[r].bulk[i].number = 1
                                              /\ replay[r].bulk[i].delay = NoDelay

Agreement == /\ \A c \in Consumers : ConAgrees(con[c])
             /\ \A k \in Slots : SlotAgrees(slot[k])
             /\ \A m \in ManualRetries : ManualAgrees(manual[m])
             /\ \A r \in Replays : BulkOK(r)

CInv == HInv /\ Justified /\ RowsNamed /\ Agreement

-----------------------------------------------------------------------------
(* What justifies them stays.                                              *)

LettersKept ==
    \A d \in DOMAIN deadLetters :
        /\ d \in DOMAIN deadLetters'
        /\ deadLetters'[d].event = deadLetters[d].event
        /\ deadLetters'[d].sub = deadLetters[d].sub
        /\ deadLetters'[d].total = deadLetters[d].total
        /\ deadLetters[d].resolved => deadLetters'[d].resolved

ReplaysKept == \A r \in Replays : replay[r].pc # "unsent" =>
                 replay'[r].pc # "unsent" /\ replay'[r].bulk = replay[r].bulk

Solid == Kept /\ LettersKept /\ ReplaysKept

LEMMA StepSolid ==
    ASSUME HInv, [Next]_vars
    PROVE  Solid
<1>0. TInv
  BY DEF HInv
<1>1. LettersKept
  <2>1. ASSUME NEW k \in Slots, Bury(k) PROVE LettersKept
    <3>1. /\ JobOf(k).event \in Events /\ JobOf(k).sub \in Subs
          /\ JobOf(k).number \in Nat
      BY <1>0, <2>1, SlotTyped DEF Bury, SlotAt
    <3> QED BY <1>0, <2>1, <3>1, LetterAdded DEF Bury, LettersKept, TInv, TypeOK, TablesTypeOK
  <2>2. ASSUME NEW m \in ManualRetries, ResolveLetter(m) PROVE LettersKept
    <3>1. manual[m].letter \in DOMAIN deadLetters
      BY <1>0, <2>2, LetterTyped DEF ResolveLetter, ManualOK
    <3> QED BY <1>0, <2>2, <3>1, LetterResolved
            DEF ResolveLetter, LettersKept, TInv, TypeOK, TablesTypeOK
  <2>3. ASSUME UNCHANGED deadLetters PROVE LettersKept
    BY <2>3 DEF LettersKept
  <2>4. CASE TablesNext \/ UNCHANGED vars
    BY <2>3, <2>4
    DEF TablesNext, createSubscription, updateSubscription, deleteSubscription, vars,
        tableVars
  <2>5. CASE ConsumersNext
    BY <2>3, <2>5
    DEF ConsumersNext, ConsumerStep, ConsumerFault, Produce, Join, Fetch,
        LoadSubscriptions, CreateFirst, CreateRefused, Deliver, ResolveFirst,
        IndexFirst, ScheduleRetry, ScheduleUnanswered, CommitOffset, Fenced, Throw,
        CommitThrows, Crash, Evict, tableVars
  <2>6. CASE RetryNext
    BY <2>1, <2>3, <2>6
    DEF RetryNext, SlotStep, Take, Load, CreateNext, NextRefused, Redeliver,
        ResolveNext, IndexNext, IndexUnbound, JobFails, RetryAgain, AgainUnanswered,
        Complete, RetryThrow, LoseLock, RetryCrash, Stalled, tableVars
  <2>7. CASE RedeliveryNext
    BY <2>2, <2>3, <2>7
    DEF RedeliveryNext, replaySubscription, ReadEvents, AddBulk, BulkUnanswered,
        ReplayFails, retryDeadLetter, LoadLetter, CreateManual, DeliverManual, RecordFailure,
        ManualFails, tableVars
  <2> QED BY <2>4, <2>5, <2>6, <2>7 DEF Next
<1>2. ReplaysKept
  <2>0. replay \in [Replays -> ReplayType]
    BY <1>0 DEF TInv, TypeOK, RedeliveryTypeOK
  <2>1. ASSUME NEW r \in Replays, replaySubscription(r) PROVE ReplaysKept
    BY <2>0, <2>1
    DEF replaySubscription, ReadEvents, AddBulk, BulkUnanswered, ReplayFails, ReplaysKept,
        ReplayType, requestVars
  <2>2. ASSUME UNCHANGED replay PROVE ReplaysKept
    BY <2>2 DEF ReplaysKept
  <2> QED BY <2>1, <2>2
          DEF Next, vars, requestVars, RedeliveryNext, retryDeadLetter, LoadLetter,
              CreateManual, DeliverManual, ResolveLetter, RecordFailure, ManualFails
<1> QED BY <1>1, <1>2, StepKeeps DEF Solid

LEMMA FactsStay ==
    ASSUME Solid
    PROVE  /\ \A e, s, n : Announced(e, s, n) => Announced(e, s, n)'
           /\ \A e, s, n : Chain(e, s, n) => Chain(e, s, n)'
           /\ \A e, s, n : \A status \in {"success", "failed", "dead_lettered"} :
                Attempted(e, s, n, status) => Attempted(e, s, n, status)'
           /\ \A e, s : DeadLettered(e, s) => DeadLettered(e, s)'
           /\ \A e, s : Redeemed(e, s) => Redeemed(e, s)'
<1>1. ASSUME NEW e, NEW s, NEW n, Announced(e, s, n) PROVE Announced(e, s, n)'
  BY <1>1 DEF Announced, Solid, Kept, HistoryKept
<1>2. ASSUME NEW e, NEW s, NEW n, Chain(e, s, n) PROVE Chain(e, s, n)'
  BY <1>1, <1>2 DEF Chain
<1>3. ASSUME NEW e, NEW s, NEW n, NEW status \in {"success", "failed", "dead_lettered"},
             Attempted(e, s, n, status)
      PROVE  Attempted(e, s, n, status)'
  BY <1>3 DEF Attempted, Solid, Kept, HistoryKept
<1>4. ASSUME NEW e, NEW s, DeadLettered(e, s) PROVE DeadLettered(e, s)'
  BY <1>4 DEF DeadLettered, Solid, LettersKept
<1>5. ASSUME NEW e, NEW s, Redeemed(e, s) PROVE Redeemed(e, s)'
  BY <1>5 DEF Redeemed, Solid, LettersKept
<1> QED BY <1>1, <1>2, <1>3, <1>4, <1>5

LEMMA JustifiedStays ==
    ASSUME Solid
    PROVE  /\ \A x : RowOK(x) => RowOK(x)'
           /\ \A x : JobOK(x) => JobOK(x)'
           /\ \A x : LetterOK(x) => LetterOK(x)'
           /\ \A x : DocumentOK(x) => DocumentOK(x)'
<1>1. ASSUME NEW x, RowOK(x) PROVE RowOK(x)'
  BY <1>1, FactsStay DEF RowOK
<1>2. ASSUME NEW x, JobOK(x) PROVE JobOK(x)'
  <2>1. \A r \in Replays : Asks(r, x.event, x.sub) => Asks(r, x.event, x.sub)'
    BY DEF Asks, Lists, Solid, ReplaysKept
  <2> QED BY <1>2, <2>1, FactsStay DEF JobOK
<1>3. ASSUME NEW x, LetterOK(x) PROVE LetterOK(x)'
  BY <1>3, FactsStay DEF LetterOK
<1>4. ASSUME NEW x, DocumentOK(x) PROVE DocumentOK(x)'
  BY <1>4 DEF DocumentOK, Solid, Kept, HistoryKept
<1> QED BY <1>1, <1>2, <1>3, <1>4

LEMMA AgreementStays ==
    ASSUME TInv, Solid
    PROVE  /\ \A x : ConOK(x) /\ ConAgrees(x) => ConAgrees(x)'
           /\ \A y : SlotOK(y) /\ SlotAgrees(y) => SlotAgrees(y)'
           /\ \A z : ManualOK(z) /\ ManualAgrees(z) => ManualAgrees(z)'
<1>0. Len(log) \in Nat
  BY DEF TInv, TypeOK, ConsumersTypeOK
<1>1. ASSUME NEW x, ConOK(x), ConAgrees(x) PROVE ConAgrees(x)'
  <2>1. x.pc \in InHand => log'[x.offset + 1] = log[x.offset + 1]
    BY <1>0, <1>1 DEF ConOK, ConsumerType, InHand, Solid, Kept, LogKept
  <2>2. FirstStatus(x.success) # "pending"
    BY DEF FirstStatus
  <2>3. FirstStatus(x.success)' = FirstStatus(x.success)
    BY DEF FirstStatus
  <2> QED BY <1>1, <2>1, <2>2, <2>3
          DEF ConAgrees, ConOK, InHand, Solid, Kept, HistoryKept
<1>2. ASSUME NEW y, SlotOK(y), SlotAgrees(y) PROVE SlotAgrees(y)'
  <2>1. y.pc # "idle" => /\ jobs'[y.job].event = jobs[y.job].event
                         /\ jobs'[y.job].sub = jobs[y.job].sub
                         /\ jobs'[y.job].number = jobs[y.job].number
    BY <1>2 DEF SlotOK, Solid, Kept, JobsKept
  <2>2. Outcome(y) # "pending"
    BY DEF Outcome
  <2>3. y.pc = "index" => Outcome(y)' = Outcome(y)
    BY <2>1 DEF Outcome, isLastAttempt
  <2> QED BY <1>2, <2>1, <2>2, <2>3
          DEF SlotAgrees, HasRow, Solid, Kept, HistoryKept
<1>3. ASSUME NEW z, ManualOK(z), ManualAgrees(z) PROVE ManualAgrees(z)'
  BY <1>3 DEF ManualAgrees, ManualOK, Solid, Kept, HistoryKept, LettersKept
<1> QED BY <1>1, <1>2, <1>3

-----------------------------------------------------------------------------
(* A step that justifies what it writes keeps the invariant.               *)

\* A row, job, dead letter or document is an old one or is justified.
RowsStep == \A a \in DOMAIN attempts' :
                \/ a \in DOMAIN attempts /\ attempts'[a] = attempts[a]
                \/ RowOK(attempts[a])'

JobsStep == \A j \in DOMAIN jobs' :
                \/ /\ j \in DOMAIN jobs
                   /\ jobs'[j].event = jobs[j].event
                   /\ jobs'[j].sub = jobs[j].sub
                   /\ jobs'[j].number = jobs[j].number
                   /\ jobs'[j].delay = jobs[j].delay
                \/ JobOK(jobs[j])'

LettersStep == \A d \in DOMAIN deadLetters' :
                \/ d \in DOMAIN deadLetters /\ deadLetters'[d] = deadLetters[d]
                \/ LetterOK(deadLetters[d])'

DocumentsStep == \A x \in indexJobs' : x \in indexJobs \/ DocumentOK(x)'

LEMMA JustifiedStep ==
    ASSUME Justified, Solid, RowsStep, JobsStep, LettersStep, DocumentsStep
    PROVE  Justified'
<1>1. ASSUME NEW a \in DOMAIN attempts' PROVE RowOK(attempts[a])'
  <2>1. CASE a \in DOMAIN attempts /\ attempts'[a] = attempts[a]
    <3>1. RowOK(attempts[a])
      BY <2>1 DEF Justified
    <3> QED BY <2>1, <3>1, JustifiedStays
  <2> QED BY <2>1 DEF RowsStep
<1>2. ASSUME NEW j \in DOMAIN jobs' PROVE JobOK(jobs[j])'
  <2>1. CASE /\ j \in DOMAIN jobs
             /\ jobs'[j].event = jobs[j].event
             /\ jobs'[j].sub = jobs[j].sub
             /\ jobs'[j].number = jobs[j].number
             /\ jobs'[j].delay = jobs[j].delay
    <3>1. JobOK(jobs[j])
      BY <2>1 DEF Justified
    <3>2. PICK x : x = jobs[j]
      OBVIOUS
    <3>3. JobOK(x)'
      BY <3>1, <3>2, JustifiedStays
    <3> QED BY <2>1, <3>2, <3>3 DEF JobOK
  <2> QED BY <2>1 DEF JobsStep
<1>3. ASSUME NEW d \in DOMAIN deadLetters' PROVE LetterOK(deadLetters[d])'
  <2>1. CASE d \in DOMAIN deadLetters /\ deadLetters'[d] = deadLetters[d]
    <3>1. LetterOK(deadLetters[d])
      BY <2>1 DEF Justified
    <3> QED BY <2>1, <3>1, JustifiedStays
  <2> QED BY <2>1 DEF LettersStep
<1>4. ASSUME NEW x \in indexJobs' PROVE DocumentOK(x)'
  BY JustifiedStays DEF DocumentsStep, Justified
<1> QED BY <1>1, <1>2, <1>3, <1>4 DEF Justified

\* The tables a step leaves alone need no justification.
LEMMA Untouched ==
    /\ UNCHANGED attempts => RowsStep
    /\ UNCHANGED jobs => JobsStep
    /\ UNCHANGED deadLetters => LettersStep
    /\ UNCHANGED indexJobs => DocumentsStep
  BY DEF RowsStep, JobsStep, LettersStep, DocumentsStep

LEMMA CreatedStep ==
    ASSUME TInv, NEW e \in Events, NEW s \in Subs, NEW n \in Nat,
           createPendingAttempt(e, s, n), RowsNamed, sub' = sub, sub[s] # "deleted",
           \/ n \in 1..MAX_ATTEMPTS /\ Chain(e, s, n)'
           \/ n = MAX_ATTEMPTS + 1 /\ DeadLettered(e, s)'
    PROVE  RowsStep /\ RowsNamed'
<1>1. PICK i : /\ DOMAIN attempts' = DOMAIN attempts \cup {i}
               /\ \A a \in DOMAIN attempts : attempts'[a] = attempts[a]
               /\ attempts'[i] = [event |-> e, sub |-> s, number |-> n,
                                  status |-> "pending", delay |-> NoDelay]
  BY AttemptCreated DEF TInv, TypeOK, TablesTypeOK
<1>2. RowOK(attempts[i])'
  BY <1>1 DEF RowOK
<1>3. RowsNamed'
  BY <1>1 DEF RowsNamed
<1> QED BY <1>1, <1>2, <1>3 DEF RowsStep

\* The row of an attempt under way gets its result.
LEMMA ResolvedStep ==
    ASSUME TInv, Justified, Solid, RowsNamed, sub' = sub,
           NEW a \in DOMAIN attempts, attempts[a].status = "pending",
           NEW status \in {"success", "failed", "dead_lettered"}, NEW delay \in Nat,
           attempts' = [attempts EXCEPT ![a].status = status, ![a].delay = delay],
           status = "failed" /\ attempts[a].number <= MAX_ATTEMPTS =>
                attempts[a].number < MAX_ATTEMPTS
                /\ delay = computeRetryDelay(attempts[a].number),
           status = "dead_lettered" => attempts[a].number = MAX_ATTEMPTS,
           status = "success" /\ attempts[a].number = MAX_ATTEMPTS + 1 =>
                Redeemed(attempts[a].event, attempts[a].sub)'
    PROVE  RowsStep /\ RowsNamed'
<1>1. /\ DOMAIN attempts' = DOMAIN attempts
      /\ \A b \in DOMAIN attempts : b # a => attempts'[b] = attempts[b]
      /\ attempts'[a] = [attempts[a] EXCEPT !.status = status, !.delay = delay]
  BY AttemptUpdated DEF TInv, TypeOK, TablesTypeOK
<1>2. attempts[a] \in AttemptType
  BY EntryTyped DEF TInv, TypeOK, TablesTypeOK
<1>3. /\ attempts'[a].event = attempts[a].event
      /\ attempts'[a].sub = attempts[a].sub
      /\ attempts'[a].number = attempts[a].number
      /\ attempts'[a].status = status /\ attempts'[a].delay = delay
  BY <1>1, <1>2 DEF AttemptType
<1>4. RowOK(attempts[a])'
  <2>1. RowOK(attempts[a])
    BY DEF Justified
  <2>2. PICK x : x = attempts[a]
    OBVIOUS
  <2>3. RowOK(x)'
    BY <2>1, <2>2, JustifiedStays
  <2> QED BY <1>3, <2>2, <2>3 DEF RowOK
<1>5. RowsNamed'
  BY <1>1, <1>3 DEF RowsNamed
<1> QED BY <1>1, <1>4, <1>5 DEF RowsStep

LEMMA AppendedStep ==
    ASSUME TInv, NEW e \in Events, NEW s \in Subs, NEW n \in 1..MAX_ATTEMPTS,
           NEW delay \in Nat, TakesEffect(e, s, n, delay),
           Chain(e, s, n)', delay = computeRetryDelay(n - 1), n # 1
    PROVE  JobsStep
<1>0. jobs \in Seq(JobType) /\ n \in Nat
  BY ScheduleAssumption DEF TInv, TypeOK, TablesTypeOK
<1>1. PICK x \in JobType :
          /\ jobs' = Append(jobs, x)
          /\ x.event = e /\ x.sub = s /\ x.number = n /\ x.delay = delay
  BY <1>0, AddedOne
<1>2. \A j \in DOMAIN jobs' : (j \in DOMAIN jobs /\ jobs'[j] = jobs[j]) \/ jobs'[j] = x
  <2>1. /\ Len(jobs') = Len(jobs) + 1
        /\ jobs'[Len(jobs) + 1] = x
        /\ \A j \in 1..Len(jobs) : jobs'[j] = jobs[j]
        /\ Len(jobs) \in Nat /\ DOMAIN jobs = 1..Len(jobs)
        /\ DOMAIN jobs' = 1..(Len(jobs) + 1)
    BY <1>0, <1>1
  <2> QED BY <2>1
<1>3. JobOK(x)'
  BY <1>1 DEF JobOK
<1> QED BY <1>2, <1>3 DEF JobsStep

LEMMA DocumentStep ==
    ASSUME NEW a, NEW status, addIndexJob(a, status), UNCHANGED attempts,
           a \in DOMAIN attempts, attempts[a].status = status, status # "pending"
    PROVE  DocumentsStep
  BY DEF addIndexJob, DocumentsStep, DocumentOK

\* The actors that a step moves agree with their rows; the others still do.
LEMMA AgreementStep ==
    ASSUME TInv, Solid, Agreement,
           \A c \in Consumers : con'[c] = con[c] \/ ConAgrees(con[c])',
           \A k \in Slots : slot'[k] = slot[k] \/ SlotAgrees(slot[k])',
           \A m \in ManualRetries : manual'[m] = manual[m] \/ ManualAgrees(manual[m])',
           \A r \in Replays : replay'[r] = replay[r] \/ BulkOK(r)'
    PROVE  Agreement'
<1>1. ASSUME NEW c \in Consumers, con'[c] = con[c] PROVE ConAgrees(con[c])'
  <2>1. PICK x : x = con[c]
    OBVIOUS
  <2>2. ConOK(x) /\ ConAgrees(x)
    BY <2>1 DEF TInv, Pointers, Agreement
  <2> QED BY <1>1, <2>1, <2>2, AgreementStays
<1>2. ASSUME NEW k \in Slots, slot'[k] = slot[k] PROVE SlotAgrees(slot[k])'
  <2>1. PICK y : y = slot[k]
    OBVIOUS
  <2>2. SlotOK(y) /\ SlotAgrees(y)
    BY <2>1 DEF TInv, Pointers, Agreement
  <2> QED BY <1>2, <2>1, <2>2, AgreementStays
<1>3. ASSUME NEW m \in ManualRetries, manual'[m] = manual[m] PROVE ManualAgrees(manual[m])'
  <2>1. PICK z : z = manual[m]
    OBVIOUS
  <2>2. ManualOK(z) /\ ManualAgrees(z)
    BY <2>1 DEF TInv, Pointers, Agreement
  <2> QED BY <1>3, <2>1, <2>2, AgreementStays
<1>4. ASSUME NEW r \in Replays, replay'[r] = replay[r] PROVE BulkOK(r)'
  BY <1>4 DEF Agreement, BulkOK
<1> QED BY <1>1, <1>2, <1>3, <1>4 DEF Agreement

-----------------------------------------------------------------------------
(* The delivery workers.                                                   *)

LEMMA ConsumerChain ==
    ASSUME CInv, Solid, NEW c \in Consumers, ConsumerStep(c) \/ ConsumerFault(c),
           UNCHANGED <<retryVars, requestVars>>
    PROVE  Justified' /\ RowsNamed' /\ Agreement'
<1>0. /\ TInv /\ ConOK(con[c]) /\ ConAgrees(con[c]) /\ Justified /\ RowsNamed /\ Agreement
      /\ con \in [Consumers -> ConsumerType] /\ sub' = sub
  BY ConTyped
  DEF CInv, HInv, TInv, TypeOK, ConsumersTypeOK, Agreement, ConsumerStep, ConsumerFault,
      Join, Fetch, LoadSubscriptions, CreateFirst, CreateRefused, Deliver, ResolveFirst,
      IndexFirst, ScheduleRetry, ScheduleUnanswered, CommitOffset, Fenced, Throw,
      CommitThrows, Crash, Evict, tableVars
<1>a. \A d \in Consumers : d # c => con'[d] = con[d]
  BY <1>0
  DEF ConsumerStep, ConsumerFault, Join, Fetch, LoadSubscriptions, CreateFirst,
      CreateRefused, Deliver, ResolveFirst, IndexFirst, ScheduleRetry,
      ScheduleUnanswered, consumerVars, CommitOffset, Fenced, Throw, CommitThrows,
      Crash, Evict
<1>b. ASSUME ConAgrees(con[c])' \/ con'[c] = con[c] PROVE Agreement'
  BY <1>0, <1>a, <1>b, AgreementStep DEF retryVars, requestVars
<1>1. CASE CreateFirst(c)
  <2>1. PICK s \in con[c].todo : sub[s] # "deleted" /\ createPendingAttempt(Event(c), s, 1)
    BY <1>1 DEF CreateFirst
  <2>2. Event(c) \in Events /\ s \in Subs
    BY <1>0, <1>1
    DEF CreateFirst, At, ConOK, ConsumerType, Event, TInv, TypeOK, ConsumersTypeOK
  <2>3. PICK i : i = NewAttempt
    OBVIOUS
  <2>4. attempts'[i] = [event |-> Event(c), sub |-> s, number |-> 1,
                        status |-> "pending", delay |-> NoDelay]
    BY <1>0, <2>1, <2>2, <2>3, AttemptCreated DEF TInv, TypeOK, TablesTypeOK
  <2>5. /\ con'[c].pc = "deliver" /\ con'[c].attempt = i
        /\ con'[c].offset = con[c].offset /\ log' = log
    BY <1>0, <1>1, <2>3 DEF CreateFirst, ConsumerType
  <2>6. ConAgrees(con[c])'
    BY <2>4, <2>5 DEF ConAgrees, Event
  <2>7. 1 \in 1..MAX_ATTEMPTS /\ Chain(Event(c), s, 1)'
    BY FirstDelayExists, ScheduleAssumption DEF Chain
  <2>8. RowsStep /\ RowsNamed'
    <3>1. PICK e \in Events : e = Event(c)
      BY <2>2
    <3>2. Chain(e, s, 1)'
      BY DEF Chain
    <3> QED BY <1>0, <2>1, <2>2, <2>7, <3>1, <3>2, CreatedStep
  <2> QED BY <1>0, <1>1, <1>b, <2>6, <2>8, JustifiedStep, Untouched DEF CreateFirst
<1>2. CASE ResolveFirst(c)
  <2>1. /\ Attempt(c) \in DOMAIN attempts /\ attempts[Attempt(c)].status = "pending"
        /\ attempts[Attempt(c)].number = 1
    BY <1>0, <1>2
    DEF ResolveFirst, At, ConOK, ConAgrees, InHand, Attempt, CInv, HInv, HeldPending, Holds
  <2>2. PICK a \in DOMAIN attempts, status \in {"success", "failed"}, delay \in Nat :
            /\ a = Attempt(c) /\ status = FirstStatus(con[c].success)
            /\ delay = FirstDelay(con[c].success)
            /\ attempts' = [attempts EXCEPT ![a].status = status, ![a].delay = delay]
    BY <1>2, <2>1, DelayType
    DEF ResolveFirst, resolveAttempt, FirstDelay, FirstStatus, NoDelay
  <2>3. status = "failed" => delay = computeRetryDelay(1)
    BY <2>2 DEF FirstStatus, FirstDelay
  <2>4. /\ status = "failed" /\ attempts[a].number <= MAX_ATTEMPTS =>
             attempts[a].number < MAX_ATTEMPTS
             /\ delay = computeRetryDelay(attempts[a].number)
        /\ ~(status = "success" /\ attempts[a].number = MAX_ATTEMPTS + 1)
    BY <2>1, <2>2, <2>3, ScheduleAssumption
  <2>5. RowsStep /\ RowsNamed'
    <3>1. attempts[a].status = "pending" /\ status # "dead_lettered"
      BY <2>1, <2>2
    <3>2. attempts' = [attempts EXCEPT ![a].status = status, ![a].delay = delay]
      BY <2>2
    <3> QED BY <1>0, <2>4, <3>1, <3>2, ResolvedStep
  <2>6. /\ con'[c].pc = "index" /\ con'[c].attempt = a
        /\ con'[c].offset = con[c].offset /\ con'[c].success = con[c].success /\ log' = log
    BY <1>0, <1>2, <2>2 DEF ResolveFirst, ConsumerType, Attempt
  <2>7. /\ attempts'[a].event = attempts[a].event /\ attempts'[a].number = 1
        /\ attempts'[a].status = status
    <3>1. /\ attempts'[a] = [attempts[a] EXCEPT !.status = status, !.delay = delay]
          /\ attempts[a] \in AttemptType
      BY <1>0, <2>2, AttemptUpdated, EntryTyped DEF TInv, TypeOK, TablesTypeOK
    <3> QED BY <2>1, <2>2, <3>1 DEF AttemptType
  <2>8. attempts[a].event = log[con[c].offset + 1]
    BY <1>0, <1>2, <2>2 DEF ResolveFirst, At, ConAgrees, InHand, Attempt
  <2>9. ConAgrees(con[c])'
    BY <2>2, <2>6, <2>7, <2>8 DEF ConAgrees, FirstStatus
  <2> QED BY <1>0, <1>2, <1>b, <2>5, <2>9, JustifiedStep, Untouched DEF ResolveFirst
<1>3. CASE IndexFirst(c)
  <2>1. /\ Attempt(c) \in DOMAIN attempts /\ UNCHANGED <<attempts, sub, log>>
        /\ attempts[Attempt(c)].status = FirstStatus(con[c].success)
    BY <1>0, <1>3 DEF IndexFirst, At, ConOK, ConAgrees, InHand, Attempt
  <2>2. DocumentsStep
    BY <1>3, <2>1, DocumentStep DEF IndexFirst, FirstStatus
  <2>3. ConAgrees(con[c])'
    <3>1. CASE con'[c] = DoneWithOne(c)
      <4>1. con'[c].pc \in {"create", "commit"}
        BY <3>1 DEF DoneWithOne, Out
      <4> QED BY <4>1 DEF ConAgrees, InHand
    <3>2. CASE /\ FirstDelay(con[c].success) # NoDelay
               /\ con' = [con EXCEPT ![c].pc = "retry"]
      <4>1. /\ con'[c].pc = "retry" /\ con'[c].attempt = con[c].attempt
            /\ con'[c].offset = con[c].offset
        BY <1>0, <3>2 DEF ConsumerType
      <4>2. attempts[Attempt(c)].status = "failed"
        BY <2>1, <3>2 DEF FirstDelay, FirstStatus
      <4> QED BY <1>0, <1>3, <2>1, <4>1, <4>2
              DEF ConAgrees, IndexFirst, At, InHand, Attempt
    <3> QED BY <1>0, <1>3, <3>1, <3>2 DEF IndexFirst
  <2>4. RowsNamed'
    BY <1>0, <2>1 DEF RowsNamed
  <2> QED BY <1>0, <1>3, <1>b, <2>1, <2>2, <2>3, <2>4, JustifiedStep, Untouched
          DEF IndexFirst
<1>4. CASE ScheduleRetry(c) \/ ScheduleUnanswered(c)
  <2>1. /\ Attempt(c) \in DOMAIN attempts /\ attempts[Attempt(c)].number = 1
        /\ attempts[Attempt(c)].event = Event(c) /\ attempts[Attempt(c)].status = "failed"
    BY <1>0, <1>4
    DEF ScheduleRetry, ScheduleUnanswered, At, ConOK, ConAgrees, InHand, Attempt, Event
  <2>2. attempts[Attempt(c)].delay = computeRetryDelay(1)
    BY <1>0, <2>1, FirstDelayExists, ScheduleAssumption DEF Justified, RowOK
  <2>3. PICK e \in Events, s \in Subs : e = Event(c) /\ s = attempts[Attempt(c)].sub
    <3>1. attempts \in Seq(AttemptType) /\ log \in Seq(Events)
      BY <1>0 DEF TInv, TypeOK, TablesTypeOK, ConsumersTypeOK
    <3>2. attempts[Attempt(c)] \in AttemptType
      BY <2>1, <3>1, EntryTyped
    <3> QED BY <2>1, <3>2 DEF AttemptType
  <2>4. Announced(e, s, 1)'
    <3>1. Announced(e, s, 1)
      BY <2>1, <2>2, <2>3 DEF Announced
    <3> QED BY <3>1, FactsStay
  <2>5. Chain(e, s, 2)'
    BY <2>4 DEF Chain
  <2>6. PICK delay \in Nat : delay = computeRetryDelay(1)
    BY DelayType
  <2>7. TakesEffect(e, s, 2, delay)
    BY <1>4, <2>3, <2>6 DEF ScheduleRetry, ScheduleUnanswered, TakesEffect
  <2>8. JobsStep
    <3>1. 2 \in 1..MAX_ATTEMPTS /\ delay = computeRetryDelay(2 - 1)
      BY <2>6, ScheduleAssumption
    <3> QED BY <1>0, <2>5, <2>7, <3>1, AppendedStep
  <2>9. /\ con'[c] = DoneWithOne(c) \/ con'[c] = con[c]
        /\ UNCHANGED <<attempts, deadLetters, indexJobs>>
    BY <1>0, <1>4 DEF ScheduleRetry, ScheduleUnanswered, consumerVars
  <2>10. ConAgrees(con[c])' \/ con'[c] = con[c]
    <3>1. con'[c] = DoneWithOne(c) => con'[c].pc \in {"create", "commit"}
      BY DEF DoneWithOne, Out
    <3> QED BY <2>9, <3>1 DEF ConAgrees, InHand
  <2>11. RowsNamed'
    BY <1>0, <2>9 DEF RowsNamed
  <2> QED BY <1>0, <1>b, <2>8, <2>9, <2>10, <2>11, JustifiedStep, Untouched
<1>5. CASE ~(\/ CreateFirst(c) \/ ResolveFirst(c) \/ IndexFirst(c) \/ ScheduleRetry(c)
            \/ ScheduleUnanswered(c))
  <2>1. UNCHANGED tableVars
    BY <1>5
    DEF ConsumerStep, ConsumerFault, Join, Fetch, LoadSubscriptions, CreateRefused,
        Deliver, CommitOffset, Fenced, Throw, CommitThrows, Crash, Evict
  <2>2. Justified' /\ RowsNamed'
    BY <1>0, <2>1, JustifiedStep, Untouched DEF tableVars, RowsNamed
  <2>3. ConAgrees(con[c])' \/ con'[c] = con[c]
    <3>1. CASE Evict(c)
      BY <3>1 DEF Evict
    <3>2. CASE Deliver(c)
      <4>1. /\ con[c].pc = "deliver" /\ con'[c].pc = "resolve"
            /\ con'[c].attempt = con[c].attempt /\ con'[c].offset = con[c].offset
            /\ log' = log /\ attempts' = attempts
        BY <1>0, <3>2, <2>1 DEF Deliver, At, ConsumerType, tableVars
      <4> QED BY <1>0, <4>1 DEF ConAgrees, InHand
    <3>3. CASE ~(Evict(c) \/ Deliver(c))
      <4>1. con'[c].pc \notin InHand
        <5>1. CASE Fetch(c) \/ LoadSubscriptions(c)
          BY <1>0, <5>1 DEF Fetch, LoadSubscriptions, ConsumerType, InHand
        <5>2. CASE \/ Join(c) \/ CreateRefused(c) \/ CommitOffset(c) \/ Throw(c)
                   \/ CommitThrows(c)
          BY <1>0, <5>2
          DEF Join, CreateRefused, CommitOffset, Throw, CommitThrows, Polling, Out, InHand
        <5>3. CASE Fenced(c) \/ Crash(c)
          BY <1>0, <5>3 DEF Fenced, Crash, Out, InHand
        <5> QED BY <1>5, <3>3, <5>1, <5>2, <5>3 DEF ConsumerStep, ConsumerFault
      <4> QED BY <4>1 DEF ConAgrees, InHand
    <3> QED BY <3>1, <3>2, <3>3
  <2> QED BY <1>b, <2>2, <2>3
<1> QED BY <1>1, <1>2, <1>3, <1>4, <1>5

-----------------------------------------------------------------------------
(* The retry worker.                                                       *)

\* A job changes its state and nothing else.
LEMMA FinishedStep ==
    ASSUME TInv, NEW j \in DOMAIN jobs,
           NEW state \in {"waiting", "active", "completed", "failed"},
           MoveJob(j, state) \/ UNCHANGED jobs
    PROVE  JobsStep
<1>1. /\ DOMAIN jobs' = DOMAIN jobs
      /\ \A i \in DOMAIN jobs : /\ jobs'[i].event = jobs[i].event
                                /\ jobs'[i].sub = jobs[i].sub
                                /\ jobs'[i].number = jobs[i].number
                                /\ jobs'[i].delay = jobs[i].delay
  BY JobUpdated, 0 \in Nat DEF MoveJob, TInv, TypeOK, TablesTypeOK
<1> QED BY <1>1 DEF JobsStep

LEMMA SlotChain ==
    ASSUME CInv, Solid, NEW k \in Slots,
           SlotStep(k) \/ AgainUnanswered(k) \/ RetryThrow(k) \/ LoseLock(k),
           UNCHANGED <<consumerVars, build, requestVars>>
    PROVE  Justified' /\ RowsNamed' /\ Agreement'
<1>0. /\ TInv /\ SlotOK(slot[k]) /\ SlotAgrees(slot[k]) /\ Justified /\ RowsNamed /\ Agreement
      /\ slot \in [Slots -> SlotType] /\ sub' = sub
  BY SlotTyped
  DEF CInv, HInv, TInv, TypeOK, RetryTypeOK, Agreement, SlotStep, Take, Load, CreateNext,
      NextRefused, Redeliver, ResolveNext, IndexNext, IndexUnbound, JobFails, Bury,
      RetryAgain, AgainUnanswered, Complete, RetryThrow, LoseLock, tableVars
<1>a. \A i \in Slots : i # k => slot'[i] = slot[i]
  BY <1>0
  DEF SlotStep, Take, Load, CreateNext, NextRefused, Redeliver, ResolveNext, IndexNext,
      IndexUnbound, JobFails, Bury, RetryAgain, AgainUnanswered, Complete, RetryThrow,
      LoseLock
<1>b. ASSUME SlotAgrees(slot[k])' PROVE Agreement'
  BY <1>0, <1>a, <1>b, AgreementStep DEF consumerVars, requestVars
<1>c. ASSUME UNCHANGED attempts PROVE RowsNamed'
  BY <1>0, <1>c DEF RowsNamed
<1>d. ASSUME slot'[k].pc \notin HasRow PROVE SlotAgrees(slot[k])'
  BY <1>d DEF SlotAgrees, HasRow
<1>e. ~SlotAt(k, "idle") =>
        /\ slot[k].job \in DOMAIN jobs /\ JobOK(JobOf(k)) /\ JobOf(k) \in JobType
        /\ JobOf(k).number \in Nat /\ JobOf(k).event \in Events /\ JobOf(k).sub \in Subs
  <2> SUFFICES ASSUME ~SlotAt(k, "idle")
               PROVE  /\ slot[k].job \in DOMAIN jobs /\ JobOK(JobOf(k)) /\ JobOf(k) \in JobType
                      /\ JobOf(k).number \in Nat /\ JobOf(k).event \in Events
                      /\ JobOf(k).sub \in Subs
    OBVIOUS
  <2>1. slot[k].job \in DOMAIN jobs
    BY <1>0 DEF SlotAt, SlotOK
  <2>2. JobOf(k) \in JobType
    BY <1>0, <2>1, EntryTyped DEF JobOf, TInv, TypeOK, TablesTypeOK
  <2>3. JobOK(JobOf(k))
    BY <1>0, <2>1 DEF JobOf, Justified
  <2> QED BY <2>1, <2>2, <2>3 DEF JobType
<1>1. CASE Take(k)
  <2>1. PICK j \in DOMAIN jobs : /\ MoveJob(j, "active")
                                 /\ slot' = [slot EXCEPT ![k] =
                                                [Free EXCEPT !.pc = "load", !.job = j,
                                                             !.locked = TRUE]]
    BY <1>1 DEF Take
  <2>2. slot'[k].pc = "load"
    BY <1>0, <2>1 DEF Free
  <2>3. JobsStep
    BY <1>0, <2>1, FinishedStep
  <2> QED BY <1>0, <1>1, <1>b, <1>c, <1>d, <2>2, <2>3, JustifiedStep, Untouched
          DEF Take, HasRow
<1>2. CASE Load(k)
  <2>1. slot'[k].pc \in {"create", "return"}
    BY <1>0, <1>2 DEF Load, SlotType
  <2> QED BY <1>0, <1>2, <1>b, <1>c, <1>d, <2>1, JustifiedStep, Untouched
          DEF Load, HasRow, tableVars
<1>3. CASE CreateNext(k)
  <2>1. PICK e \in Events, s \in Subs, n \in Nat :
            e = JobOf(k).event /\ s = JobOf(k).sub /\ n = JobOf(k).number
    BY <1>3, <1>e DEF CreateNext, SlotAt
  <2>2. PICK i : i = NewAttempt
    OBVIOUS
  <2>3. createPendingAttempt(e, s, n) /\ sub[s] # "deleted" /\ jobs' = jobs
    BY <1>3, <2>1 DEF CreateNext
  <2>4. /\ attempts'[i] = [event |-> e, sub |-> s, number |-> n,
                           status |-> "pending", delay |-> NoDelay]
        /\ i \in DOMAIN attempts'
    BY <1>0, <2>2, <2>3, AttemptCreated DEF TInv, TypeOK, TablesTypeOK
  <2>5. n \in 1..MAX_ATTEMPTS /\ Chain(e, s, n)'
    BY <1>3, <1>e, <2>1, FactsStay DEF CreateNext, SlotAt, JobOK
  <2>6. RowsStep /\ RowsNamed'
    BY <1>0, <2>3, <2>5, CreatedStep
  <2>7. slot'[k].pc = "deliver" /\ slot'[k].attempt = i /\ slot'[k].job = slot[k].job
    BY <1>0, <1>3, <2>2 DEF CreateNext, SlotType
  <2>8. SlotAgrees(slot[k])'
    BY <2>1, <2>3, <2>4, <2>7 DEF SlotAgrees, JobOf
  <2> QED BY <1>0, <1>3, <1>b, <2>6, <2>8, JustifiedStep, Untouched DEF CreateNext
<1>4. CASE Redeliver(k)
  <2>1. PICK ok \in BOOLEAN : slot' = [slot EXCEPT ![k].pc = "resolve", ![k].success = ok]
    BY <1>4 DEF Redeliver
  <2>2. /\ slot'[k].pc = "resolve" /\ slot'[k].attempt = slot[k].attempt
        /\ slot'[k].job = slot[k].job /\ slot[k].pc = "deliver"
        /\ attempts' = attempts /\ jobs' = jobs
    BY <1>0, <1>4, <2>1 DEF Redeliver, SlotAt, SlotType, tableVars
  <2>3. SlotAgrees(slot[k])'
    BY <1>0, <2>2 DEF SlotAgrees, HasRow
  <2> QED BY <1>0, <1>4, <1>b, <1>c, <2>3, JustifiedStep, Untouched DEF Redeliver, tableVars
<1>5. CASE ResolveNext(k)
  <2>1. /\ slot[k].attempt \in DOMAIN attempts /\ slot[k].pc = "resolve"
        /\ attempts[slot[k].attempt].status = "pending"
        /\ attempts[slot[k].attempt].event = JobOf(k).event
        /\ attempts[slot[k].attempt].sub = JobOf(k).sub
        /\ attempts[slot[k].attempt].number = JobOf(k).number
    BY <1>0, <1>5
    DEF ResolveNext, SlotAt, SlotAgrees, HasRow, JobOf, CInv, HInv, HeldPending, SlotHolds
  <2>2. PICK a \in DOMAIN attempts, status \in {"success", "failed", "dead_lettered"},
             delay \in Nat :
            /\ a = slot[k].attempt /\ status = StatusOf(k)
            /\ status = "failed" => delay = computeRetryDelay(JobOf(k).number)
            /\ attempts' = [attempts EXCEPT ![a].status = status, ![a].delay = delay]
    <3>1. NoDelay \in Nat /\ computeRetryDelay(JobOf(k).number) \in Nat
      BY DelayType DEF NoDelay
    <3> QED BY <1>5, <2>1, <3>1 DEF ResolveNext, resolveAttempt, deadLetterAttempt, StatusOf
  <2>3. JobOf(k).number \in 1..MAX_ATTEMPTS /\ MAX_ATTEMPTS \in Nat
    BY <1>e, <2>1, ScheduleAssumption DEF SlotAt, JobOK
  <2>4. /\ status = "failed" /\ attempts[a].number <= MAX_ATTEMPTS =>
             attempts[a].number < MAX_ATTEMPTS
             /\ delay = computeRetryDelay(attempts[a].number)
        /\ status = "dead_lettered" => attempts[a].number = MAX_ATTEMPTS
        /\ ~(status = "success" /\ attempts[a].number = MAX_ATTEMPTS + 1)
    BY <2>1, <2>2, <2>3 DEF StatusOf, Last, isLastAttempt
  <2>5. RowsStep /\ RowsNamed'
    <3>1. attempts[a].status = "pending"
      BY <2>1, <2>2
    <3>2. attempts' = [attempts EXCEPT ![a].status = status, ![a].delay = delay]
      BY <2>2
    <3> QED BY <1>0, <2>4, <3>1, <3>2, ResolvedStep
  <2>6. /\ slot'[k].pc = "index" /\ slot'[k].attempt = a /\ slot'[k].job = slot[k].job
        /\ slot'[k].success = slot[k].success /\ jobs' = jobs
    BY <1>0, <1>5, <2>2 DEF ResolveNext, SlotType
  <2>7. /\ attempts'[a].event = attempts[a].event /\ attempts'[a].sub = attempts[a].sub
        /\ attempts'[a].number = attempts[a].number /\ attempts'[a].status = status
        /\ a \in DOMAIN attempts'
    <3>1. /\ attempts'[a] = [attempts[a] EXCEPT !.status = status, !.delay = delay]
          /\ attempts[a] \in AttemptType /\ DOMAIN attempts' = DOMAIN attempts
      BY <1>0, <2>2, AttemptUpdated, EntryTyped DEF TInv, TypeOK, TablesTypeOK
    <3> QED BY <3>1 DEF AttemptType
  <2>8. SlotAgrees(slot[k])'
    <3>1. Outcome(slot[k])' = status
      BY <2>2, <2>6 DEF Outcome, StatusOf, Last, JobOf, isLastAttempt
    <3> QED BY <2>1, <2>2, <2>6, <2>7, <3>1 DEF SlotAgrees, JobOf
  <2> QED BY <1>0, <1>5, <1>b, <2>5, <2>8, JustifiedStep, Untouched DEF ResolveNext
<1>6. CASE IndexNext(k)
  <2>1. /\ slot[k].attempt \in DOMAIN attempts /\ UNCHANGED <<attempts, jobs>>
        /\ attempts[slot[k].attempt].status = Outcome(slot[k])
        /\ StatusOf(k) = Outcome(slot[k])
    BY <1>0, <1>6 DEF IndexNext, SlotAt, SlotAgrees, HasRow, StatusOf, Outcome, Last, JobOf
  <2>2. DocumentsStep
    <3>1. StatusOf(k) # "pending"
      BY DEF StatusOf
    <3> QED BY <1>6, <2>1, <3>1, DocumentStep DEF IndexNext
  <2>3. /\ slot'[k].pc = AfterIndex(k) /\ slot'[k].attempt = slot[k].attempt
        /\ slot'[k].job = slot[k].job
    BY <1>0, <1>6 DEF IndexNext, SlotType
  <2>4. /\ AfterIndex(k) = "bury" => Outcome(slot[k]) = "dead_lettered"
        /\ AfterIndex(k) = "again" => Outcome(slot[k]) = "failed"
        /\ AfterIndex(k) \in {"return", "bury", "again"}
    BY DEF AfterIndex, Outcome, Last, JobOf
  <2>5. SlotAgrees(slot[k])'
    BY <1>0, <1>6, <2>1, <2>3, <2>4 DEF SlotAgrees, HasRow, IndexNext, SlotAt
  <2> QED BY <1>0, <1>6, <1>b, <1>c, <2>2, <2>5, JustifiedStep, Untouched DEF IndexNext
<1>7. CASE Bury(k)
  <2>1. /\ slot[k].attempt \in DOMAIN attempts
        /\ attempts[slot[k].attempt].event = JobOf(k).event
        /\ attempts[slot[k].attempt].sub = JobOf(k).sub
        /\ attempts[slot[k].attempt].number = JobOf(k).number
        /\ attempts[slot[k].attempt].status = "dead_lettered"
    BY <1>0, <1>7 DEF Bury, SlotAt, SlotAgrees, HasRow, JobOf
  <2>2. JobOf(k).number = MAX_ATTEMPTS
    BY <1>0, <2>1 DEF Justified, RowOK
  <2>3. PICK e \in Events, s \in Subs, n \in Nat :
            e = JobOf(k).event /\ s = JobOf(k).sub /\ n = JobOf(k).number
    BY <1>7, <1>e DEF Bury, SlotAt
  <2>4. /\ DOMAIN deadLetters' = DOMAIN deadLetters \cup {Len(deadLetters) + 1}
        /\ \A d \in DOMAIN deadLetters : deadLetters'[d] = deadLetters[d]
        /\ deadLetters'[Len(deadLetters) + 1]
             = [event |-> e, sub |-> s, total |-> n, resolved |-> FALSE]
    BY <1>0, <1>7, <2>3, LetterAdded DEF Bury, TInv, TypeOK, TablesTypeOK
  <2>5. Attempted(e, s, MAX_ATTEMPTS, "dead_lettered")'
    <3>1. Attempted(e, s, MAX_ATTEMPTS, "dead_lettered")
      BY <2>1, <2>2, <2>3 DEF Attempted
    <3> QED BY <3>1, FactsStay
  <2>6. Chain(e, s, MAX_ATTEMPTS)'
    BY <1>7, <1>e, <2>2, <2>3, FactsStay DEF Bury, SlotAt, JobOK
  <2>7. LettersStep
    <3>1. PICK i : i = Len(deadLetters) + 1
      OBVIOUS
    <3>2. LetterOK(deadLetters[i])'
      BY <2>2, <2>3, <2>4, <2>5, <2>6, <3>1 DEF LetterOK
    <3> QED BY <2>4, <3>1, <3>2 DEF LettersStep
  <2>8. slot'[k].pc = "return"
    BY <1>0, <1>7 DEF Bury, SlotType
  <2> QED BY <1>0, <1>7, <1>b, <1>c, <1>d, <2>7, <2>8, JustifiedStep, Untouched
          DEF Bury, HasRow
<1>8. CASE RetryAgain(k) \/ AgainUnanswered(k)
  <2>0. SlotAt(k, "again") /\ ~SlotAt(k, "idle")
    BY <1>8 DEF RetryAgain, AgainUnanswered, SlotAt
  <2>1. /\ slot[k].attempt \in DOMAIN attempts
        /\ attempts[slot[k].attempt].event = JobOf(k).event
        /\ attempts[slot[k].attempt].sub = JobOf(k).sub
        /\ attempts[slot[k].attempt].number = JobOf(k).number
        /\ attempts[slot[k].attempt].status = "failed"
    BY <1>0, <2>0 DEF SlotAt, SlotAgrees, HasRow, JobOf
  <2>2. PICK e \in Events, s \in Subs, n \in Nat :
            e = JobOf(k).event /\ s = JobOf(k).sub /\ n = JobOf(k).number
    BY <1>e, <2>0
  <2>3. n \in 1..MAX_ATTEMPTS /\ MAX_ATTEMPTS \in Nat /\ Chain(e, s, n)
    BY <1>e, <2>0, <2>2, ScheduleAssumption DEF JobOK
  <2>4. n < MAX_ATTEMPTS /\ attempts[slot[k].attempt].delay = computeRetryDelay(n)
    BY <1>0, <2>1, <2>2, <2>3 DEF Justified, RowOK
  <2>5. Announced(e, s, n)
    BY <2>1, <2>2, <2>4 DEF Announced
  <2>6. Chain(e, s, n + 1)'
    <3>1. Chain(e, s, n + 1)
      BY <2>3, <2>5 DEF Chain
    <3> QED BY <3>1, FactsStay
  <2>7. PICK delay \in Nat : delay = computeRetryDelay(n)
    BY DelayType
  <2>8. TakesEffect(e, s, n + 1, delay)
    BY <1>8, <2>2, <2>7 DEF RetryAgain, AgainUnanswered, TakesEffect
  <2>9. JobsStep
    <3>1. n + 1 \in 1..MAX_ATTEMPTS /\ delay = computeRetryDelay(n + 1 - 1) /\ n + 1 # 1
      <4>1. n + 1 - 1 = n
        OBVIOUS
      <4> QED BY <2>3, <2>4, <2>7, <4>1
    <3> QED BY <1>0, <2>6, <2>8, <3>1, AppendedStep
  <2>10. /\ slot'[k].pc = "return" \/ slot' = slot
         /\ UNCHANGED <<attempts, deadLetters, indexJobs>>
    BY <1>0, <1>8 DEF RetryAgain, AgainUnanswered, SlotType
  <2>11. Agreement'
    <3>1. CASE slot'[k].pc = "return"
      BY <1>b, <1>d, <3>1 DEF HasRow
    <3>2. CASE slot' = slot
      BY <1>0, <3>2, AgreementStep DEF consumerVars, requestVars
    <3> QED BY <2>10, <3>1, <3>2
  <2> QED BY <1>0, <1>c, <2>9, <2>10, <2>11, JustifiedStep, Untouched
<1>9. CASE Complete(k) \/ NextRefused(k) \/ IndexUnbound(k) \/ RetryThrow(k)
  <2>1. slot[k].job \in DOMAIN jobs
    BY <1>9, <1>e DEF Complete, NextRefused, IndexUnbound, RetryThrow, SlotAt
  <2>2. JobsStep
    BY <1>0, <1>9, <2>1, FinishedStep
    DEF Complete, NextRefused, IndexUnbound, RetryThrow, JobFails, FinishJob
  <2>3. slot'[k].pc = "idle" /\ UNCHANGED <<attempts, deadLetters, indexJobs>>
    BY <1>0, <1>9
    DEF Complete, NextRefused, IndexUnbound, RetryThrow, JobFails, Free
  <2> QED BY <1>0, <1>b, <1>c, <1>d, <2>2, <2>3, JustifiedStep, Untouched DEF HasRow
<1>10. CASE LoseLock(k)
  <2>1. /\ slot'[k].pc = slot[k].pc /\ slot'[k].attempt = slot[k].attempt
        /\ slot'[k].job = slot[k].job /\ slot'[k].success = slot[k].success
        /\ UNCHANGED tableVars
    BY <1>0, <1>10 DEF LoseLock, SlotType
  <2>2. SlotAgrees(slot[k])'
    BY <1>0, <2>1 DEF SlotAgrees, Outcome, isLastAttempt, tableVars
  <2> QED BY <1>0, <1>b, <1>c, <2>1, <2>2, JustifiedStep, Untouched DEF tableVars
<1> QED BY <1>1, <1>2, <1>3, <1>4, <1>5, <1>6, <1>7, <1>8, <1>9, <1>10 DEF SlotStep

LEMMA RetryChain ==
    ASSUME CInv, Solid, RetryNext, UNCHANGED <<consumerVars, build, requestVars>>
    PROVE  Justified' /\ RowsNamed' /\ Agreement'
<1>0. TInv /\ Justified /\ RowsNamed /\ Agreement
  BY DEF CInv, HInv
<1>1. CASE RetryCrash
  <2>1. \A k \in Slots : SlotAgrees(slot[k])'
    <3>1. \A k \in Slots : slot'[k].pc = "idle"
      BY <1>1 DEF RetryCrash, Free
    <3> QED BY <3>1 DEF SlotAgrees, HasRow
  <2> QED BY <1>0, <1>1, <2>1, JustifiedStep, Untouched, AgreementStep
          DEF RetryCrash, tableVars, consumerVars, requestVars, RowsNamed
<1>2. CASE Stalled
  <2>1. JobsStep
    <3>1. PICK j \in DOMAIN jobs :
              jobs' = [jobs EXCEPT
                        ![j].state = IF jobs[j].stalls < 1 THEN "waiting" ELSE "failed",
                        ![j].stalls = @ + 1]
      BY <1>2 DEF Stalled
    <3>2. jobs \in Seq(JobType)
      BY <1>0 DEF TInv, TypeOK, TablesTypeOK
    <3>3. jobs[j].stalls + 1 \in Nat
      <4>1. jobs[j] \in JobType
        BY <3>2, EntryTyped
      <4> QED BY <4>1 DEF JobType
    <3>4. PICK state \in {"waiting", "failed"}, stalls \in Nat :
              jobs' = [jobs EXCEPT ![j].state = state, ![j].stalls = stalls]
      BY <3>1, <3>3
    <3> QED BY <3>2, <3>4, JobUpdated DEF JobsStep
  <2> QED BY <1>0, <1>2, <2>1, JustifiedStep, Untouched, AgreementStep
          DEF Stalled, consumerVars, requestVars, RowsNamed
<1> QED BY <1>1, <1>2, SlotChain DEF RetryNext

-----------------------------------------------------------------------------
(* The requests of tenants.                                                *)

LEMMA ReplayChain ==
    ASSUME CInv, Solid, NEW r \in Replays, replaySubscription(r),
           UNCHANGED <<consumerVars, retryVars>>
    PROVE  Justified' /\ RowsNamed' /\ Agreement'
<1>0. /\ TInv /\ Justified /\ RowsNamed /\ Agreement
      /\ replay \in [Replays -> ReplayType]
      /\ UNCHANGED <<sub, attempts, deadLetters, indexJobs, con, slot, manual>>
  BY DEF CInv, HInv, TInv, TypeOK, RedeliveryTypeOK, replaySubscription, ReadEvents, AddBulk,
         BulkUnanswered, ReplayFails, tableVars, consumerVars, retryVars, requestVars
<1>a. \A q \in Replays : q # r => replay'[q] = replay[q]
  BY <1>0
  DEF replaySubscription, ReadEvents, AddBulk, BulkUnanswered, ReplayFails, requestVars
<1>b. ASSUME BulkOK(r)', JobsStep PROVE Justified' /\ RowsNamed' /\ Agreement'
  BY <1>0, <1>a, <1>b, JustifiedStep, Untouched, AgreementStep DEF RowsNamed
<1>1. CASE ReadEvents(r)
  <2>1. PICK s \in Subs, events \in Listings :
            replay' = [replay EXCEPT ![r] =
                        [pc |-> IF events = <<>> THEN "done" ELSE "add",
                         bulk |-> [i \in DOMAIN events |-> replayJob(events[i], s)]]]
    BY <1>1 DEF ReadEvents
  <2>2. replay'[r].bulk = [i \in DOMAIN events |-> replayJob(events[i], s)]
    BY <1>0, <2>1
  <2>3. BulkOK(r)'
    BY <2>2 DEF BulkOK, replayJob, newJob
  <2> QED BY <1>1, <1>b, <2>3, Untouched DEF ReadEvents, tableVars
<1>2. CASE AddBulk(r) \/ BulkUnanswered(r)
  <2>1. replay'[r].pc # "unsent" /\ replay'[r].bulk = replay[r].bulk
    BY <1>0, <1>2 DEF AddBulk, BulkUnanswered, ReplayType, requestVars
  <2>2. BulkOK(r)'
    BY <1>0, <2>1 DEF BulkOK, Agreement
  <2>3. PICK bulk \in Seq(JobType) :
            /\ jobs' = jobs \o bulk /\ DOMAIN bulk = DOMAIN replay[r].bulk
            /\ \A i \in DOMAIN bulk : /\ bulk[i].event = replay[r].bulk[i].event
                                      /\ bulk[i].sub = replay[r].bulk[i].sub
                                      /\ bulk[i].number = replay[r].bulk[i].number
                                      /\ bulk[i].delay = replay[r].bulk[i].delay
    <3>1. replay[r].bulk \in Seq(JobType)
      BY <1>0 DEF ReplayType
    <3>2. CASE AddBulk(r)
      BY <3>1, <3>2 DEF AddBulk
    <3>3. CASE BulkUnanswered(r)
      <4>1. \A x \in JobType : /\ unanswered(x).event = x.event
                               /\ unanswered(x).sub = x.sub
                               /\ unanswered(x).number = x.number
                               /\ unanswered(x).delay = x.delay
        BY DEF unanswered, JobType
      <4>2. \A i \in DOMAIN replay[r].bulk : replay[r].bulk[i] \in JobType
        BY <3>1, EntryTyped
      <4> QED BY <3>1, <3>3, <4>1, <4>2, UnansweredBulk DEF BulkUnanswered
    <3> QED BY <1>2, <3>2, <3>3
  <2>4. /\ \A j \in DOMAIN jobs : jobs'[j] = jobs[j]
        /\ \A j \in DOMAIN jobs' \ DOMAIN jobs :
             \E i \in DOMAIN bulk : jobs'[j] = bulk[i]
    <3>1. jobs \in Seq(JobType)
      BY <1>0 DEF TInv, TypeOK, TablesTypeOK
    <3> QED BY <2>3, <3>1, BulkAdded
  <2>5. ASSUME NEW j \in DOMAIN jobs' \ DOMAIN jobs PROVE JobOK(jobs[j])'
    <3>1. PICK i \in DOMAIN bulk : jobs'[j] = bulk[i]
      BY <2>4
    <3>2. /\ jobs'[j].number = 1 /\ jobs'[j].delay = NoDelay
          /\ Asks(r, jobs[j].event, jobs[j].sub)'
      BY <1>0, <2>1, <2>3, <3>1 DEF Agreement, BulkOK, Asks, Lists
    <3>3. 1 \in 1..MAX_ATTEMPTS /\ computeRetryDelay(1 - 1) = NoDelay
      BY ScheduleAssumption DEF computeRetryDelay
    <3>4. \A e, s : Chain(e, s, 1)'
      BY DEF Chain
    <3> QED BY <3>2, <3>3, <3>4 DEF JobOK
  <2>6. JobsStep
    BY <2>4, <2>5 DEF JobsStep
  <2> QED BY <1>b, <2>2, <2>6
<1>3. CASE ReplayFails(r)
  <2>1. replay'[r].bulk = replay[r].bulk
    BY <1>0, <1>3 DEF ReplayFails, ReplayType
  <2>2. BulkOK(r)'
    BY <1>0, <2>1 DEF BulkOK, Agreement
  <2> QED BY <1>3, <1>b, <2>2, Untouched DEF ReplayFails, tableVars
<1> QED BY <1>1, <1>2, <1>3 DEF replaySubscription

LEMMA ManualChain ==
    ASSUME CInv, Solid, NEW m \in ManualRetries, retryDeadLetter(m),
           UNCHANGED <<consumerVars, retryVars>>
    PROVE  Justified' /\ RowsNamed' /\ Agreement'
<1>0. /\ TInv /\ Justified /\ RowsNamed /\ Agreement
      /\ ManualOK(manual[m]) /\ ManualAgrees(manual[m])
      /\ manual \in [ManualRetries -> ManualType]
      /\ UNCHANGED <<sub, jobs, indexJobs, con, slot, replay>>
  BY LetterTyped
  DEF CInv, HInv, TInv, TypeOK, RedeliveryTypeOK, Agreement, retryDeadLetter, LoadLetter,
      CreateManual, DeliverManual, ResolveLetter, RecordFailure, ManualFails, tableVars,
      consumerVars, retryVars
<1>a. \A n \in ManualRetries : n # m => manual'[n] = manual[n]
  BY <1>0
  DEF retryDeadLetter, LoadLetter, CreateManual, DeliverManual, ResolveLetter,
      RecordFailure, ManualFails
<1>b. ASSUME ManualAgrees(manual[m])' PROVE Agreement'
  BY <1>0, <1>a, <1>b, AgreementStep
<1>c. manual[m].pc # "unsent" =>
        /\ manual[m].letter \in DOMAIN deadLetters /\ LetterOK(Letter(m))
        /\ ManualNumber(m) = MAX_ATTEMPTS + 1
  BY <1>0 DEF ManualOK, Justified, Letter, LetterOK, ManualNumber
<1>1. CASE LoadLetter(m) \/ ManualFails(m)
  <2>1. manual'[m].pc \in {"create", "error"} /\ UNCHANGED tableVars
    BY <1>0, <1>1 DEF LoadLetter, ManualFails, ManualType
  <2>2. ManualAgrees(manual[m])'
    BY <2>1 DEF ManualAgrees
  <2> QED BY <1>0, <1>b, <2>1, <2>2, JustifiedStep, Untouched DEF tableVars, RowsNamed
<1>2. CASE CreateManual(m)
  <2>1. PICK e \in Events, s \in Subs, n \in Nat :
            e = Letter(m).event /\ s = Letter(m).sub /\ n = ManualNumber(m)
    BY <1>0, <1>2, LetterTyped DEF CreateManual, ManualNumber
  <2>2. PICK i : i = NewAttempt
    OBVIOUS
  <2>3. createPendingAttempt(e, s, n) /\ deadLetters' = deadLetters
    BY <1>2, <2>1 DEF CreateManual
  <2>4. attempts'[i] = [event |-> e, sub |-> s, number |-> n,
                        status |-> "pending", delay |-> NoDelay]
    BY <1>0, <2>2, <2>3, AttemptCreated DEF TInv, TypeOK, TablesTypeOK
  <2>5. n = MAX_ATTEMPTS + 1 /\ DeadLettered(e, s)'
    BY <1>2, <1>c, <2>1, <2>3 DEF CreateManual, DeadLettered, Letter
  <2>6. sub[s] # "deleted"
    <3>1. Attempted(e, s, MAX_ATTEMPTS, "dead_lettered")
      BY <1>2, <1>c, <2>1 DEF CreateManual, LetterOK
    <3> QED BY <1>0, <3>1 DEF Attempted, RowsNamed
  <2>7. RowsStep /\ RowsNamed'
    BY <1>0, <2>3, <2>5, <2>6, CreatedStep
  <2>8. /\ manual'[m].pc = "deliver" /\ manual'[m].attempt = i
        /\ manual'[m].letter = manual[m].letter
    BY <1>0, <1>2, <2>2 DEF CreateManual, ManualType
  <2>9. ManualAgrees(manual[m])'
    BY <2>1, <2>3, <2>4, <2>5, <2>8 DEF ManualAgrees, Letter
  <2> QED BY <1>0, <1>b, <2>3, <2>7, <2>9, JustifiedStep, Untouched
<1>3. CASE DeliverManual(m)
  <2>1. PICK ok \in BOOLEAN : manual' = [manual EXCEPT ![m].pc = "resolve", ![m].success = ok]
    BY <1>3 DEF DeliverManual
  <2>2. /\ manual'[m].pc = "resolve" /\ manual'[m].attempt = manual[m].attempt
        /\ manual'[m].letter = manual[m].letter /\ manual[m].pc = "deliver"
        /\ UNCHANGED tableVars
    BY <1>0, <1>3, <2>1 DEF DeliverManual, ManualType
  <2>3. ManualAgrees(manual[m])'
    BY <1>0, <2>2 DEF ManualAgrees, tableVars
  <2> QED BY <1>0, <1>b, <2>2, <2>3, JustifiedStep, Untouched DEF tableVars, RowsNamed
<1>4. CASE ResolveLetter(m) \/ RecordFailure(m)
  <2>1. /\ manual[m].attempt \in DOMAIN attempts /\ manual[m].pc = "resolve"
        /\ attempts[manual[m].attempt].status = "pending"
        /\ attempts[manual[m].attempt].event = Letter(m).event
        /\ attempts[manual[m].attempt].sub = Letter(m).sub
        /\ attempts[manual[m].attempt].number = MAX_ATTEMPTS + 1
    BY <1>0, <1>4
    DEF ResolveLetter, RecordFailure, ManualOK, ManualAgrees, Letter, CInv, HInv,
        HeldPending, ManualHolds
  <2>2. PICK a \in DOMAIN attempts, status \in {"success", "failed"}, delay \in Nat :
            /\ a = manual[m].attempt
            /\ status = IF manual[m].success THEN "success" ELSE "failed"
            /\ attempts' = [attempts EXCEPT ![a].status = status, ![a].delay = delay]
    BY <1>4, <2>1 DEF ResolveLetter, RecordFailure, resolveAttempt, NoDelay
  <2>3. ManualAgrees(manual[m])'
    <3>1. manual'[m].pc = "done"
      BY <1>0, <1>4 DEF ResolveLetter, RecordFailure, ManualType
    <3> QED BY <3>1 DEF ManualAgrees
  <2>4. /\ attempts'[a].event = attempts[a].event /\ attempts'[a].sub = attempts[a].sub
        /\ attempts'[a].number = attempts[a].number /\ attempts'[a].status = status
        /\ a \in DOMAIN attempts'
    <3>1. /\ attempts'[a] = [attempts[a] EXCEPT !.status = status, !.delay = delay]
          /\ attempts[a] \in AttemptType /\ DOMAIN attempts' = DOMAIN attempts
      BY <1>0, <2>2, AttemptUpdated, EntryTyped DEF TInv, TypeOK, TablesTypeOK
    <3> QED BY <3>1 DEF AttemptType
  <2>5. CASE ResolveLetter(m)
    <3>1. PICK d \in DOMAIN deadLetters : d = manual[m].letter
      BY <1>c, <2>1
    <3>2. deadLetters' = [deadLetters EXCEPT ![d].resolved = TRUE]
      BY <2>5, <3>1 DEF ResolveLetter
    <3>3. /\ DOMAIN deadLetters' = DOMAIN deadLetters
          /\ \A x \in DOMAIN deadLetters : x # d => deadLetters'[x] = deadLetters[x]
          /\ deadLetters'[d].event = deadLetters[d].event
          /\ deadLetters'[d].sub = deadLetters[d].sub
          /\ deadLetters'[d].total = deadLetters[d].total
          /\ deadLetters'[d].resolved = TRUE
      BY <1>0, <3>2, LetterResolved DEF TInv, TypeOK, TablesTypeOK
    <3>4. Redeemed(attempts[a].event, attempts[a].sub)'
      <4>1. PICK e, s : e = attempts[a].event /\ s = attempts[a].sub
        OBVIOUS
      <4>2. Redeemed(e, s)'
        BY <2>1, <2>2, <3>1, <3>3, <4>1 DEF Redeemed, Letter
      <4> QED BY <2>4, <4>1, <4>2
    <3>5. status = "success"
      BY <2>2, <2>5 DEF ResolveLetter
    <3>6. RowsStep /\ RowsNamed'
      <4>1. attempts[a].status = "pending"
        BY <2>1, <2>2
      <4>2. attempts' = [attempts EXCEPT ![a].status = status, ![a].delay = delay]
        BY <2>2
      <4> QED BY <1>0, <3>4, <3>5, <4>1, <4>2, ResolvedStep
    <3>7. LetterOK(deadLetters[d])'
      <4>1. PICK x : x = deadLetters[d]
        OBVIOUS
      <4>2. LetterOK(x)'
        BY <1>0, <4>1, JustifiedStays DEF Justified
      <4>3. Attempted(x.event, x.sub, MAX_ATTEMPTS + 1, "success")'
        BY <2>1, <2>2, <2>4, <3>1, <3>5, <4>1 DEF Attempted, Letter
      <4> QED BY <3>3, <4>1, <4>2, <4>3 DEF LetterOK
    <3>8. LettersStep
      BY <3>3, <3>7 DEF LettersStep
    <3> QED BY <1>0, <1>b, <2>3, <3>6, <3>8, JustifiedStep, Untouched
  <2>6. CASE RecordFailure(m)
    <3>1. status = "failed" /\ deadLetters' = deadLetters
      BY <2>2, <2>6 DEF RecordFailure
    <3>2. ~(attempts[a].number <= MAX_ATTEMPTS)
      BY <2>1, <2>2, ScheduleAssumption
    <3>3. RowsStep /\ RowsNamed'
      <4>1. attempts[a].status = "pending"
        BY <2>1, <2>2
      <4>2. attempts' = [attempts EXCEPT ![a].status = status, ![a].delay = delay]
        BY <2>2
      <4> QED BY <1>0, <3>1, <3>2, <4>1, <4>2, ResolvedStep
    <3> QED BY <1>0, <1>b, <2>3, <3>1, <3>3, JustifiedStep, Untouched
  <2> QED BY <1>4, <2>5, <2>6
<1> QED BY <1>1, <1>2, <1>3, <1>4 DEF retryDeadLetter

-----------------------------------------------------------------------------
(* The invariant, and what it says.                                        *)

LEMMA TablesChain ==
    ASSUME CInv, Solid, TablesNext, UNCHANGED <<consumerVars, retryVars, requestVars>>
    PROVE  Justified' /\ RowsNamed' /\ Agreement'
<1>0. /\ TInv /\ Justified /\ RowsNamed /\ Agreement
      /\ UNCHANGED <<attempts, deadLetters, jobs, indexJobs>>
  BY DEF CInv, HInv, TablesNext, createSubscription, updateSubscription, deleteSubscription
<1>1. Justified' /\ Agreement'
  BY <1>0, JustifiedStep, Untouched, AgreementStep DEF consumerVars, retryVars, requestVars
<1>2. RowsNamed'
  <2>1. /\ \A a \in DOMAIN attempts : attempts[a].sub \in Subs
        /\ sub \in [Subs -> {"absent", "enabled", "disabled", "deleted"}]
    <3>1. attempts \in Seq(AttemptType)
      BY <1>0 DEF TInv, TypeOK, TablesTypeOK
    <3>2. \A a \in DOMAIN attempts : attempts[a] \in AttemptType
      BY <3>1, EntryTyped
    <3> QED BY <1>0, <3>2 DEF AttemptType, TInv, TypeOK, TablesTypeOK
  <2> QED BY <1>0, <2>1
          DEF RowsNamed, TablesNext, createSubscription, updateSubscription,
              deleteSubscription, Referenced
<1> QED BY <1>1, <1>2

LEMMA CInvStep == CInv /\ [Next]_vars => CInv'
<1> SUFFICES ASSUME CInv, [Next]_vars PROVE CInv'
  OBVIOUS
<1>1. HInv' /\ Solid
  BY HInvStep, StepSolid DEF CInv
<1>2. ASSUME UNCHANGED <<tableVars, con, slot, requestVars>>
      PROVE  Justified' /\ RowsNamed' /\ Agreement'
  <2>1. TInv /\ Justified /\ RowsNamed /\ Agreement
    BY DEF CInv, HInv
  <2> QED BY <1>1, <1>2, <2>1, JustifiedStep, Untouched, AgreementStep
          DEF tableVars, requestVars, RowsNamed
<1>3. CASE RedeliveryNext /\ UNCHANGED <<consumerVars, retryVars>>
  BY <1>1, <1>3, ReplayChain, ManualChain DEF RedeliveryNext, CInv
<1>4. CASE ConsumersNext /\ UNCHANGED <<retryVars, requestVars>>
  BY <1>1, <1>2, <1>4, ConsumerChain
  DEF ConsumersNext, Produce, retryVars, CInv
<1> QED BY <1>1, <1>2, <1>3, <1>4, TablesChain, RetryChain
        DEF CInv, Next, vars, consumerVars, retryVars

LEMMA CInvInit == Init => CInv
<1> SUFFICES ASSUME Init PROVE CInv
  OBVIOUS
<1>1. Justified /\ RowsNamed
  <2>1. attempts = <<>> /\ jobs = <<>> /\ deadLetters = <<>> /\ indexJobs = {}
    BY DEF Init, TablesInit
  <2>2. DOMAIN attempts = {} /\ DOMAIN jobs = {} /\ DOMAIN deadLetters = {}
    BY <2>1
  <2> QED BY <2>1, <2>2 DEF Justified, RowsNamed
<1>2. Agreement
  <2>1. ASSUME NEW c \in Consumers PROVE ConAgrees(con[c])
    BY DEF Init, ConsumersInit, ConAgrees, Out, InHand
  <2>2. ASSUME NEW k \in Slots PROVE SlotAgrees(slot[k])
    BY DEF Init, RetryInit, SlotAgrees, Free, HasRow
  <2>3. ASSUME NEW m \in ManualRetries PROVE ManualAgrees(manual[m])
    BY DEF Init, RedeliveryInit, ManualAgrees
  <2>4. ASSUME NEW r \in Replays PROVE BulkOK(r)
    <3>1. replay[r].bulk = <<>>
      BY DEF Init, RedeliveryInit
    <3>2. DOMAIN replay[r].bulk = {}
      BY <3>1
    <3> QED BY <3>2 DEF BulkOK
  <2> QED BY <2>1, <2>2, <2>3, <2>4 DEF Agreement
<1> QED BY <1>1, <1>2, HInvInit DEF CInv

\* Every row, job, dead letter and document is justified by final rows, in every
\* reachable state.
THEOREM RecordsAreJustified == Spec => []CInv
  BY CInvInit, CInvStep, PTL DEF Spec

\* A retry, a later attempt and a replay's job exist for a recorded cause only.
THEOREM RetriesHaveCauses == Spec => []RetryHasCause
<1>1. CInv => RetryHasCause
  <2> SUFFICES ASSUME CInv PROVE RetryHasCause
    OBVIOUS
  <2>1. MAX_ATTEMPTS \in Nat /\ computeRetryDelay(1 - 1) = NoDelay
    BY ScheduleAssumption DEF computeRetryDelay
  <2>2. ASSUME NEW j \in DOMAIN jobs PROVE JobHasCause(j)
    <3>1. JobOK(jobs[j])
      BY DEF CInv, Justified
    <3> QED BY <2>1, <3>1 DEF JobOK, JobHasCause, Chain, Asks
  <2>3. ASSUME NEW a \in DOMAIN attempts PROVE AttemptHasCause(a)
    <3>1. RowOK(attempts[a])
      BY DEF CInv, Justified
    <3> QED BY <2>1, <3>1 DEF RowOK, AttemptHasCause, Chain
  <2> QED BY <2>2, <2>3 DEF RetryHasCause
<1> QED BY <1>1, RecordsAreJustified, PTL

\* A dead letter stands for a recorded chain of failures up to the last attempt.
THEOREM DeadLettersAreBacked == Spec => []DeadLetterBacked
<1>1. CInv => DeadLetterBacked
  <2> SUFFICES ASSUME CInv, NEW d \in DOMAIN deadLetters
               PROVE  /\ deadLetters[d].total = MAX_ATTEMPTS
                      /\ Attempted(deadLetters[d].event, deadLetters[d].sub,
                                   MAX_ATTEMPTS, "dead_lettered")
                      /\ \A n \in 1..(MAX_ATTEMPTS - 1) :
                           Attempted(deadLetters[d].event, deadLetters[d].sub, n, "failed")
    BY DEF DeadLetterBacked
  <2>1. LetterOK(deadLetters[d])
    BY DEF CInv, Justified
  <2> QED BY <2>1 DEF LetterOK, Chain, Announced, Attempted
<1> QED BY <1>1, RecordsAreJustified, PTL

\* Deletion never removes a subscription that an attempt, a retry or a dead
\* letter names.
THEOREM NamesStayValid == Spec => []NamedSubscriptionsExist
<1>1. CInv => NamedSubscriptionsExist
  <2> SUFFICES ASSUME CInv PROVE NamedSubscriptionsExist
    OBVIOUS
  <2>1. ASSUME NEW j \in DOMAIN jobs, jobs[j].number > 1 PROVE sub[jobs[j].sub] # "deleted"
    <3>1. JobOK(jobs[j])
      BY DEF CInv, Justified
    <3>2. Announced(jobs[j].event, jobs[j].sub, 1)
      BY <2>1, <3>1, ScheduleAssumption DEF JobOK, Chain
    <3> QED BY <3>2 DEF Announced, CInv, RowsNamed
  <2>2. ASSUME NEW d \in DOMAIN deadLetters PROVE sub[deadLetters[d].sub] # "deleted"
    BY DEF CInv, Justified, LetterOK, Attempted, RowsNamed
  <2> QED BY <2>1, <2>2 DEF NamedSubscriptionsExist, CInv, RowsNamed
<1> QED BY <1>1, RecordsAreJustified, PTL

\* The delivery log never contradicts the table of attempts.
THEOREM LogAgreesWithHistory == Spec => []LogMatchesHistory
<1>1. CInv => LogMatchesHistory
  BY DEF CInv, Justified, DocumentOK, LogMatchesHistory
<1> QED BY <1>1, RecordsAreJustified, PTL

-----------------------------------------------------------------------------
(* Which manual retry resolved which letter.                               *)

\* The row of a manual retry names the letter the retry loaded, for good.
ManualOwns(m) ==
    /\ manual[m].pc \in {"unsent", "create"} => manual[m].attempt = 0
    /\ manual[m].attempt # 0 =>
         LET a == manual[m].attempt
             d == manual[m].letter
         IN /\ a \in DOMAIN attempts
            /\ d \in DOMAIN deadLetters
            /\ attempts[a].event = deadLetters[d].event
            /\ attempts[a].sub = deadLetters[d].sub
            /\ attempts[a].number = MAX_ATTEMPTS + 1

RowsOfTheirOwn == \A m, n \in ManualRetries :
    manual[m].attempt # 0 /\ manual[m].attempt = manual[n].attempt => m = n

MInv == /\ CInv
        /\ \A m \in ManualRetries : ManualOwns(m)
        /\ RowsOfTheirOwn
        /\ ResolvedWhenRedelivered

LEMMA TotalIsLast ==
    ASSUME CInv
    PROVE  \A d \in DOMAIN deadLetters : deadLetters[d].total = MAX_ATTEMPTS
  BY DEF CInv, Justified, LetterOK

\* A step that makes no attempt after the last a success, and resolves no letter.
NoRedelivery ==
    /\ \A a \in DOMAIN attempts' :
         \/ a \in DOMAIN attempts /\ attempts'[a] = attempts[a]
         \/ attempts'[a].status # "success"
         \/ attempts'[a].number <= MAX_ATTEMPTS
    /\ \A d \in DOMAIN deadLetters' :
         \/ d \in DOMAIN deadLetters /\ deadLetters'[d].resolved = deadLetters[d].resolved
         \/ d \notin DOMAIN deadLetters /\ ~deadLetters'[d].resolved

\* A manual retry keeps its letter and its row, or makes a new row.
ManualsGoOn ==
    \A m \in ManualRetries :
        \/ /\ manual[m].attempt # 0
           /\ manual'[m].attempt = manual[m].attempt
           /\ manual'[m].letter = manual[m].letter
        \/ /\ manual[m].attempt = 0
           /\ manual'[m].attempt # 0 => manual'[m].attempt \notin DOMAIN attempts

LEMMA RedeliversStays ==
    ASSUME CInv, Solid, ManualsGoOn, \A m \in ManualRetries : ManualOwns(m)
    PROVE  \A m \in ManualRetries, d \in DOMAIN deadLetters :
             Redelivers(m, d) => Redelivers(m, d)'
  BY DEF Redelivers, ManualOwns, ManualsGoOn, Solid, LettersKept, Kept, HistoryKept

LEMMA NoneRedelivered ==
    ASSUME MInv, CInv', Solid, NoRedelivery, ManualsGoOn,
           \A m \in ManualRetries : ManualOwns(m)'
    PROVE  ResolvedWhenRedelivered'
<1>0. CInv /\ ResolvedWhenRedelivered /\ \A m \in ManualRetries : ManualOwns(m)
  BY DEF MInv
<1>1. ASSUME NEW m \in ManualRetries, NEW d \in DOMAIN deadLetters', Redelivers(m, d)'
      PROVE  d \in DOMAIN deadLetters /\ Redelivers(m, d)
  <2>1. manual'[m].attempt # 0 /\ ~(MAX_ATTEMPTS + 1 <= MAX_ATTEMPTS)
    BY <1>1, ScheduleAssumption DEF Redelivers
  <2>2. PICK a \in DOMAIN attempts' : /\ a = manual'[m].attempt
                                      /\ attempts'[a].number = MAX_ATTEMPTS + 1
                                      /\ attempts'[a].status = "success"
    BY <1>1, <2>1 DEF ManualOwns, Redelivers
  <2>3. a \in DOMAIN attempts /\ attempts'[a] = attempts[a]
    BY <2>1, <2>2 DEF NoRedelivery
  <2>4. /\ manual[m].attempt = a /\ manual[m].letter = d
        /\ d \in DOMAIN deadLetters
    BY <1>0, <1>1, <2>1, <2>2, <2>3 DEF ManualsGoOn, Redelivers, ManualOwns
  <2>5. deadLetters[d].total = MAX_ATTEMPTS
    BY <1>0, <2>4, TotalIsLast
  <2> QED BY <1>0, <2>1, <2>2, <2>3, <2>4, <2>5 DEF Redelivers, ManualOwns
<1>2. \A m \in ManualRetries, d \in DOMAIN deadLetters :
        Redelivers(m, d) => Redelivers(m, d)'
  BY <1>0, RedeliversStays
<1>3. ASSUME NEW d \in DOMAIN deadLetters'
      PROVE  deadLetters'[d].resolved <=> \E m \in ManualRetries : Redelivers(m, d)'
  <2>1. CASE d \in DOMAIN deadLetters
    BY <1>0, <1>1, <1>2, <2>1 DEF NoRedelivery, ResolvedWhenRedelivered
  <2>2. CASE d \notin DOMAIN deadLetters
    BY <1>1, <2>2 DEF NoRedelivery
  <2> QED BY <2>1, <2>2
<1>4. ASSUME NEW a \in DOMAIN attempts', attempts'[a].number > MAX_ATTEMPTS,
             attempts'[a].status = "success"
      PROVE  \E m \in ManualRetries, d \in DOMAIN deadLetters' :
                manual'[m].attempt = a /\ Redelivers(m, d)'
  <2>1. ~(attempts'[a].number <= MAX_ATTEMPTS)
    <3>1. attempts'[a] \in AttemptType
      BY EntryTyped DEF CInv, HInv, TInv, TypeOK, TablesTypeOK
    <3> QED BY <1>4, <3>1, ScheduleAssumption DEF AttemptType
  <2>2. a \in DOMAIN attempts /\ attempts'[a] = attempts[a]
    BY <1>4, <2>1 DEF NoRedelivery
  <2>3. PICK m \in ManualRetries, d \in DOMAIN deadLetters :
            manual[m].attempt = a /\ Redelivers(m, d)
    BY <1>0, <1>4, <2>2 DEF ResolvedWhenRedelivered
  <2>4. manual'[m].attempt = a
    BY <2>2, <2>3 DEF ManualsGoOn, Redelivers
  <2> QED BY <1>2, <2>3, <2>4 DEF Solid, LettersKept
<1> QED BY <1>3, <1>4 DEF ResolvedWhenRedelivered

\* A step that leaves the manual retries alone keeps their rows.
LEMMA OwnsStays ==
    ASSUME MInv, Solid, UNCHANGED manual
    PROVE  /\ \A m \in ManualRetries : ManualOwns(m)'
           /\ RowsOfTheirOwn' /\ ManualsGoOn
<1>1. ASSUME NEW m \in ManualRetries PROVE ManualOwns(m)'
  BY DEF MInv, ManualOwns, Solid, LettersKept, Kept, HistoryKept
<1>2. ManualsGoOn
  <2>1. 0 \notin DOMAIN attempts
    BY DEF MInv, CInv, HInv, TInv, TypeOK, TablesTypeOK
  <2> QED BY <2>1 DEF ManualsGoOn
<1> QED BY <1>1, <1>2 DEF MInv, RowsOfTheirOwn

LEMMA CreateRedeliversNothing ==
    ASSUME TInv, NEW e \in Events, NEW s \in Subs, NEW n \in Nat,
           createPendingAttempt(e, s, n), UNCHANGED deadLetters
    PROVE  NoRedelivery
<1>1. /\ DOMAIN attempts' = DOMAIN attempts \cup {NewAttempt}
      /\ \A a \in DOMAIN attempts : attempts'[a] = attempts[a]
      /\ attempts'[NewAttempt] = [event |-> e, sub |-> s, number |-> n,
                                  status |-> "pending", delay |-> NoDelay]
  BY AttemptCreated DEF TInv, TypeOK, TablesTypeOK
<1>2. attempts'[NewAttempt].status = "pending"
  BY <1>1
<1> QED BY <1>1, <1>2 DEF NoRedelivery

LEMMA ResultRedeliversNothing ==
    ASSUME TInv, NEW a \in DOMAIN attempts,
           NEW status \in {"success", "failed", "dead_lettered"}, NEW delay \in Nat,
           attempts' = [attempts EXCEPT ![a].status = status, ![a].delay = delay],
           attempts[a].number <= MAX_ATTEMPTS \/ status # "success",
           UNCHANGED deadLetters
    PROVE  NoRedelivery
<1>1. /\ DOMAIN attempts' = DOMAIN attempts
      /\ \A b \in DOMAIN attempts : b # a => attempts'[b] = attempts[b]
      /\ attempts'[a] = [attempts[a] EXCEPT !.status = status, !.delay = delay]
  BY AttemptUpdated DEF TInv, TypeOK, TablesTypeOK
<1>2. attempts[a] \in AttemptType
  BY EntryTyped DEF TInv, TypeOK, TablesTypeOK
<1>3. attempts'[a].number = attempts[a].number /\ attempts'[a].status = status
  BY <1>1, <1>2 DEF AttemptType
<1> QED BY <1>1, <1>3 DEF NoRedelivery

LEMMA UntouchedRedeliversNothing == UNCHANGED <<attempts, deadLetters>> => NoRedelivery
  BY DEF NoRedelivery

LEMMA ConsumerRedeliversNothing ==
    ASSUME CInv, NEW c \in Consumers, ConsumerStep(c) \/ ConsumerFault(c)
    PROVE  NoRedelivery
<1>0. /\ TInv /\ ConOK(con[c]) /\ ConAgrees(con[c]) /\ UNCHANGED deadLetters
  BY ConTyped
  DEF CInv, HInv, Agreement, ConsumerStep, ConsumerFault, Join, Fetch, LoadSubscriptions,
      CreateFirst, CreateRefused, Deliver, ResolveFirst, IndexFirst, ScheduleRetry,
      ScheduleUnanswered, CommitOffset, Fenced, Throw, CommitThrows, Crash, Evict,
      tableVars
<1>1. CASE CreateFirst(c)
  <2>1. PICK s \in con[c].todo : createPendingAttempt(Event(c), s, 1)
    BY <1>1 DEF CreateFirst
  <2>2. PICK e \in Events, t \in Subs : e = Event(c) /\ t = s
    BY <1>0, <1>1
    DEF CreateFirst, At, ConOK, ConsumerType, Event, TInv, TypeOK, ConsumersTypeOK
  <2> QED BY <1>0, <2>1, <2>2, CreateRedeliversNothing
<1>2. CASE ResolveFirst(c)
  <2>1. PICK a \in DOMAIN attempts, status \in {"success", "failed"}, delay \in Nat :
            /\ attempts[a].number = 1
            /\ attempts' = [attempts EXCEPT ![a].status = status, ![a].delay = delay]
    BY <1>0, <1>2, DelayType
    DEF ResolveFirst, resolveAttempt, FirstDelay, NoDelay, At, ConOK, ConAgrees, InHand,
        Attempt
  <2>2. attempts[a].number <= MAX_ATTEMPTS
    BY <2>1, ScheduleAssumption
  <2> QED BY <1>0, <2>1, <2>2, ResultRedeliversNothing
<1>3. CASE ~(CreateFirst(c) \/ ResolveFirst(c))
  <2>1. UNCHANGED attempts
    BY <1>3
    DEF ConsumerStep, ConsumerFault, Join, Fetch, LoadSubscriptions, CreateRefused,
        Deliver, IndexFirst, ScheduleRetry, ScheduleUnanswered, CommitOffset, Fenced,
        Throw, CommitThrows, Crash, Evict, tableVars
  <2> QED BY <1>0, <2>1, UntouchedRedeliversNothing
<1> QED BY <1>1, <1>2, <1>3

LEMMA RetryRedeliversNothing ==
    ASSUME CInv, RetryNext
    PROVE  NoRedelivery
<1>0. TInv
  BY DEF CInv, HInv
<1>1. ASSUME NEW k \in Slots, CreateNext(k) PROVE NoRedelivery
  <2>1. PICK e \in Events, s \in Subs, n \in Nat :
            e = JobOf(k).event /\ s = JobOf(k).sub /\ n = JobOf(k).number
    BY <1>0, <1>1, SlotTyped DEF CreateNext, SlotAt
  <2>2. createPendingAttempt(e, s, n) /\ UNCHANGED deadLetters
    BY <1>1, <2>1 DEF CreateNext
  <2> QED BY <1>0, <2>2, CreateRedeliversNothing
<1>2. ASSUME NEW k \in Slots, ResolveNext(k) PROVE NoRedelivery
  <2>0. /\ SlotOK(slot[k]) /\ SlotAgrees(slot[k]) /\ Justified /\ slot[k].pc = "resolve"
        /\ UNCHANGED deadLetters
    BY <1>0, <1>2, SlotTyped DEF CInv, Agreement, ResolveNext, SlotAt
  <2>1. JobOf(k).number \in 1..MAX_ATTEMPTS /\ MAX_ATTEMPTS \in Nat
    BY <2>0, ScheduleAssumption DEF SlotOK, Justified, JobOf, JobOK
  <2>2. PICK a \in DOMAIN attempts, status \in {"success", "failed", "dead_lettered"},
             delay \in Nat :
            /\ attempts[a].number = JobOf(k).number
            /\ attempts' = [attempts EXCEPT ![a].status = status, ![a].delay = delay]
    <3>1. NoDelay \in Nat /\ computeRetryDelay(JobOf(k).number) \in Nat
      BY DelayType DEF NoDelay
    <3> QED BY <1>2, <2>0, <3>1
            DEF ResolveNext, resolveAttempt, deadLetterAttempt, SlotAgrees, HasRow, JobOf
  <2>3. attempts[a].number <= MAX_ATTEMPTS
    BY <2>1, <2>2
  <2> QED BY <1>0, <2>0, <2>2, <2>3, ResultRedeliversNothing
<1>3. ASSUME NEW k \in Slots, Bury(k) PROVE NoRedelivery
  <2>1. PICK e \in Events, s \in Subs, n \in Nat :
            e = JobOf(k).event /\ s = JobOf(k).sub /\ n = JobOf(k).number
    BY <1>0, <1>3, SlotTyped DEF Bury, SlotAt
  <2>2. PICK i : /\ DOMAIN deadLetters' = DOMAIN deadLetters \cup {i}
                 /\ i \notin DOMAIN deadLetters
                 /\ \A d \in DOMAIN deadLetters : deadLetters'[d] = deadLetters[d]
                 /\ ~deadLetters'[i].resolved
    <3>1. createDeadLetter(e, s, n) /\ deadLetters \in Seq(DeadLetterType)
      BY <1>0, <1>3, <2>1 DEF Bury, TInv, TypeOK, TablesTypeOK
    <3>2. PICK i : i = Len(deadLetters) + 1 /\ i \notin DOMAIN deadLetters
      BY <3>1
    <3>3. /\ DOMAIN deadLetters' = DOMAIN deadLetters \cup {i}
          /\ \A d \in DOMAIN deadLetters : deadLetters'[d] = deadLetters[d]
          /\ deadLetters'[i] = [event |-> e, sub |-> s, total |-> n, resolved |-> FALSE]
      BY <3>1, <3>2, LetterAdded
    <3>4. ~deadLetters'[i].resolved
      BY <3>3
    <3> QED BY <3>2, <3>3, <3>4
  <2> QED BY <1>3, <2>2 DEF NoRedelivery, Bury
<1> QED BY <1>1, <1>2, <1>3, UntouchedRedeliversNothing
        DEF RetryNext, SlotStep, Take, Load, NextRefused, Redeliver, IndexNext, IndexUnbound,
            JobFails, RetryAgain, AgainUnanswered, Complete, RetryThrow, LoseLock,
            RetryCrash, Stalled, tableVars

\* A manual retry writes its own row alone, and resolves with it the letter it
\* loaded.
LEMMA ManualRedelivers ==
    ASSUME MInv, CInv', Solid, NEW m \in ManualRetries, retryDeadLetter(m)
    PROVE  MInv'
<1>0. /\ CInv /\ TInv /\ ManualOK(manual[m]) /\ ManualOwns(m) /\ RowsOfTheirOwn
      /\ manual \in [ManualRetries -> ManualType] /\ ResolvedWhenRedelivered
      /\ \A n \in ManualRetries : ManualOwns(n)
  BY LetterTyped DEF MInv, CInv, HInv, TInv, TypeOK, RedeliveryTypeOK
<1>a. \A n \in ManualRetries : n # m => manual'[n] = manual[n]
  BY <1>0
  DEF retryDeadLetter, LoadLetter, CreateManual, DeliverManual, ResolveLetter,
      RecordFailure, ManualFails
<1>b. ASSUME NEW n \in ManualRetries, n # m PROVE ManualOwns(n)'
  BY <1>0, <1>a, <1>b DEF ManualOwns, Solid, LettersKept, Kept, HistoryKept
<1>c. 0 \notin DOMAIN attempts
  BY <1>0 DEF TInv, TypeOK, TablesTypeOK
<1>d. ASSUME manual[m].pc # "unsent", manual[m].pc # "create",
             manual'[m].attempt = manual[m].attempt, manual'[m].letter = manual[m].letter,
             manual'[m].pc \notin {"unsent", "create"}
      PROVE  (\A n \in ManualRetries : ManualOwns(n)') /\ RowsOfTheirOwn' /\ ManualsGoOn
  <2>1. ManualOwns(m)'
    BY <1>0, <1>d DEF ManualOwns, Solid, LettersKept, Kept, HistoryKept
  <2>2. RowsOfTheirOwn'
    BY <1>0, <1>a, <1>d DEF RowsOfTheirOwn
  <2>3. ManualsGoOn
    BY <1>0, <1>a, <1>d DEF ManualsGoOn
  <2> QED BY <1>b, <2>1, <2>2, <2>3
<1>1. CASE LoadLetter(m) \/ (ManualFails(m) /\ manual[m].pc = "create")
  <2>1. /\ manual[m].attempt = 0 /\ manual'[m].attempt = 0
        /\ UNCHANGED <<attempts, deadLetters>>
    BY <1>0, <1>1 DEF LoadLetter, ManualFails, ManualOwns, ManualType, tableVars
  <2>2. ManualOwns(m)' /\ RowsOfTheirOwn' /\ ManualsGoOn
    BY <1>0, <1>a, <2>1 DEF ManualOwns, RowsOfTheirOwn, ManualsGoOn
  <2>3. NoRedelivery
    BY <2>1, UntouchedRedeliversNothing
  <2> QED BY <1>b, <2>2, <2>3, NoneRedelivered DEF MInv
<1>2. CASE CreateManual(m)
  <2>1. PICK e \in Events, s \in Subs, n \in Nat :
            e = Letter(m).event /\ s = Letter(m).sub /\ n = ManualNumber(m)
    BY <1>0, <1>2, LetterTyped DEF CreateManual, ManualNumber
  <2>2. createPendingAttempt(e, s, n) /\ UNCHANGED deadLetters
    BY <1>2, <2>1 DEF CreateManual
  <2>3. PICK i : /\ i = NewAttempt /\ i \in Nat
                 /\ i \in DOMAIN attempts' /\ i \notin DOMAIN attempts
                 /\ attempts'[i].event = e /\ attempts'[i].sub = s
                 /\ attempts'[i].number = n
    <3>1. attempts \in Seq(AttemptType)
      BY <1>0 DEF TInv, TypeOK, TablesTypeOK
    <3>2. PICK i : i = NewAttempt
      OBVIOUS
    <3>3. /\ i \in Nat /\ i \in DOMAIN attempts' /\ i \notin DOMAIN attempts
          /\ attempts'[i] = [event |-> e, sub |-> s, number |-> n,
                             status |-> "pending", delay |-> NoDelay]
      BY <2>2, <3>1, <3>2, AttemptCreated
    <3> QED BY <3>2, <3>3
  <2>4. /\ manual[m].attempt = 0 /\ manual'[m].attempt = i
        /\ manual'[m].letter = manual[m].letter /\ manual'[m].pc = "deliver"
        /\ manual[m].letter \in DOMAIN deadLetters
    BY <1>0, <1>2, <2>3 DEF CreateManual, ManualOwns, ManualType, ManualOK
  <2>5. n = MAX_ATTEMPTS + 1
    BY <1>0, <2>1, <2>4, TotalIsLast DEF ManualNumber, Letter
  <2>6. ManualOwns(m)'
    BY <2>1, <2>2, <2>3, <2>4, <2>5 DEF ManualOwns, Letter
  <2>7. RowsOfTheirOwn' /\ ManualsGoOn
    BY <1>0, <1>a, <2>3, <2>4 DEF RowsOfTheirOwn, ManualsGoOn, ManualOwns
  <2>8. NoRedelivery
    BY <1>0, <2>2, CreateRedeliversNothing
  <2> QED BY <1>b, <2>6, <2>7, <2>8, NoneRedelivered DEF MInv
<1>3. CASE DeliverManual(m) \/ (ManualFails(m) /\ manual[m].pc # "create")
  <2>1. /\ manual[m].pc # "unsent" /\ manual[m].pc # "create"
        /\ manual'[m].attempt = manual[m].attempt
        /\ manual'[m].letter = manual[m].letter /\ manual'[m].pc \in {"resolve", "error"}
        /\ UNCHANGED <<attempts, deadLetters>>
    BY <1>0, <1>3 DEF DeliverManual, ManualFails, ManualType, tableVars
  <2> QED BY <1>d, <2>1, UntouchedRedeliversNothing, NoneRedelivered DEF MInv
<1>4. CASE RecordFailure(m)
  <2>1. /\ manual[m].pc = "resolve" /\ manual'[m].attempt = manual[m].attempt
        /\ manual'[m].letter = manual[m].letter /\ manual'[m].pc = "done"
        /\ UNCHANGED deadLetters /\ manual[m].attempt \in DOMAIN attempts
    BY <1>0, <1>4 DEF RecordFailure, ManualType, ManualOK
  <2>2. attempts' = [attempts EXCEPT ![manual[m].attempt].status = "failed",
                                     ![manual[m].attempt].delay = NoDelay]
    BY <1>4 DEF RecordFailure, resolveAttempt
  <2>3. NoRedelivery
    <3>1. NoDelay \in Nat /\ "failed" # "success"
      BY DEF NoDelay
    <3> QED BY <1>0, <2>1, <2>2, <3>1, ResultRedeliversNothing
  <2> QED BY <1>d, <2>1, <2>3, NoneRedelivered DEF MInv
<1>5. CASE ResolveLetter(m)
  <2>1. PICK a \in DOMAIN attempts, d \in DOMAIN deadLetters :
            /\ a = manual[m].attempt /\ d = manual[m].letter /\ a # 0
            /\ attempts[a].event = deadLetters[d].event
            /\ attempts[a].sub = deadLetters[d].sub
            /\ attempts[a].number = MAX_ATTEMPTS + 1
            /\ attempts' = [attempts EXCEPT ![a].status = "success", ![a].delay = NoDelay]
            /\ deadLetters' = [deadLetters EXCEPT ![d].resolved = TRUE]
    BY <1>0, <1>5, <1>c DEF ResolveLetter, ManualOwns, ManualOK, resolveAttempt
  <2>2. /\ manual[m].pc = "resolve" /\ manual'[m].attempt = manual[m].attempt
        /\ manual'[m].letter = manual[m].letter /\ manual'[m].pc = "done"
    BY <1>0, <1>5 DEF ResolveLetter, ManualType
  <2>3. (\A n \in ManualRetries : ManualOwns(n)') /\ RowsOfTheirOwn' /\ ManualsGoOn
    BY <1>d, <2>2
  <2>4. /\ DOMAIN attempts' = DOMAIN attempts
        /\ \A b \in DOMAIN attempts : b # a => attempts'[b] = attempts[b]
        /\ attempts'[a].status = "success" /\ attempts'[a].number = MAX_ATTEMPTS + 1
        /\ attempts'[a].event = attempts[a].event /\ attempts'[a].sub = attempts[a].sub
    <3>1. /\ DOMAIN attempts' = DOMAIN attempts
          /\ \A b \in DOMAIN attempts : b # a => attempts'[b] = attempts[b]
          /\ attempts'[a] = [attempts[a] EXCEPT !.status = "success", !.delay = NoDelay]
      <4>1. NoDelay \in Nat
        BY DEF NoDelay
      <4> QED BY <1>0, <2>1, <4>1, AttemptUpdated DEF TInv, TypeOK, TablesTypeOK
    <3>2. attempts[a] \in AttemptType
      BY <1>0, EntryTyped DEF TInv, TypeOK, TablesTypeOK
    <3> QED BY <2>1, <3>1, <3>2 DEF AttemptType
  <2>5. /\ DOMAIN deadLetters' = DOMAIN deadLetters
        /\ \A x \in DOMAIN deadLetters : x # d => deadLetters'[x] = deadLetters[x]
        /\ deadLetters'[d].event = deadLetters[d].event
        /\ deadLetters'[d].sub = deadLetters[d].sub
        /\ deadLetters'[d].total = MAX_ATTEMPTS
        /\ deadLetters'[d].resolved = TRUE
    BY <1>0, <2>1, LetterResolved, TotalIsLast DEF TInv, TypeOK, TablesTypeOK
  <2>6. Redelivers(m, d)'
    BY <2>1, <2>2, <2>4, <2>5 DEF Redelivers
  <2>7. ASSUME NEW n \in ManualRetries, n # m, NEW x \in DOMAIN deadLetters
        PROVE  Redelivers(n, x)' <=> Redelivers(n, x)
    <3>1. manual'[n] = manual[n] /\ manual[n].attempt # a
      BY <1>0, <1>a, <2>1, <2>7 DEF RowsOfTheirOwn
    <3>2. manual[n].attempt # 0 => attempts'[manual[n].attempt] = attempts[manual[n].attempt]
      BY <1>0, <2>4, <2>7, <3>1 DEF ManualOwns
    <3>3. /\ deadLetters'[x].event = deadLetters[x].event
          /\ deadLetters'[x].sub = deadLetters[x].sub
          /\ deadLetters'[x].total = deadLetters[x].total
      BY <2>7 DEF Solid, LettersKept
    <3> QED BY <3>1, <3>2, <3>3 DEF Redelivers
  <2>8. ASSUME NEW x \in DOMAIN deadLetters, x # d
        PROVE  ~Redelivers(m, x) /\ ~Redelivers(m, x)'
    BY <2>1, <2>2, <2>8 DEF Redelivers
  <2>9. ASSUME NEW x \in DOMAIN deadLetters'
        PROVE  deadLetters'[x].resolved <=> \E n \in ManualRetries : Redelivers(n, x)'
    <3>1. CASE x = d
      BY <2>5, <2>6, <3>1
    <3>2. CASE x # d
      <4>1. x \in DOMAIN deadLetters /\ deadLetters'[x] = deadLetters[x]
        BY <2>5, <2>9, <3>2
      <4> QED BY <1>0, <2>7, <2>8, <3>2, <4>1 DEF ResolvedWhenRedelivered
    <3> QED BY <3>1, <3>2
  <2>10. ASSUME NEW b \in DOMAIN attempts', attempts'[b].number > MAX_ATTEMPTS,
                attempts'[b].status = "success"
         PROVE  \E n \in ManualRetries, x \in DOMAIN deadLetters' :
                    manual'[n].attempt = b /\ Redelivers(n, x)'
    <3>1. CASE b = a
      BY <2>1, <2>2, <2>5, <2>6, <3>1
    <3>2. CASE b # a
      <4>1. b \in DOMAIN attempts /\ attempts'[b] = attempts[b]
        BY <2>4, <2>10, <3>2
      <4>2. PICK n \in ManualRetries, x \in DOMAIN deadLetters :
                manual[n].attempt = b /\ Redelivers(n, x)
        BY <1>0, <2>10, <4>1 DEF ResolvedWhenRedelivered
      <4>3. n # m
        BY <2>1, <3>2, <4>2
      <4>4. manual'[n].attempt = b
        BY <1>a, <4>2, <4>3
      <4> QED BY <2>5, <2>7, <4>2, <4>3, <4>4
    <3> QED BY <3>1, <3>2
  <2>11. ResolvedWhenRedelivered'
    BY <2>9, <2>10 DEF ResolvedWhenRedelivered
  <2> QED BY <2>3, <2>11 DEF MInv
<1> QED BY <1>1, <1>2, <1>3, <1>4, <1>5 DEF retryDeadLetter

LEMMA MInvStep == MInv /\ [Next]_vars => MInv'
<1> SUFFICES ASSUME MInv, [Next]_vars PROVE MInv'
  OBVIOUS
<1>1. CInv /\ CInv' /\ Solid
  BY CInvStep, StepSolid DEF MInv, CInv
<1>2. ASSUME NoRedelivery, UNCHANGED manual PROVE MInv'
  BY <1>1, <1>2, OwnsStays, NoneRedelivered DEF MInv
<1>3. CASE RedeliveryNext
  <2>1. ASSUME NEW r \in Replays, replaySubscription(r)
        PROVE  UNCHANGED <<attempts, deadLetters, manual>>
    BY <2>1
    DEF replaySubscription, ReadEvents, AddBulk, BulkUnanswered, ReplayFails, tableVars,
        requestVars
  <2> QED BY <1>1, <1>2, <1>3, <2>1, ManualRedelivers, UntouchedRedeliversNothing
          DEF RedeliveryNext
<1>4. CASE TablesNext \/ Produce \/ UNCHANGED vars
  <2>1. UNCHANGED <<attempts, deadLetters>>
    BY <1>4
    DEF TablesNext, createSubscription, updateSubscription, deleteSubscription, Produce,
        vars, tableVars
  <2>2. CASE UNCHANGED manual
    BY <1>2, <2>1, <2>2, UntouchedRedeliversNothing
  <2> QED BY <1>3, <1>4, <2>2 DEF Next, vars, requestVars
<1>5. CASE (ConsumersNext \/ RetryNext) /\ UNCHANGED requestVars
  <2>1. CASE Produce
    BY <1>4, <2>1
  <2>2. CASE ~Produce
    BY <1>1, <1>2, <1>5, <2>2, ConsumerRedeliversNothing, RetryRedeliversNothing
    DEF ConsumersNext, requestVars
  <2> QED BY <2>1, <2>2
<1> QED BY <1>3, <1>4, <1>5 DEF Next

LEMMA MInvInit == Init => MInv
<1> SUFFICES ASSUME Init PROVE MInv
  OBVIOUS
<1>1. CInv
  BY CInvInit
<1>2. /\ \A m \in ManualRetries : manual[m].attempt = 0
      /\ attempts = <<>> /\ deadLetters = <<>>
  BY DEF Init, TablesInit, RedeliveryInit
<1>3. DOMAIN attempts = {} /\ DOMAIN deadLetters = {}
  BY <1>2
<1> QED BY <1>1, <1>2, <1>3 DEF MInv, ManualOwns, RowsOfTheirOwn, ResolvedWhenRedelivered

\* A dead letter is resolved exactly when a manual retry of that letter has its
\* success on record; every success after the last attempt is such a one.
THEOREM LettersResolveOnSuccess == Spec => []ResolvedWhenRedelivered
<1>1. MInv => ResolvedWhenRedelivered
  BY DEF MInv
<1> QED BY <1>1, MInvInit, MInvStep, PTL DEF Spec

-----------------------------------------------------------------------------
(* Delivery implements the ledger.                                         *)

LEMMA NothingEntered ==
    /\ UNCHANGED attempts => UNCHANGED Entries
    /\ UNCHANGED deadLetters => UNCHANGED <<BuriedPairs, ResolvedPairs>>
  BY DEF Entries, EntryOf, PairOf, Finished, BuriedPairs, ResolvedPairs

\* A new row is no entry yet.
LEMMA CreateEntersNothing ==
    ASSUME TInv, NEW e \in Events, NEW s \in Subs, NEW n \in Nat,
           createPendingAttempt(e, s, n)
    PROVE  UNCHANGED Entries
<1>1. PICK i : /\ i \notin DOMAIN attempts
               /\ DOMAIN attempts' = DOMAIN attempts \cup {i}
               /\ \A a \in DOMAIN attempts : attempts'[a] = attempts[a]
               /\ attempts'[i].status = "pending"
  <2>1. /\ NewAttempt \notin DOMAIN attempts
        /\ DOMAIN attempts' = DOMAIN attempts \cup {NewAttempt}
        /\ \A a \in DOMAIN attempts : attempts'[a] = attempts[a]
        /\ attempts'[NewAttempt] = [event |-> e, sub |-> s, number |-> n,
                                    status |-> "pending", delay |-> NoDelay]
    BY AttemptCreated DEF TInv, TypeOK, TablesTypeOK
  <2> QED BY <2>1
<1>2. Finished' = Finished
  BY <1>1 DEF Finished
<1>3. \A a \in Finished : EntryOf(a)' = EntryOf(a)
  BY <1>1 DEF EntryOf, PairOf, Finished
<1> QED BY <1>2, <1>3 DEF Entries

\* The row of a pending attempt becomes one entry.
LEMMA ResultEntered ==
    ASSUME TInv, NEW a \in DOMAIN attempts, attempts[a].status = "pending",
           NEW status \in {"success", "failed", "dead_lettered"}, NEW delay \in Nat,
           attempts' = [attempts EXCEPT ![a].status = status, ![a].delay = delay]
    PROVE  /\ Entries' = Entries \cup {Ledger!Entry(PairOf(attempts[a]),
                                                    attempts[a].number, status)}
           /\ PairOf(attempts[a]) \in Events \X Subs
<1>1. /\ DOMAIN attempts' = DOMAIN attempts
      /\ \A b \in DOMAIN attempts : b # a => attempts'[b] = attempts[b]
      /\ attempts'[a] = [attempts[a] EXCEPT !.status = status, !.delay = delay]
      /\ attempts[a] \in AttemptType
  BY AttemptUpdated, EntryTyped DEF TInv, TypeOK, TablesTypeOK
<1>2. /\ attempts'[a].event = attempts[a].event /\ attempts'[a].sub = attempts[a].sub
      /\ attempts'[a].number = attempts[a].number /\ attempts'[a].status = status
  BY <1>1 DEF AttemptType
<1>3. Finished' = Finished \cup {a} /\ a \notin Finished
  BY <1>1, <1>2 DEF Finished
<1>4. \A b \in Finished : EntryOf(b)' = EntryOf(b)
  BY <1>1, <1>3 DEF EntryOf, PairOf, Finished
<1>5. EntryOf(a)' = Ledger!Entry(PairOf(attempts[a]), attempts[a].number, status)
  BY <1>2 DEF EntryOf, PairOf, Ledger!Entry
<1>6. PairOf(attempts[a]) \in Events \X Subs
  BY <1>1 DEF PairOf, AttemptType
<1> QED BY <1>3, <1>4, <1>5, <1>6 DEF Entries

\* An entry of a chain is due: the one before it failed and is in the ledger.
LEMMA ChainIsDue ==
    ASSUME NEW a \in DOMAIN attempts, RowOK(attempts[a]),
           attempts[a].number \in 1..MAX_ATTEMPTS
    PROVE  Ledger!Due(PairOf(attempts[a]), attempts[a].number)
<1>0. MAX_ATTEMPTS \in Nat
  BY ScheduleAssumption
<1>1. CASE attempts[a].number = 1
  BY <1>1 DEF Ledger!Due
<1>2. CASE attempts[a].number # 1
  <2>1. /\ attempts[a].number \in 2..MAX_ATTEMPTS
        /\ Announced(attempts[a].event, attempts[a].sub, attempts[a].number - 1)
    BY <1>0, <1>2 DEF RowOK, Chain
  <2>2. PICK b \in DOMAIN attempts : /\ attempts[b].event = attempts[a].event
                                     /\ attempts[b].sub = attempts[a].sub
                                     /\ attempts[b].number = attempts[a].number - 1
                                     /\ attempts[b].status = "failed"
    BY <2>1 DEF Announced
  <2>3. b \in Finished
    BY <2>2 DEF Finished
  <2>4. EntryOf(b) = Ledger!Entry(PairOf(attempts[a]), attempts[a].number - 1, "failed")
    BY <2>2 DEF EntryOf, PairOf, Ledger!Entry
  <2>5. Ledger!Entry(PairOf(attempts[a]), attempts[a].number - 1, "failed") \in Entries
    BY <2>3, <2>4 DEF Entries
  <2> QED BY <2>1, <2>5 DEF Ledger!Due
<1> QED BY <1>1, <1>2

\* The result of an attempt of the chain is a Record of the ledger.
LEMMA RecordRefines ==
    ASSUME CInv, NEW a \in DOMAIN attempts, attempts[a].status = "pending",
           attempts[a].number \in 1..MAX_ATTEMPTS,
           NEW status \in {"success", "failed", "dead_lettered"}, NEW delay \in Nat,
           attempts' = [attempts EXCEPT ![a].status = status, ![a].delay = delay],
           status = "failed" => attempts[a].number # MAX_ATTEMPTS,
           status = "dead_lettered" => attempts[a].number = MAX_ATTEMPTS,
           UNCHANGED deadLetters
    PROVE  Ledger!Next
<1> DEFINE p == PairOf(attempts[a])
           n == attempts[a].number
<1>1. Entries' = Entries \cup {Ledger!Entry(p, n, status)} /\ p \in Events \X Subs
  BY ResultEntered DEF CInv, HInv
<1>2. Ledger!Due(p, n)
  BY ChainIsDue DEF CInv, Justified
<1>3. status \in Ledger!Results(n)
  BY DEF Ledger!Results
<1>4. UNCHANGED <<BuriedPairs, ResolvedPairs>>
  BY NothingEntered
<1> HIDE DEF p, n
<1>5. Ledger!Record(p)
  BY <1>1, <1>2, <1>3, <1>4 DEF Ledger!Record, n
<1> QED BY <1>1, <1>5 DEF Ledger!Next

LEMMA StutterRefines ==
    ASSUME UNCHANGED Entries, UNCHANGED deadLetters
    PROVE  UNCHANGED Ledger!ledgerVars
  BY NothingEntered DEF Ledger!ledgerVars

LEMMA ConsumerRefines ==
    ASSUME CInv, NEW c \in Consumers, ConsumerStep(c) \/ ConsumerFault(c)
    PROVE  [Ledger!Next]_(Ledger!ledgerVars)
<1>0. /\ TInv /\ ConOK(con[c]) /\ ConAgrees(con[c]) /\ UNCHANGED deadLetters
  BY ConTyped
  DEF CInv, HInv, Agreement, ConsumerStep, ConsumerFault, Join, Fetch, LoadSubscriptions,
      CreateFirst, CreateRefused, Deliver, ResolveFirst, IndexFirst, ScheduleRetry,
      ScheduleUnanswered, CommitOffset, Fenced, Throw, CommitThrows, Crash, Evict,
      tableVars
<1>1. CASE CreateFirst(c)
  <2>1. PICK s \in con[c].todo : createPendingAttempt(Event(c), s, 1)
    BY <1>1 DEF CreateFirst
  <2>2. PICK e \in Events, t \in Subs : e = Event(c) /\ t = s
    BY <1>0, <1>1
    DEF CreateFirst, At, ConOK, ConsumerType, Event, TInv, TypeOK, ConsumersTypeOK
  <2> QED BY <1>0, <2>1, <2>2, CreateEntersNothing, StutterRefines
<1>2. CASE ResolveFirst(c)
  <2>1. /\ Attempt(c) \in DOMAIN attempts /\ attempts[Attempt(c)].status = "pending"
        /\ attempts[Attempt(c)].number = 1
    BY <1>0, <1>2
    DEF ResolveFirst, At, ConOK, ConAgrees, InHand, Attempt, CInv, HInv, HeldPending, Holds
  <2>2. PICK a \in DOMAIN attempts, status \in {"success", "failed"}, delay \in Nat :
            /\ a = Attempt(c)
            /\ attempts' = [attempts EXCEPT ![a].status = status, ![a].delay = delay]
    BY <1>2, <2>1, DelayType DEF ResolveFirst, resolveAttempt, FirstDelay, NoDelay
  <2>3. 1 \in 1..MAX_ATTEMPTS /\ 1 # MAX_ATTEMPTS
    BY ScheduleAssumption
  <2>4. /\ attempts[a].status = "pending" /\ attempts[a].number \in 1..MAX_ATTEMPTS
        /\ attempts[a].number # MAX_ATTEMPTS
    BY <2>1, <2>2, <2>3
  <2>5. attempts' = [attempts EXCEPT ![a].status = status, ![a].delay = delay]
    BY <2>2
  <2> QED BY <1>0, <2>4, <2>5, RecordRefines
<1>3. CASE ~(CreateFirst(c) \/ ResolveFirst(c))
  <2>1. UNCHANGED attempts
    BY <1>3
    DEF ConsumerStep, ConsumerFault, Join, Fetch, LoadSubscriptions, CreateRefused,
        Deliver, IndexFirst, ScheduleRetry, ScheduleUnanswered, CommitOffset, Fenced,
        Throw, CommitThrows, Crash, Evict, tableVars
  <2> QED BY <1>0, <2>1, NothingEntered, StutterRefines
<1> QED BY <1>1, <1>2, <1>3

LEMMA BuryRefines ==
    ASSUME CInv, NEW k \in Slots, Bury(k)
    PROVE  Ledger!Next
<1>0. TInv /\ SlotAgrees(slot[k]) /\ UNCHANGED attempts
  BY DEF CInv, HInv, Agreement, Bury
<1>1. PICK a \in DOMAIN attempts : /\ attempts[a].event = JobOf(k).event
                                   /\ attempts[a].sub = JobOf(k).sub
                                   /\ attempts[a].number = JobOf(k).number
                                   /\ attempts[a].status = "dead_lettered"
  BY <1>0 DEF Bury, SlotAt, SlotAgrees, HasRow, JobOf
<1>2. attempts[a].number = MAX_ATTEMPTS
  BY <1>1 DEF CInv, Justified, RowOK
<1>3. PICK e \in Events, s \in Subs, n \in Nat :
          e = JobOf(k).event /\ s = JobOf(k).sub /\ n = JobOf(k).number
  BY <1>0, SlotTyped DEF Bury, SlotAt
<1>4. PICK i : /\ DOMAIN deadLetters' = DOMAIN deadLetters \cup {i}
               /\ i \notin DOMAIN deadLetters
               /\ \A d \in DOMAIN deadLetters : deadLetters'[d] = deadLetters[d]
               /\ deadLetters'[i]
                    = [event |-> e, sub |-> s, total |-> n, resolved |-> FALSE]
  <2>1. createDeadLetter(e, s, n) /\ deadLetters \in Seq(DeadLetterType)
    BY <1>0, <1>3 DEF Bury, TInv, TypeOK, TablesTypeOK
  <2>2. Len(deadLetters) + 1 \notin DOMAIN deadLetters
    BY <2>1
  <2> QED BY <2>1, <2>2, LetterAdded
<1>5. BuriedPairs' = BuriedPairs \cup {<<e, s>>}
  BY <1>4 DEF BuriedPairs, PairOf
<1>6. ResolvedPairs' = ResolvedPairs
  BY <1>4 DEF ResolvedPairs, PairOf
<1>7. Ledger!Entry(<<e, s>>, MAX_ATTEMPTS, "dead_lettered") \in Entries
  <2>1. a \in Finished
    BY <1>1 DEF Finished
  <2>2. EntryOf(a) = Ledger!Entry(<<e, s>>, MAX_ATTEMPTS, "dead_lettered")
    BY <1>1, <1>2, <1>3 DEF EntryOf, PairOf, Ledger!Entry
  <2> QED BY <2>1, <2>2 DEF Entries
<1>8. UNCHANGED Entries
  BY <1>0, NothingEntered
<1>9. Ledger!Bury(<<e, s>>)
  BY <1>5, <1>6, <1>7, <1>8 DEF Ledger!Bury
<1> QED BY <1>9 DEF Ledger!Next

LEMMA RetryRefines ==
    ASSUME CInv, RetryNext
    PROVE  [Ledger!Next]_(Ledger!ledgerVars)
<1>0. TInv
  BY DEF CInv, HInv
<1>1. ASSUME NEW k \in Slots, CreateNext(k) PROVE UNCHANGED Ledger!ledgerVars
  <2>1. PICK e \in Events, s \in Subs, n \in Nat :
            e = JobOf(k).event /\ s = JobOf(k).sub /\ n = JobOf(k).number
    BY <1>0, <1>1, SlotTyped DEF CreateNext, SlotAt
  <2>2. createPendingAttempt(e, s, n) /\ UNCHANGED deadLetters
    BY <1>1, <2>1 DEF CreateNext
  <2> QED BY <1>0, <2>2, CreateEntersNothing, StutterRefines
<1>2. ASSUME NEW k \in Slots, ResolveNext(k) PROVE Ledger!Next
  <2>0. /\ SlotOK(slot[k]) /\ SlotAgrees(slot[k]) /\ Justified /\ slot[k].pc = "resolve"
        /\ UNCHANGED deadLetters
    BY <1>0, <1>2, SlotTyped DEF CInv, Agreement, ResolveNext, SlotAt
  <2>1. /\ slot[k].attempt \in DOMAIN attempts
        /\ attempts[slot[k].attempt].status = "pending"
        /\ attempts[slot[k].attempt].number = JobOf(k).number
    BY <2>0 DEF SlotAgrees, HasRow, JobOf, CInv, HInv, HeldPending, SlotHolds
  <2>2. PICK a \in DOMAIN attempts, status \in {"success", "failed", "dead_lettered"},
             delay \in Nat :
            /\ a = slot[k].attempt /\ status = StatusOf(k)
            /\ attempts' = [attempts EXCEPT ![a].status = status, ![a].delay = delay]
    <3>1. NoDelay \in Nat /\ computeRetryDelay(JobOf(k).number) \in Nat
      BY DelayType DEF NoDelay
    <3> QED BY <1>2, <2>1, <3>1 DEF ResolveNext, resolveAttempt, deadLetterAttempt, StatusOf
  <2>3. JobOf(k).number \in 1..MAX_ATTEMPTS /\ MAX_ATTEMPTS \in Nat
    BY <2>0, ScheduleAssumption DEF SlotOK, Justified, JobOf, JobOK
  <2>4. /\ attempts[a].status = "pending" /\ attempts[a].number \in 1..MAX_ATTEMPTS
        /\ status = "failed" => attempts[a].number # MAX_ATTEMPTS
        /\ status = "dead_lettered" => attempts[a].number = MAX_ATTEMPTS
    BY <2>1, <2>2, <2>3 DEF StatusOf, Last, isLastAttempt
  <2>5. attempts' = [attempts EXCEPT ![a].status = status, ![a].delay = delay]
    BY <2>2
  <2> QED BY <2>0, <2>4, <2>5, RecordRefines
<1>3. ASSUME UNCHANGED <<attempts, deadLetters>> PROVE UNCHANGED Ledger!ledgerVars
  BY <1>3, NothingEntered, StutterRefines
<1> QED BY <1>1, <1>2, <1>3, BuryRefines
        DEF RetryNext, SlotStep, Take, Load, NextRefused, Redeliver, IndexNext, IndexUnbound,
            JobFails, RetryAgain, AgainUnanswered, Complete, RetryThrow, LoseLock,
            RetryCrash, Stalled, tableVars

LEMMA ManualRefines ==
    ASSUME CInv, NEW m \in ManualRetries, retryDeadLetter(m)
    PROVE  [Ledger!Next]_(Ledger!ledgerVars)
<1>0. /\ TInv /\ Justified /\ ManualOK(manual[m]) /\ ManualAgrees(manual[m])
  BY LetterTyped DEF CInv, HInv, Agreement
<1>1. CASE LoadLetter(m) \/ DeliverManual(m) \/ ManualFails(m)
  BY <1>1, NothingEntered, StutterRefines DEF LoadLetter, DeliverManual, ManualFails, tableVars
<1>2. CASE CreateManual(m)
  <2>1. PICK e \in Events, s \in Subs, n \in Nat :
            e = Letter(m).event /\ s = Letter(m).sub /\ n = ManualNumber(m)
    BY <1>0, <1>2, LetterTyped DEF CreateManual, ManualNumber
  <2>2. createPendingAttempt(e, s, n) /\ UNCHANGED deadLetters
    BY <1>2, <2>1 DEF CreateManual
  <2> QED BY <1>0, <2>2, CreateEntersNothing, StutterRefines
<1>3. CASE ResolveLetter(m) \/ RecordFailure(m)
  <2>1. /\ manual[m].attempt \in DOMAIN attempts /\ manual[m].letter \in DOMAIN deadLetters
        /\ attempts[manual[m].attempt].status = "pending"
        /\ attempts[manual[m].attempt].event = Letter(m).event
        /\ attempts[manual[m].attempt].sub = Letter(m).sub
        /\ attempts[manual[m].attempt].number = MAX_ATTEMPTS + 1
    BY <1>0, <1>3
    DEF ResolveLetter, RecordFailure, ManualOK, ManualAgrees, Letter, CInv, HInv,
        HeldPending, ManualHolds
  <2>2. PICK a \in DOMAIN attempts, d \in DOMAIN deadLetters,
             status \in {"success", "failed"}, delay \in Nat :
            /\ a = manual[m].attempt /\ d = manual[m].letter
            /\ status = IF manual[m].success THEN "success" ELSE "failed"
            /\ attempts' = [attempts EXCEPT ![a].status = status, ![a].delay = delay]
    BY <1>3, <2>1 DEF ResolveLetter, RecordFailure, resolveAttempt, NoDelay
  <2>3. PICK p : p = PairOf(attempts[a])
    OBVIOUS
  <2>4. p = PairOf(deadLetters[d])
    BY <2>1, <2>2, <2>3 DEF PairOf, Letter
  <2>5. /\ Entries' = Entries \cup {Ledger!Entry(p, MAX_ATTEMPTS + 1, status)}
        /\ p \in Events \X Subs
    <3>1. attempts[a].status = "pending" /\ attempts[a].number = MAX_ATTEMPTS + 1
      BY <2>1, <2>2
    <3>2. attempts' = [attempts EXCEPT ![a].status = status, ![a].delay = delay]
      BY <2>2
    <3> QED BY <1>0, <2>3, <3>1, <3>2, ResultEntered
  <2>6. p \in BuriedPairs
    BY <2>4 DEF BuriedPairs
  <2>7. CASE RecordFailure(m)
    <3>1. status = "failed" /\ UNCHANGED deadLetters
      BY <2>2, <2>7 DEF RecordFailure
    <3>2. Ledger!RetryInVain(p)
      BY <2>5, <2>6, <3>1, NothingEntered DEF Ledger!RetryInVain
    <3> QED BY <2>5, <3>2 DEF Ledger!Next
  <2>8. CASE ResolveLetter(m)
    <3>1. /\ status = "success"
          /\ deadLetters' = [deadLetters EXCEPT ![d].resolved = TRUE]
      BY <2>2, <2>8 DEF ResolveLetter
    <3>2. /\ DOMAIN deadLetters' = DOMAIN deadLetters
          /\ \A x \in DOMAIN deadLetters : x # d => deadLetters'[x] = deadLetters[x]
          /\ deadLetters'[d].event = deadLetters[d].event
          /\ deadLetters'[d].sub = deadLetters[d].sub
          /\ deadLetters'[d].resolved = TRUE
      BY <1>0, <3>1, LetterResolved DEF TInv, TypeOK, TablesTypeOK
    <3>3. \A x \in DOMAIN deadLetters : PairOf(deadLetters'[x]) = PairOf(deadLetters[x])
      BY <3>2 DEF PairOf
    <3>4. BuriedPairs' = BuriedPairs
      BY <3>2, <3>3 DEF BuriedPairs, PairOf
    <3>5. ResolvedPairs' = ResolvedPairs \cup {p}
      BY <2>4, <3>2, <3>3 DEF ResolvedPairs, PairOf
    <3>6. Ledger!Resolve(p)
      BY <2>5, <2>6, <3>1, <3>4, <3>5 DEF Ledger!Resolve
    <3> QED BY <2>5, <3>6 DEF Ledger!Next
  <2> QED BY <1>3, <2>7, <2>8
<1> QED BY <1>1, <1>2, <1>3 DEF retryDeadLetter

\* Through crashes, stalled jobs, redeliveries, replays and overlapping manual
\* retries, the tables are at all times a ledger that was kept by its rules.
THEOREM DeliveryImplementsLedger == Spec => ImplementsLedger
<1>1. Init => Ledger!Init
  <2> SUFFICES ASSUME Init PROVE Ledger!Init
    OBVIOUS
  <2>1. attempts = <<>> /\ deadLetters = <<>>
    BY DEF Init, TablesInit
  <2>2. DOMAIN attempts = {} /\ DOMAIN deadLetters = {}
    BY <2>1
  <2> QED BY <2>2 DEF Ledger!Init, Entries, Finished, BuriedPairs, ResolvedPairs
<1>2. CInv /\ [Next]_vars => [Ledger!Next]_(Ledger!ledgerVars)
  <2> SUFFICES ASSUME CInv, [Next]_vars PROVE [Ledger!Next]_(Ledger!ledgerVars)
    OBVIOUS
  <2>1. ASSUME UNCHANGED <<attempts, deadLetters>> PROVE UNCHANGED Ledger!ledgerVars
    BY <2>1, NothingEntered, StutterRefines
  <2>2. CASE UNCHANGED vars \/ TablesNext \/ Produce
    BY <2>1, <2>2
    DEF vars, tableVars, TablesNext, createSubscription, updateSubscription,
        deleteSubscription, Produce
  <2>3. CASE RedeliveryNext
    BY <2>1, <2>3, ManualRefines
    DEF RedeliveryNext, replaySubscription, ReadEvents, AddBulk, BulkUnanswered,
        ReplayFails, tableVars
  <2> QED BY <2>2, <2>3, ConsumerRefines, RetryRefines DEF Next, ConsumersNext
<1> QED
  BY <1>1, <1>2, RecordsAreJustified, PTL DEF Spec, ImplementsLedger, Ledger!Spec
=============================================================================
