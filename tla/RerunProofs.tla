---------------------------- MODULE RerunProofs -----------------------------
(***************************************************************************)
(* How often an event is sent again, and that nothing is left behind, for  *)
(* any number of events, subscriptions, workers, slots, replays, manual    *)
(* retries and failures and any schedule: every attempt and every job is   *)
(* paid for by one cause of its own, a job by an add that was sent again   *)
(* if by nothing else, and each attempt that nobody works on and that      *)
(* lacks a consequence is charged to a failure, unless the build is the    *)
(* one the tests run.                                                      *)
(*                                                                         *)
(* The argument is one of counting.  To each thing that is made belongs a  *)
(* cause that is used up by making it, and no step gives a cause back: a   *)
(* run of a job is spent by its row, a row that leaves the hands of its    *)
(* worker by the job that follows it, a request by what it adds, a copy of *)
(* a message, a failure or a deletion by one pass of the fan-out.  Where   *)
(* the promise is that something still comes, the jobs of a pair are       *)
(* ordered by their numbers: one that is over has a later one after it.    *)
(***************************************************************************)
EXTENDS LedgerProofs, FiniteSetTheorems

-----------------------------------------------------------------------------
(* Counting.                                                               *)

LEMMA FewerOf ==
    ASSUME NEW S, IsFiniteSet(S), NEW T, T \subseteq S
    PROVE  /\ IsFiniteSet(T)
           /\ Cardinality(S) \in Nat /\ Cardinality(T) \in Nat
           /\ Cardinality(T) <= Cardinality(S)
<1>1. IsFiniteSet(T) /\ Cardinality(T) <= Cardinality(S)
  BY FS_Subset
<1> QED BY <1>1, FS_CardinalityType

LEMMA OneMore ==
    ASSUME NEW S, IsFiniteSet(S), NEW T, NEW x, T \subseteq S \cup {x}
    PROVE  /\ IsFiniteSet(T)
           /\ Cardinality(S) \in Nat /\ Cardinality(T) \in Nat
           /\ Cardinality(T) <= Cardinality(S) + 1
<1>1. /\ IsFiniteSet(S \cup {x})
      /\ Cardinality(S \cup {x}) = IF x \in S THEN Cardinality(S) ELSE Cardinality(S) + 1
  BY FS_AddElement
<1>2. Cardinality(S) \in Nat
  BY FS_CardinalityType
<1> QED BY <1>1, <1>2, FewerOf

LEMMA OneLess ==
    ASSUME NEW S, IsFiniteSet(S), NEW T, NEW x \in S, T \subseteq S \ {x}
    PROVE  /\ IsFiniteSet(T)
           /\ Cardinality(S) \in Nat /\ Cardinality(T) \in Nat
           /\ Cardinality(T) + 1 <= Cardinality(S)
<1>1. /\ IsFiniteSet(S \ {x})
      /\ Cardinality(S \ {x}) = Cardinality(S) - 1
  BY FS_RemoveElement
<1>2. Cardinality(S) \in Nat
  BY FS_CardinalityType
<1> QED BY <1>1, <1>2, FewerOf

\* The things made stay as few as their causes when a step makes none, or one
\* that uses up a cause of its own.
LEMMA PaidStep ==
    ASSUME NEW Made, IsFiniteSet(Made), NEW Used, Cardinality(Made) <= Cardinality(Used),
           NEW Made1, NEW Used1, IsFiniteSet(Used1), Used \subseteq Used1,
           \/ Made1 \subseteq Made
           \/ \E x, y : Made1 \subseteq Made \cup {x} /\ y \in Used1 \ Used
    PROVE  Cardinality(Made1) <= Cardinality(Used1)
<1>1. Cardinality(Used) \in Nat /\ Cardinality(Used1) \in Nat
      /\ Cardinality(Used) <= Cardinality(Used1)
  BY FewerOf
<1>2. CASE Made1 \subseteq Made
  <2>1. /\ Cardinality(Made) \in Nat /\ Cardinality(Made1) \in Nat
        /\ Cardinality(Made1) <= Cardinality(Made)
    BY <1>2, FewerOf
  <2> QED BY <1>1, <2>1
<1>3. CASE \E x, y : Made1 \subseteq Made \cup {x} /\ y \in Used1 \ Used
  <2>1. PICK x, y : Made1 \subseteq Made \cup {x} /\ y \in Used1 \ Used
    BY <1>3
  <2>2. /\ Cardinality(Made) \in Nat /\ Cardinality(Made1) \in Nat
        /\ Cardinality(Made1) <= Cardinality(Made) + 1
    BY <2>1, OneMore
  <2>3. Cardinality(Used) + 1 <= Cardinality(Used1)
    <3>1. Used \subseteq Used1 \ {y} /\ y \in Used1
      BY <2>1
    <3> QED BY <3>1, OneLess
  <2> QED BY <1>1, <2>2, <2>3
<1> QED BY <1>2, <1>3

LEMMA PaidOnce ==
    ASSUME NEW made \in Nat, NEW made1 \in Nat, NEW Used, NEW Used1, IsFiniteSet(Used1),
           Used \subseteq Used1, made <= Cardinality(Used),
           \/ made1 <= made
           \/ made1 <= made + 1 /\ \E y : y \in Used1 \ Used
    PROVE  made1 <= Cardinality(Used1)
<1>1. Cardinality(Used) \in Nat /\ Cardinality(Used1) \in Nat
      /\ Cardinality(Used) <= Cardinality(Used1)
  BY FewerOf
<1>2. (\E y : y \in Used1 \ Used) => Cardinality(Used) + 1 <= Cardinality(Used1)
  BY OneLess
<1> QED BY <1>1, <1>2

\* What is counted is finite.
LEMMA TablesFinite ==
    ASSUME TInv
    PROVE  /\ IsFiniteSet(DOMAIN attempts)
           /\ IsFiniteSet(DOMAIN jobs)
           /\ IsFiniteSet(DOMAIN log)
           /\ \A e, s, n : /\ IsFiniteSet(AttemptsOf(e, s, n))
                           /\ IsFiniteSet(JobsOf(e, s, n))
                           /\ IsFiniteSet(RunsOf(e, s, n))
<1>1. /\ DOMAIN attempts = 1..Len(attempts) /\ Len(attempts) \in Nat
      /\ DOMAIN jobs = 1..Len(jobs) /\ Len(jobs) \in Nat
      /\ DOMAIN log = 1..Len(log) /\ Len(log) \in Nat
  BY DEF TInv, TypeOK, TablesTypeOK, ConsumersTypeOK
<1>2. /\ IsFiniteSet(DOMAIN attempts)
      /\ IsFiniteSet(DOMAIN jobs)
      /\ IsFiniteSet(DOMAIN log)
  BY <1>1, FS_Interval
<1>3. IsFiniteSet({0, 1})
  <2>1. IsFiniteSet({0}) /\ IsFiniteSet({1})
    BY FS_Singleton, Zenon
  <2>2. IsFiniteSet({0} \cup {1})
    BY <2>1, FS_Union, Zenon
  <2>3. {0} \cup {1} = {0, 1}
    OBVIOUS
  <2> QED BY <2>2, <2>3, Zenon
<1>4. IsFiniteSet((DOMAIN jobs) \X {0, 1})
  BY <1>2, <1>3, FS_Product
<1>5. ASSUME NEW e, NEW s, NEW n
      PROVE  /\ IsFiniteSet(AttemptsOf(e, s, n))
             /\ IsFiniteSet(JobsOf(e, s, n))
             /\ IsFiniteSet(RunsOf(e, s, n))
  <2>1. /\ AttemptsOf(e, s, n) \subseteq DOMAIN attempts
        /\ JobsOf(e, s, n) \subseteq DOMAIN jobs
        /\ RunsOf(e, s, n) \subseteq (DOMAIN jobs) \X {0, 1}
    BY DEF AttemptsOf, JobsOf, RunsOf
  <2> QED BY <1>2, <1>4, <2>1, FewerOf
<1> QED BY <1>2, <1>5

-----------------------------------------------------------------------------
(* What a step does to the rows, the jobs and the hands that hold them.    *)

\* The steps that add a row.
CreatesRow == \/ \E c \in Consumers : CreateFirst(c)
              \/ \E k \in Slots : CreateNext(k)
              \/ \E m \in ManualRetries : CreateManual(m)

\* The steps that add a job; or add it without an answer.
AddsUnanswered == \/ \E c \in Consumers : ScheduleUnanswered(c)
                  \/ \E k \in Slots : AgainUnanswered(k)
                  \/ \E r \in Replays : BulkUnanswered(r)

AddsJob == \/ \E c \in Consumers : ScheduleRetry(c)
           \/ \E k \in Slots : RetryAgain(k)
           \/ \E r \in Replays : AddBulk(r)
           \/ AddsUnanswered

LEMMA SameRows ==
    ASSUME [Next]_vars, ~CreatesRow
    PROVE  DOMAIN attempts' = DOMAIN attempts
<1>1. ASSUME NEW a, NEW ok, NEW delay, resolveAttempt(a, ok, delay) \/ deadLetterAttempt(a)
      PROVE  DOMAIN attempts' = DOMAIN attempts
  BY <1>1 DEF resolveAttempt, deadLetterAttempt
<1>2. CASE TablesNext \/ UNCHANGED vars
  BY <1>2
  DEF TablesNext, createSubscription, updateSubscription, deleteSubscription, vars, tableVars
<1>3. CASE ConsumersNext
  BY <1>1, <1>3
  DEF ConsumersNext, ConsumerStep, ConsumerFault, Produce, Join, Fetch, LoadSubscriptions,
      CreateRefused, Deliver, ResolveFirst, IndexFirst, ScheduleRetry, CommitOffset, Fenced,
      ScheduleUnanswered, Throw, CommitThrows, Crash, Evict, tableVars, CreatesRow
<1>4. CASE RetryNext
  BY <1>1, <1>4
  DEF RetryNext, SlotStep, Take, Load, NextRefused, Redeliver, ResolveNext, IndexNext,
      IndexUnbound, JobFails, Bury, RetryAgain, AgainUnanswered, Complete, RetryThrow,
      LoseLock, RetryCrash, Stalled, tableVars, CreatesRow
<1>5. CASE RedeliveryNext
  BY <1>1, <1>5
  DEF RedeliveryNext, replaySubscription, ReadEvents, AddBulk, BulkUnanswered, ReplayFails,
      retryDeadLetter, LoadLetter, DeliverManual, ResolveLetter, RecordFailure, ManualFails,
      tableVars, CreatesRow
<1> QED BY <1>2, <1>3, <1>4, <1>5 DEF Next

LEMMA SameJobs ==
    ASSUME [Next]_vars, ~AddsJob
    PROVE  DOMAIN jobs' = DOMAIN jobs
<1>1. ASSUME NEW k, NEW state, FinishJob(k, state)
      PROVE  DOMAIN jobs' = DOMAIN jobs
  BY <1>1 DEF FinishJob, MoveJob
<1>2. CASE TablesNext \/ UNCHANGED vars
  BY <1>2
  DEF TablesNext, createSubscription, updateSubscription, deleteSubscription, vars, tableVars
<1>3. CASE ConsumersNext
  BY <1>3
  DEF ConsumersNext, ConsumerStep, ConsumerFault, Produce, Join, Fetch, LoadSubscriptions,
      CreateFirst, CreateRefused, Deliver, ResolveFirst, IndexFirst, CommitOffset, Fenced,
      Throw, CommitThrows, Crash, Evict, tableVars, AddsJob, AddsUnanswered
<1>4. CASE RetryNext
  <2>1. CASE Stalled
    BY <2>1 DEF Stalled
  <2>2. ASSUME NEW k \in Slots, Take(k) PROVE DOMAIN jobs' = DOMAIN jobs
    BY <2>2 DEF Take, MoveJob
  <2> QED BY <1>1, <1>4, <2>1, <2>2
          DEF RetryNext, SlotStep, Load, CreateNext, NextRefused, Redeliver,
              ResolveNext, IndexNext, IndexUnbound, JobFails, Bury, Complete, RetryThrow,
              LoseLock, RetryCrash, tableVars, AddsJob, AddsUnanswered
<1>5. CASE RedeliveryNext
  BY <1>5
  DEF RedeliveryNext, replaySubscription, ReadEvents, ReplayFails, retryDeadLetter,
      LoadLetter, CreateManual, DeliverManual, ResolveLetter, RecordFailure, ManualFails,
      tableVars, AddsJob, AddsUnanswered
<1> QED BY <1>2, <1>3, <1>4, <1>5 DEF Next

\* A row, once made, is counted for ever, and only for the pair it was made for.
LEMMA RowsCounted ==
    ASSUME HistoryKept, NEW e, NEW s, NEW n
    PROVE  /\ AttemptsOf(e, s, n) \subseteq AttemptsOf(e, s, n)'
           /\ DOMAIN attempts' = DOMAIN attempts => AttemptsOf(e, s, n)' = AttemptsOf(e, s, n)
  BY DEF HistoryKept, AttemptsOf

\* The jobs whose add was answered.
AnsweredOf(e, s, n) == JobsOf(e, s, n) \ Unanswered

AnswersKept == \A j \in DOMAIN jobs : jobs'[j].answered = jobs[j].answered

LEMMA JobsCounted ==
    ASSUME JobsKept, AnswersKept, NEW e, NEW s, NEW n
    PROVE  /\ AnsweredOf(e, s, n) \subseteq AnsweredOf(e, s, n)'
           /\ DOMAIN jobs' = DOMAIN jobs => AnsweredOf(e, s, n)' = AnsweredOf(e, s, n)
  BY DEF JobsKept, AnswersKept, AnsweredOf, JobsOf, Unanswered

\* A job is counted with the answered ones, or with those sent again.
LEMMA JobsSplit ==
    ASSUME TInv, NEW e, NEW s, NEW n
    PROVE  /\ Cardinality(AnsweredOf(e, s, n)) \in Nat
           /\ Cardinality(ResentOf(e, s, n)) \in Nat
           /\ Cardinality(JobsOf(e, s, n))
                = Cardinality(AnsweredOf(e, s, n)) + Cardinality(ResentOf(e, s, n))
<1> DEFINE A == AnsweredOf(e, s, n)
           R == ResentOf(e, s, n)
<1>1. JobsOf(e, s, n) = A \cup R /\ A \cap R = {} /\ A \subseteq JobsOf(e, s, n)
      /\ R \subseteq JobsOf(e, s, n)
  BY DEF AnsweredOf, ResentOf
<1>2. IsFiniteSet(A) /\ IsFiniteSet(R)
  BY <1>1, TablesFinite, FewerOf
<1> HIDE DEF A, R
<1>3. Cardinality(A \cup R) = Cardinality(A) + Cardinality(R) - Cardinality(A \cap R)
  BY <1>2, FS_Union
<1>4. Cardinality(A \cap R) = 0
  BY <1>1, FS_EmptySet
<1>5. Cardinality(A) \in Nat /\ Cardinality(R) \in Nat
  BY <1>2, FS_CardinalityType
<1> QED BY <1>1, <1>3, <1>4, <1>5 DEF A, R

\* The row a step adds belongs to one pair and number.
LEMMA RowCounted ==
    ASSUME TInv, NEW f \in Events, NEW t \in Subs, NEW m \in Nat,
           createPendingAttempt(f, t, m)
    PROVE  /\ AttemptsOf(f, t, m)' = AttemptsOf(f, t, m) \cup {NewAttempt}
           /\ \A e, s, n : ~(e = f /\ s = t /\ n = m)
                => AttemptsOf(e, s, n)' = AttemptsOf(e, s, n)
<1>1. /\ NewAttempt \notin DOMAIN attempts
      /\ DOMAIN attempts' = DOMAIN attempts \cup {NewAttempt}
      /\ \A a \in DOMAIN attempts : attempts'[a] = attempts[a]
  BY AttemptCreated DEF TInv, TypeOK, TablesTypeOK
<1>2. /\ attempts'[NewAttempt].event = f
      /\ attempts'[NewAttempt].sub = t
      /\ attempts'[NewAttempt].number = m
  BY CreatedIsNew
<1> QED BY <1>1, <1>2 DEF AttemptsOf

\* So does the job a step adds; it is the last of the queue.
LEMMA JobCounted ==
    ASSUME TInv, NEW f \in Events, NEW t \in Subs, NEW m \in Nat, NEW delay \in Nat,
           TakesEffect(f, t, m, delay)
    PROVE  /\ DOMAIN jobs' = DOMAIN jobs \cup {Len(jobs) + 1}
           /\ Len(jobs) + 1 \notin DOMAIN jobs
           /\ \A j \in DOMAIN jobs : jobs'[j] = jobs[j]
           /\ jobs'[Len(jobs) + 1].event = f
           /\ jobs'[Len(jobs) + 1].sub = t
           /\ jobs'[Len(jobs) + 1].number = m
           /\ jobs'[Len(jobs) + 1].state = "waiting"
           /\ jobs'[Len(jobs) + 1].stalls = 0
           /\ addRetryUnanswered(f, t, m, delay) => ~jobs'[Len(jobs) + 1].answered
<1>1. PICK x \in JobType :
        /\ jobs' = Append(jobs, x)
        /\ x.event = f /\ x.sub = t /\ x.number = m
        /\ x.state = "waiting" /\ x.stalls = 0
  BY AddedOne
<1>2. jobs \in Seq(JobType)
  BY DEF TInv, TypeOK, TablesTypeOK
<1>3. /\ DOMAIN jobs' = DOMAIN jobs \cup {Len(jobs) + 1}
      /\ Len(jobs) + 1 \notin DOMAIN jobs
      /\ \A j \in DOMAIN jobs : jobs'[j] = jobs[j]
      /\ jobs'[Len(jobs) + 1] = x
  BY <1>1, <1>2
<1>4. ASSUME addRetryUnanswered(f, t, m, delay)
      PROVE  ~jobs'[Len(jobs) + 1].answered
  <2>1. newJob(f, t, m, delay) \in JobType
    BY DEF newJob, JobType
  <2>2. PICK y \in JobType : jobs' = Append(jobs, y) /\ y.answered = FALSE
    BY <1>4, <2>1, UnansweredTyped DEF addRetryUnanswered
  <2>3. jobs'[Len(jobs) + 1] = y
    BY <1>2, <2>2
  <2> QED BY <2>2, <2>3
<1> QED BY <1>1, <1>3, <1>4

\* The answered jobs of a pair and number gain the one that a step adds for them.
LEMMA AnsweredCounted ==
    ASSUME TInv, NEW f \in Events, NEW t \in Subs, NEW m \in Nat, NEW delay \in Nat,
           TakesEffect(f, t, m, delay), NEW e, NEW s, NEW n
    PROVE  /\ AnsweredOf(e, s, n)' \subseteq AnsweredOf(e, s, n) \cup {Len(jobs) + 1}
           /\ ~(e = f /\ s = t /\ n = m) \/ addRetryUnanswered(f, t, m, delay)
                => AnsweredOf(e, s, n)' \subseteq AnsweredOf(e, s, n)
<1>1. /\ DOMAIN jobs' = DOMAIN jobs \cup {Len(jobs) + 1}
      /\ \A j \in DOMAIN jobs : jobs'[j] = jobs[j]
      /\ jobs'[Len(jobs) + 1].event = f
      /\ jobs'[Len(jobs) + 1].sub = t
      /\ jobs'[Len(jobs) + 1].number = m
      /\ addRetryUnanswered(f, t, m, delay) => ~jobs'[Len(jobs) + 1].answered
  BY JobCounted
<1> QED BY <1>1 DEF AnsweredOf, JobsOf, Unanswered

LEMMA JobQueued ==
    ASSUME TInv, NEW f \in Events, NEW t \in Subs, NEW m \in Nat, NEW delay \in Nat,
           TakesEffect(f, t, m, delay)
    PROVE  \E j \in DOMAIN jobs' : /\ jobs'[j].event = f /\ jobs'[j].sub = t
                                   /\ jobs'[j].number = m /\ jobs'[j].state = "waiting"
<1>1. Len(jobs) + 1 \in DOMAIN jobs'
  BY JobCounted
<1> QED BY <1>1, JobCounted

LEMMA JobsOnlyAdded ==
    ASSUME TInv, NEW f \in Events, NEW t \in Subs, NEW m \in Nat, NEW delay \in Nat,
           TakesEffect(f, t, m, delay)
    PROVE  /\ \A j \in DOMAIN jobs : j \in DOMAIN jobs' /\ jobs'[j] = jobs[j]
           /\ \A j \in DOMAIN jobs' \ DOMAIN jobs :
                jobs'[j].state = "waiting" /\ jobs'[j].stalls = 0
<1>1. /\ DOMAIN jobs' = DOMAIN jobs \cup {Len(jobs) + 1}
      /\ \A j \in DOMAIN jobs : jobs'[j] = jobs[j]
      /\ jobs'[Len(jobs) + 1].state = "waiting"
      /\ jobs'[Len(jobs) + 1].stalls = 0
  BY JobCounted
<1> QED BY <1>1

\* A letter that is written can be found.
LEMMA LetterWritten ==
    ASSUME TInv, NEW e \in Events, NEW s \in Subs, NEW n \in Nat, createDeadLetter(e, s, n)
    PROVE  DeadLettered(e, s)'
<1>1. PICK x : x = [event |-> e, sub |-> s, total |-> n, resolved |-> FALSE]
  OBVIOUS
<1>2. x \in DeadLetterType /\ x.event = e /\ x.sub = s
  BY <1>1 DEF DeadLetterType
<1>3. deadLetters' = Append(deadLetters, x) /\ deadLetters \in Seq(DeadLetterType)
  BY <1>1 DEF createDeadLetter, TInv, TypeOK, TablesTypeOK
<1>4. /\ Len(deadLetters) + 1 \in DOMAIN deadLetters'
      /\ deadLetters'[Len(deadLetters) + 1] = x
  BY <1>2, <1>3
<1> QED BY <1>2, <1>4 DEF DeadLettered

-----------------------------------------------------------------------------
(* Who runs a job, and who holds a row.                                    *)

NotCreated == {"load", "create"}

\* A job has one lock at most, and it is active under it; a job that can still be
\* run stalled once at most.
SlotsInv ==
    /\ \A k \in Slots :
         slot[k].locked => ~SlotAt(k, "idle") /\ jobs[slot[k].job].state = "active"
    /\ \A k, i \in Slots :
         slot[k].locked /\ slot[i].locked /\ slot[k].job = slot[i].job => k = i
    /\ \A j \in DOMAIN jobs : jobs[j].state \in {"waiting", "active"} => jobs[j].stalls <= 1

\* The jobs of a replay are new, and an event is among them once.
BulkInv ==
    \A r \in Replays :
        LET bulk == replay[r].bulk
        IN \A i \in DOMAIN bulk :
            /\ bulk[i].state = "waiting"
            /\ bulk[i].stalls = 0
            /\ bulk[i].number = 1
            /\ \A h \in DOMAIN bulk : bulk[h].event = bulk[i].event => h = i

\* What a step does to a job: the state may change, and a job is given back to
\* the queue only as a stall.
JobsMove ==
    \A j \in DOMAIN jobs :
        /\ jobs'[j].answered = jobs[j].answered
        /\ jobs'[j].stalls >= jobs[j].stalls
        /\ jobs'[j].state = "waiting" =>
             jobs[j].state = "waiting" \/ jobs'[j].stalls > jobs[j].stalls

\* The state of one job changes, and every other job stays.
LEMMA JobChanged ==
    ASSUME TInv, NEW j \in DOMAIN jobs, NEW state, MoveJob(j, state)
    PROVE  /\ DOMAIN jobs' = DOMAIN jobs
           /\ jobs'[j].state = state /\ jobs'[j].stalls = jobs[j].stalls
           /\ jobs'[j].answered = jobs[j].answered
           /\ \A i \in DOMAIN jobs : i # j => jobs'[i] = jobs[i]
<1>1. jobs[j] \in JobType
  BY EntryTyped DEF TInv, TypeOK, TablesTypeOK
<1>2. jobs' = [jobs EXCEPT ![j] = [jobs[j] EXCEPT !.state = state]]
  BY DEF MoveJob
<1> QED BY <1>1, <1>2 DEF JobType

LEMMA StallsTyped ==
    ASSUME TInv, NEW j \in DOMAIN jobs
    PROVE  jobs[j].stalls \in Nat
<1>1. jobs[j] \in JobType
  BY EntryTyped DEF TInv, TypeOK, TablesTypeOK
<1> QED BY <1>1 DEF JobType

LEMMA NumberTyped ==
    ASSUME TInv, NEW j \in DOMAIN jobs
    PROVE  jobs[j].number \in Nat
<1>1. jobs[j] \in JobType
  BY EntryTyped DEF TInv, TypeOK, TablesTypeOK
<1> QED BY <1>1 DEF JobType

\* Slots that go on with their jobs, while jobs are added at most.
LEMMA SlotsGoOn ==
    ASSUME TInv, SlotsInv,
           \A k \in Slots : slot'[k].locked =>
                /\ slot[k].locked /\ slot'[k].job = slot[k].job
                /\ ~SlotAt(k, "idle") => ~SlotAt(k, "idle")',
           \A j \in DOMAIN jobs : j \in DOMAIN jobs' /\ jobs'[j] = jobs[j],
           \A j \in DOMAIN jobs' \ DOMAIN jobs : jobs'[j].stalls = 0
    PROVE  SlotsInv' /\ JobsMove
<1>1. \A k \in Slots : slot[k].locked => slot[k].job \in DOMAIN jobs
  BY SlotTyped DEF SlotAt, SlotOK, SlotsInv
<1>2. \A j \in DOMAIN jobs : jobs[j].stalls \in Nat
  BY StallsTyped
<1>3. JobsMove
  BY <1>2 DEF JobsMove
<1>4. \A k \in Slots :
        slot'[k].locked => ~SlotAt(k, "idle")' /\ jobs'[slot'[k].job].state = "active"
  BY <1>1 DEF SlotsInv
<1>5. \A i, h \in Slots :
        slot'[i].locked /\ slot'[h].locked /\ slot'[i].job = slot'[h].job => i = h
  BY DEF SlotsInv
<1>6. \A j \in DOMAIN jobs' : jobs'[j].state \in {"waiting", "active"} => jobs'[j].stalls <= 1
  BY DEF SlotsInv
<1> QED BY <1>3, <1>4, <1>5, <1>6 DEF SlotsInv

\* A slot that ends its job, or lets go of one it has no lock of.
LEMMA SlotEnds ==
    ASSUME TInv, SlotsInv, NEW k \in Slots, NEW state,
           state \notin {"waiting", "active"},
           FinishJob(k, state), slot' = [slot EXCEPT ![k] = Free]
    PROVE  SlotsInv' /\ JobsMove
<1> DEFINE j == slot[k].job
<1>0. /\ slot \in [Slots -> SlotType]
      /\ \A i \in Slots : slot[i].locked => ~SlotAt(i, "idle") /\ slot[i].job \in DOMAIN jobs
  BY SlotTyped DEF SlotAt, SlotOK, TInv, TypeOK, RetryTypeOK, SlotsInv
<1>1. \A i \in Slots : slot'[i].locked => i # k /\ slot[i].locked /\ slot'[i] = slot[i]
  BY <1>0 DEF Free
<1>2. CASE UNCHANGED jobs
  <2>1. \A i \in Slots : slot'[i].locked =>
          /\ slot[i].locked /\ slot'[i].job = slot[i].job
          /\ ~SlotAt(i, "idle") => ~SlotAt(i, "idle")'
    BY <1>1 DEF SlotAt
  <2> QED BY <1>2, <2>1, SlotsGoOn
<1>3. CASE slot[k].locked /\ MoveJob(j, state)
  <2>1. /\ DOMAIN jobs' = DOMAIN jobs
        /\ jobs'[j].state = state /\ jobs'[j].stalls = jobs[j].stalls
        /\ jobs'[j].answered = jobs[j].answered
        /\ \A i \in DOMAIN jobs : i # j => jobs'[i] = jobs[i]
    BY <1>0, <1>3, JobChanged
  <2>2. \A i \in Slots : slot'[i].locked => slot[i].job # j
    BY <1>1, <1>3 DEF SlotsInv
  <2>3. JobsMove
    <3>1. \A i \in DOMAIN jobs : jobs[i].stalls \in Nat
      BY StallsTyped
    <3> QED BY <1>0, <2>1, <3>1 DEF JobsMove
  <2>4. \A i \in Slots :
          slot'[i].locked => ~SlotAt(i, "idle")' /\ jobs'[slot'[i].job].state = "active"
    BY <1>0, <1>1, <2>1, <2>2 DEF SlotsInv, SlotAt
  <2>5. \A i, h \in Slots :
          slot'[i].locked /\ slot'[h].locked /\ slot'[i].job = slot'[h].job => i = h
    BY <1>1 DEF SlotsInv
  <2>6. \A i \in DOMAIN jobs' : jobs'[i].state \in {"waiting", "active"} => jobs'[i].stalls <= 1
    BY <2>1 DEF SlotsInv
  <2> QED BY <2>3, <2>4, <2>5, <2>6 DEF SlotsInv
<1> QED BY <1>2, <1>3 DEF FinishJob

\* The rows of the actors are rows of their pairs.
LEMMA ConsumerRow ==
    ASSUME CInv, NEW c \in Consumers, con[c].pc \in InHand
    PROVE  /\ Event(c) \in Events /\ attempts[Attempt(c)].sub \in Subs
           /\ Attempt(c) \in AttemptsOf(Event(c), attempts[Attempt(c)].sub, 1)
<1>1. TInv /\ ConOK(con[c]) /\ ConAgrees(con[c])
  BY ConTyped DEF CInv, HInv, Agreement
<1>2. Attempt(c) \in DOMAIN attempts /\ con[c].offset + 1 \in 1..Len(log)
  <2>1. Len(log) \in Nat
    BY <1>1 DEF TInv, TypeOK, ConsumersTypeOK
  <2> QED BY <1>1, <2>1 DEF ConOK, ConsumerType, Attempt, InHand
<1>3. attempts[Attempt(c)] \in AttemptType
  BY <1>1, <1>2, EntryTyped DEF TInv, TypeOK, TablesTypeOK
<1>4. Event(c) \in Events
  BY <1>1, <1>2 DEF Event, TInv, TypeOK, ConsumersTypeOK
<1> QED BY <1>1, <1>2, <1>3, <1>4 DEF AttemptType, AttemptsOf, ConAgrees, Event, Attempt

LEMMA SlotRow ==
    ASSUME CInv, NEW k \in Slots, slot[k].pc \in HasRow
    PROVE  slot[k].attempt \in AttemptsOf(JobOf(k).event, JobOf(k).sub, JobOf(k).number)
<1>1. SlotAgrees(slot[k])
  BY DEF CInv, Agreement
<1> QED BY <1>1 DEF SlotAgrees, AttemptsOf, JobOf

LEMMA SlotJob ==
    ASSUME CInv, NEW k \in Slots, ~SlotAt(k, "idle")
    PROVE  /\ slot[k].job \in DOMAIN jobs
           /\ JobOf(k).event \in Events /\ JobOf(k).sub \in Subs
           /\ JobOf(k).number \in 1..MAX_ATTEMPTS
<1>1. slot[k].job \in DOMAIN jobs
  BY SlotTyped DEF CInv, HInv, SlotAt, SlotOK
<1>2. JobOK(jobs[slot[k].job])
  BY <1>1 DEF CInv, Justified
<1> QED BY <1>1, <1>2, SlotTyped DEF CInv, HInv, SlotAt, JobOK, JobOf

\* What the steps that add jobs add, whether the add is answered or not.
Schedules(c) == ScheduleRetry(c) \/ ScheduleUnanswered(c)

Follows(k) == RetryAgain(k) \/ AgainUnanswered(k)

LEMMA ScheduleAdds ==
    ASSUME CInv, NEW c \in Consumers, Schedules(c)
    PROVE  /\ con[c].pc \in InHand
           /\ TakesEffect(Event(c), attempts[Attempt(c)].sub, 2, computeRetryDelay(1))
           /\ Event(c) \in Events /\ attempts[Attempt(c)].sub \in Subs
           /\ computeRetryDelay(1) \in Nat
           /\ UNCHANGED attempts
  BY ConsumerRow, DelayType
  DEF Schedules, ScheduleRetry, ScheduleUnanswered, TakesEffect, At, InHand

LEMMA AgainAdds ==
    ASSUME CInv, NEW k \in Slots, Follows(k)
    PROVE  /\ slot[k].pc \in HasRow
           /\ TakesEffect(JobOf(k).event, JobOf(k).sub, JobOf(k).number + 1,
                          computeRetryDelay(JobOf(k).number))
           /\ JobOf(k).event \in Events /\ JobOf(k).sub \in Subs
           /\ JobOf(k).number \in 1..MAX_ATTEMPTS /\ JobOf(k).number + 1 \in Nat
           /\ computeRetryDelay(JobOf(k).number) \in Nat
           /\ UNCHANGED attempts
<1>1. /\ JobOf(k).event \in Events /\ JobOf(k).sub \in Subs
      /\ JobOf(k).number \in 1..MAX_ATTEMPTS
  BY SlotJob DEF Follows, RetryAgain, AgainUnanswered, SlotAt
<1>2. JobOf(k).number + 1 \in Nat
  BY <1>1, ScheduleAssumption
<1> QED BY <1>1, <1>2, DelayType
        DEF Follows, RetryAgain, AgainUnanswered, TakesEffect, SlotAt, HasRow

LEMMA BulkAdds ==
    ASSUME CInv, BulkInv, NEW r \in Replays, AddBulk(r) \/ BulkUnanswered(r)
    PROVE  /\ \A j \in DOMAIN jobs : j \in DOMAIN jobs' /\ jobs'[j] = jobs[j]
           /\ \A j \in DOMAIN jobs' \ DOMAIN jobs :
                /\ jobs'[j].state = "waiting"
                /\ jobs'[j].stalls = 0
                /\ jobs'[j].number = 1
                /\ BulkUnanswered(r) => ~jobs'[j].answered
                /\ \A i \in DOMAIN jobs' \ DOMAIN jobs :
                     jobs'[i].event = jobs'[j].event => i = j
<1> DEFINE bulk == replay[r].bulk
           resent == [i \in DOMAIN bulk |-> unanswered(bulk[i])]
           Fresh(q) == \A i \in DOMAIN q :
                         /\ q[i].state = "waiting"
                         /\ q[i].stalls = 0
                         /\ q[i].number = 1
                         /\ \A h \in DOMAIN q : q[h].event = q[i].event => h = i
<1>0. jobs \in Seq(JobType) /\ bulk \in Seq(JobType)
  BY DEF CInv, HInv, TInv, TypeOK, TablesTypeOK, RedeliveryTypeOK, ReplayType
<1>1. Fresh(bulk)
  BY DEF BulkInv
<1>2. /\ resent \in Seq(JobType) /\ Fresh(resent)
      /\ \A i \in DOMAIN resent : ~resent[i].answered
  <2>1. resent \in Seq(JobType) /\ DOMAIN resent = DOMAIN bulk
    BY <1>0, UnansweredBulk
  <2>2. ASSUME NEW i \in DOMAIN bulk
        PROVE  /\ resent[i].state = bulk[i].state /\ resent[i].stalls = bulk[i].stalls
               /\ resent[i].number = bulk[i].number /\ resent[i].event = bulk[i].event
               /\ ~resent[i].answered
    <3>1. bulk[i] \in JobType
      BY <1>0, EntryTyped
    <3> QED BY <3>1, UnansweredTyped
  <2> HIDE DEF bulk, resent
  <2> QED BY <1>1, <2>1, <2>2
<1>3. PICK q \in Seq(JobType) :
        /\ jobs' = jobs \o q /\ Fresh(q)
        /\ BulkUnanswered(r) => \A i \in DOMAIN q : ~q[i].answered
  <2>1. CASE BulkUnanswered(r)
    <3>1. jobs' = jobs \o resent
      BY <2>1 DEF BulkUnanswered
    <3> QED BY <1>2, <3>1
  <2>2. CASE AddBulk(r) /\ ~BulkUnanswered(r)
    <3>1. jobs' = jobs \o bulk
      BY <2>2 DEF AddBulk
    <3> QED BY <1>0, <1>1, <2>2, <3>1
  <2> QED BY <2>1, <2>2
<1> HIDE DEF bulk, resent
<1>4. /\ Len(jobs) \in Nat /\ DOMAIN jobs = 1..Len(jobs)
      /\ Len(q) \in Nat /\ DOMAIN q = 1..Len(q)
  BY <1>0
<1>5. /\ DOMAIN jobs' = 1..(Len(jobs) + Len(q))
      /\ \A j \in 1..(Len(jobs) + Len(q)) :
            jobs'[j] = IF j <= Len(jobs) THEN jobs[j] ELSE q[j - Len(jobs)]
  BY <1>0, <1>3
<1>6. \A j \in DOMAIN jobs' \ DOMAIN jobs :
        j \in Int /\ j - Len(jobs) \in DOMAIN q /\ jobs'[j] = q[j - Len(jobs)]
  BY <1>4, <1>5
<1>7. ASSUME NEW j \in DOMAIN jobs' \ DOMAIN jobs
      PROVE  /\ jobs'[j].state = "waiting"
             /\ jobs'[j].stalls = 0
             /\ jobs'[j].number = 1
             /\ BulkUnanswered(r) => ~jobs'[j].answered
             /\ \A i \in DOMAIN jobs' \ DOMAIN jobs :
                  jobs'[i].event = jobs'[j].event => i = j
  <2>1. PICK x \in DOMAIN q : x = j - Len(jobs) /\ jobs'[j] = q[x] /\ j \in Int
    BY <1>6
  <2>2. ASSUME NEW i \in DOMAIN jobs' \ DOMAIN jobs, jobs'[i].event = jobs'[j].event
        PROVE  i = j
    <3>1. PICK y \in DOMAIN q : y = i - Len(jobs) /\ jobs'[i] = q[y] /\ i \in Int
      BY <1>6
    <3>2. y = x
      BY <1>3, <2>1, <2>2, <3>1
    <3> QED BY <1>4, <2>1, <3>1, <3>2
  <2> QED BY <1>3, <2>1, <2>2
<1> QED BY <1>4, <1>5, <1>7

-----------------------------------------------------------------------------
(* Every step keeps jobs with one lock.                                    *)

LEMMA SlotKeepsJob ==
    ASSUME CInv, NEW k \in Slots,
           \/ Load(k) \/ CreateNext(k) \/ Redeliver(k) \/ ResolveNext(k) \/ IndexNext(k)
           \/ Bury(k) \/ RetryAgain(k)
    PROVE  /\ \A i \in Slots : i # k => slot'[i] = slot[i]
           /\ ~SlotAt(k, "idle") /\ slot'[k].job = slot[k].job
           /\ CreateNext(k) \/ slot'[k].attempt = slot[k].attempt
<1>0. slot \in [Slots -> SlotType] /\ slot[k] \in SlotType
  BY SlotTyped DEF CInv, HInv, TInv, TypeOK, RetryTypeOK
<1>1. CASE Load(k) \/ ResolveNext(k) \/ IndexNext(k) \/ Bury(k) \/ RetryAgain(k)
  <2>1. PICK pc : slot' = [slot EXCEPT ![k].pc = pc]
    BY <1>1 DEF Load, ResolveNext, IndexNext, Bury, RetryAgain
  <2>2. ~SlotAt(k, "idle")
    BY <1>1 DEF Load, ResolveNext, IndexNext, Bury, RetryAgain, SlotAt
  <2> QED BY <1>0, <2>1, <2>2 DEF SlotType
<1>2. CASE CreateNext(k) \/ Redeliver(k)
  BY <1>0, <1>2 DEF CreateNext, Redeliver, SlotAt, SlotType
<1> QED BY <1>1, <1>2

\* Only a slot that takes a job gets a lock; every other step that leaves the
\* states of the jobs alone keeps locks where they are, or loses them.
LEMMA LocksStay ==
    ASSUME CInv, SlotsInv, NEW k \in Slots,
           \/ Load(k) \/ CreateNext(k) \/ Redeliver(k) \/ ResolveNext(k) \/ IndexNext(k)
           \/ Bury(k) \/ RetryAgain(k) \/ LoseLock(k) \/ AgainUnanswered(k)
    PROVE  \A i \in Slots : slot'[i].locked =>
             /\ slot[i].locked /\ slot'[i].job = slot[i].job
             /\ ~SlotAt(i, "idle") => ~SlotAt(i, "idle")'
<1>0. slot \in [Slots -> SlotType] /\ slot[k] \in SlotType
  BY SlotTyped DEF CInv, HInv, TInv, TypeOK, RetryTypeOK
<1>1. CASE Load(k) \/ ResolveNext(k) \/ IndexNext(k) \/ Bury(k) \/ RetryAgain(k)
  <2>1. PICK pc : pc # "idle" /\ slot' = [slot EXCEPT ![k].pc = pc]
    <3>1. AfterIndex(k) # "idle"
      BY DEF AfterIndex
    <3> QED BY <1>1, <3>1 DEF Load, ResolveNext, IndexNext, Bury, RetryAgain
  <2> QED BY <1>0, <2>1 DEF SlotType, SlotAt
<1>2. CASE CreateNext(k) \/ Redeliver(k)
  BY <1>0, <1>2 DEF CreateNext, Redeliver, SlotAt, SlotType
<1>3. CASE LoseLock(k)
  BY <1>0, <1>3 DEF LoseLock, SlotAt, SlotType
<1>4. CASE AgainUnanswered(k)
  BY <1>4 DEF AgainUnanswered, SlotAt
<1> QED BY <1>1, <1>2, <1>3, <1>4

LEMMA SlotsStep ==
    ASSUME CInv, SlotsInv, BulkInv, [Next]_vars
    PROVE  SlotsInv' /\ JobsMove
<1>0. TInv /\ slot \in [Slots -> SlotType]
  BY DEF CInv, HInv, TInv, TypeOK, RetryTypeOK
<1>1. ASSUME UNCHANGED <<jobs, slot>> PROVE SlotsInv' /\ JobsMove
  BY <1>0, <1>1, SlotsGoOn DEF SlotAt
<1>2. ASSUME NEW f \in Events, NEW t \in Subs, NEW n \in Nat, NEW delay \in Nat,
             TakesEffect(f, t, n, delay),
             \A k \in Slots : slot'[k].locked =>
                /\ slot[k].locked /\ slot'[k].job = slot[k].job
                /\ ~SlotAt(k, "idle") => ~SlotAt(k, "idle")'
      PROVE  SlotsInv' /\ JobsMove
  BY <1>0, <1>2, JobsOnlyAdded, SlotsGoOn
<1>3. CASE ConsumersNext /\ UNCHANGED <<retryVars, requestVars>>
  <2>1. CASE \E c \in Consumers : Schedules(c)
    BY <1>2, <1>3, <2>1, ScheduleAdds DEF retryVars, SlotAt
  <2>2. CASE ~\E c \in Consumers : Schedules(c)
    <3>1. UNCHANGED jobs
      BY <1>3, <2>2
      DEF Schedules, ConsumersNext, ConsumerStep, ConsumerFault, Produce, Join, Fetch,
          LoadSubscriptions, CreateFirst, CreateRefused, Deliver, ResolveFirst, IndexFirst,
          CommitOffset, Fenced, Throw, CommitThrows, Crash, Evict, tableVars
    <3> QED BY <1>1, <1>3, <3>1 DEF retryVars
  <2> QED BY <2>1, <2>2
<1>4. CASE RedeliveryNext /\ UNCHANGED <<consumerVars, retryVars>>
  <2>1. CASE \E r \in Replays : AddBulk(r) \/ BulkUnanswered(r)
    BY <1>0, <1>4, <2>1, BulkAdds, SlotsGoOn DEF retryVars, SlotAt
  <2>2. CASE ~\E r \in Replays : AddBulk(r) \/ BulkUnanswered(r)
    <3>1. UNCHANGED jobs
      BY <1>4, <2>2
      DEF RedeliveryNext, replaySubscription, ReadEvents, ReplayFails, retryDeadLetter,
          LoadLetter, CreateManual, DeliverManual, ResolveLetter, RecordFailure,
          ManualFails, tableVars
    <3> QED BY <1>1, <1>4, <3>1 DEF retryVars
  <2> QED BY <2>1, <2>2
<1>5. CASE (TablesNext /\ UNCHANGED retryVars) \/ UNCHANGED vars
  BY <1>1, <1>5
  DEF TablesNext, createSubscription, updateSubscription, deleteSubscription, vars,
      tableVars, retryVars
<1>6. ASSUME NEW k \in Slots,
             SlotStep(k) \/ AgainUnanswered(k) \/ RetryThrow(k) \/ LoseLock(k)
      PROVE  SlotsInv' /\ JobsMove
  <2>1. CASE Take(k)
    <3>1. PICK j \in DOMAIN jobs :
            /\ jobs[j].state = "waiting"
            /\ MoveJob(j, "active")
            /\ slot' = [slot EXCEPT ![k] = [Free EXCEPT !.pc = "load", !.job = j,
                                                        !.locked = TRUE]]
      BY <2>1 DEF Take
    <3>2. /\ DOMAIN jobs' = DOMAIN jobs
          /\ jobs'[j].state = "active" /\ jobs'[j].stalls = jobs[j].stalls
          /\ jobs'[j].answered = jobs[j].answered
          /\ \A i \in DOMAIN jobs : i # j => jobs'[i] = jobs[i]
      BY <1>0, <3>1, JobChanged
    <3>3. /\ slot'[k].job = j /\ slot'[k].pc = "load"
          /\ \A i \in Slots : i # k => slot'[i] = slot[i]
      BY <1>0, <3>1 DEF Free
    <3>4. \A i \in Slots : slot[i].locked => slot[i].job \in DOMAIN jobs /\ slot[i].job # j
      BY <1>0, <3>1, SlotTyped DEF SlotsInv, SlotAt, SlotOK
    <3>5. JobsMove
      <4>1. \A i \in DOMAIN jobs : jobs[i].stalls \in Nat
        BY <1>0, StallsTyped
      <4> QED BY <3>2, <4>1 DEF JobsMove
    <3>6. \A i \in Slots :
            slot'[i].locked => ~SlotAt(i, "idle")' /\ jobs'[slot'[i].job].state = "active"
      BY <3>2, <3>3, <3>4 DEF SlotsInv, SlotAt
    <3>7. \A i, h \in Slots :
            slot'[i].locked /\ slot'[h].locked /\ slot'[i].job = slot'[h].job => i = h
      BY <3>3, <3>4 DEF SlotsInv, SlotAt
    <3>8. \A i \in DOMAIN jobs' : jobs'[i].state \in {"waiting", "active"} => jobs'[i].stalls <= 1
      BY <3>1, <3>2 DEF SlotsInv
    <3> QED BY <3>5, <3>6, <3>7, <3>8 DEF SlotsInv
  <2>2. CASE \/ Load(k) \/ CreateNext(k) \/ Redeliver(k) \/ ResolveNext(k) \/ IndexNext(k)
             \/ Bury(k) \/ LoseLock(k)
    <3>1. UNCHANGED jobs
      BY <2>2 DEF Load, CreateNext, Redeliver, ResolveNext, IndexNext, Bury, LoseLock,
                  tableVars
    <3> QED BY <1>0, <2>2, <3>1, LocksStay, SlotsGoOn
  <2>3. CASE Follows(k)
    <3>1. \A i \in Slots : slot'[i].locked =>
            /\ slot[i].locked /\ slot'[i].job = slot[i].job
            /\ ~SlotAt(i, "idle") => ~SlotAt(i, "idle")'
      BY <2>3, LocksStay DEF Follows
    <3> QED BY <1>2, <2>3, <3>1, AgainAdds
  <2>4. CASE NextRefused(k) \/ IndexUnbound(k) \/ Complete(k) \/ RetryThrow(k)
    <3>1. PICK state \in {"failed", "completed"} :
            FinishJob(k, state) /\ slot' = [slot EXCEPT ![k] = Free]
      BY <2>4 DEF NextRefused, IndexUnbound, Complete, RetryThrow, JobFails
    <3> QED BY <1>0, <3>1, SlotEnds
  <2> QED BY <1>6, <2>1, <2>2, <2>3, <2>4 DEF SlotStep, Follows
<1>7. CASE RetryCrash
  <2>1. \A k \in Slots : ~slot'[k].locked
    BY <1>7 DEF RetryCrash, Free
  <2>2. UNCHANGED jobs
    BY <1>7 DEF RetryCrash, tableVars
  <2> QED BY <1>0, <2>1, <2>2, SlotsGoOn
<1>8. CASE Stalled
  <2>1. PICK j \in DOMAIN jobs :
          /\ jobs[j].state = "active" /\ j \notin Locked
          /\ jobs' = [jobs EXCEPT
                        ![j].state = IF jobs[j].stalls < 1 THEN "waiting" ELSE "failed",
                        ![j].stalls = @ + 1]
          /\ slot' = slot
    BY <1>8 DEF Stalled
  <2>2. PICK state, stalls :
          /\ state = IF jobs[j].stalls < 1 THEN "waiting" ELSE "failed"
          /\ stalls = jobs[j].stalls + 1
          /\ jobs' = [jobs EXCEPT ![j].state = state, ![j].stalls = stalls]
    BY <2>1
  <2>3. /\ DOMAIN jobs' = DOMAIN jobs
        /\ jobs'[j].state = state /\ jobs'[j].stalls = stalls
        /\ jobs'[j].answered = jobs[j].answered
        /\ \A i \in DOMAIN jobs : i # j => jobs'[i] = jobs[i]
    <3>1. jobs' = [jobs EXCEPT ![j] = [jobs[j] EXCEPT !.state = state, !.stalls = stalls]]
      BY <2>2
    <3>2. jobs[j] \in JobType
      BY <1>0, EntryTyped DEF TInv, TypeOK, TablesTypeOK
    <3> QED BY <3>1, <3>2 DEF JobType
  <2>4. \A i \in DOMAIN jobs : jobs[i].stalls \in Nat
    BY <1>0, StallsTyped
  <2>5. \A i \in Slots : slot[i].locked => slot[i].job \in DOMAIN jobs /\ slot[i].job # j
    BY <1>0, <2>1, SlotTyped DEF Locked, SlotAt, SlotOK, SlotsInv
  <2>6. JobsMove
    BY <2>2, <2>3, <2>4 DEF JobsMove
  <2>7. \A i \in Slots :
          slot'[i].locked => ~SlotAt(i, "idle")' /\ jobs'[slot'[i].job].state = "active"
    BY <2>1, <2>3, <2>5 DEF SlotsInv, SlotAt
  <2>8. \A i, h \in Slots :
          slot'[i].locked /\ slot'[h].locked /\ slot'[i].job = slot'[h].job => i = h
    BY <2>1 DEF SlotsInv
  <2>9. \A i \in DOMAIN jobs' : jobs'[i].state \in {"waiting", "active"} => jobs'[i].stalls <= 1
    BY <2>2, <2>3, <2>4 DEF SlotsInv
  <2> QED BY <2>6, <2>7, <2>8, <2>9 DEF SlotsInv
<1> QED BY <1>3, <1>4, <1>5, <1>6, <1>7, <1>8 DEF Next, RetryNext

LEMMA BulkStep ==
    ASSUME CInv, BulkInv, [Next]_vars
    PROVE  BulkInv'
<1>0. replay \in [Replays -> ReplayType]
  BY DEF CInv, HInv, TInv, TypeOK, RedeliveryTypeOK
<1> DEFINE OK(bulk) == \A i \in DOMAIN bulk :
                        /\ bulk[i].state = "waiting"
                        /\ bulk[i].stalls = 0
                        /\ bulk[i].number = 1
                        /\ \A h \in DOMAIN bulk : bulk[h].event = bulk[i].event => h = i
<1>1. ASSUME NEW r \in Replays, NEW x, replay' = [replay EXCEPT ![r] = x], OK(x.bulk)
      PROVE  BulkInv'
  <2>1. \A q \in Replays : q # r => replay'[q] = replay[q]
    BY <1>0, <1>1
  <2>2. replay'[r] = x
    BY <1>0, <1>1
  <2> QED BY <1>1, <2>1, <2>2 DEF BulkInv
<1>2. ASSUME NEW r \in Replays, ReadEvents(r) PROVE BulkInv'
  <2>1. PICK s \in Subs, events \in Listings :
          replay' = [replay EXCEPT ![r] =
                        [pc |-> IF events = <<>> THEN "done" ELSE "add",
                         bulk |-> [i \in DOMAIN events |-> replayJob(events[i], s)]]]
    BY <1>2 DEF ReadEvents
  <2>2. \A i, h \in DOMAIN events : events[i] = events[h] => i = h
    <3> DEFINE all == {Injection(1..n, Events) : n \in 0..Cardinality(Events)}
    <3>1. events \in UNION all
      BY DEF Listings
    <3> HIDE DEF all
    <3>2. PICK listing \in all : events \in listing
      BY <3>1
    <3>3. PICK n \in 0..Cardinality(Events) : listing = Injection(1..n, Events)
      BY <3>2 DEF all
    <3>4. IsInjective(events)
      BY <3>2, <3>3, Zenon DEF Injection
    <3> QED BY <3>4, Zenon DEF IsInjective
  <2>3. OK([i \in DOMAIN events |-> replayJob(events[i], s)])
    BY <2>2 DEF replayJob, newJob
  <2> HIDE DEF OK
  <2>4. PICK bulk, x :
          /\ bulk = [i \in DOMAIN events |-> replayJob(events[i], s)]
          /\ x = [pc |-> IF events = <<>> THEN "done" ELSE "add", bulk |-> bulk]
          /\ replay' = [replay EXCEPT ![r] = x]
    BY <2>1
  <2>5. x.bulk = bulk
    BY <2>4
  <2>6. OK(bulk)
    BY <2>3, <2>4, Zenon
  <2>7. OK(x.bulk)
    BY <2>5, <2>6, Zenon
  <2>8. replay' = [replay EXCEPT ![r] = x]
    BY <2>4, Zenon
  <2> QED BY <1>1, <2>7, <2>8, Zenon
<1>3. ASSUME NEW r \in Replays, AddBulk(r) \/ ReplayFails(r) PROVE BulkInv'
  <2>1. PICK pc : replay' = [replay EXCEPT ![r].pc = pc]
    BY <1>3 DEF AddBulk, ReplayFails
  <2>2. \A q \in Replays : replay'[q].bulk = replay[q].bulk
    BY <1>0, <2>1 DEF ReplayType
  <2> QED BY <2>2 DEF BulkInv
<1>4. ASSUME UNCHANGED replay PROVE BulkInv'
  BY <1>4 DEF BulkInv
<1> QED BY <1>2, <1>3, <1>4
        DEF Next, vars, requestVars, RedeliveryNext, replaySubscription, BulkUnanswered,
            retryDeadLetter, LoadLetter, CreateManual, DeliverManual, ResolveLetter,
            RecordFailure, ManualFails

-----------------------------------------------------------------------------
(* A run of a job makes one row.                                           *)

\* The runs on their way to their row.  A job has several when the worker lost its
\* lock and goes on.
Runners(e, s, n) == {k \in Slots : /\ slot[k].pc \in NotCreated
                                   /\ JobOf(k).event = e
                                   /\ JobOf(k).sub = s
                                   /\ JobOf(k).number = n}

\* The rows that are made, or may be without another run.
Made(e, s, n) == Cardinality(AttemptsOf(e, s, n)) + Cardinality(Runners(e, s, n))

\* The runs that a slot was given.
Spent(e, s, n) ==
    {p \in RunsOf(e, s, n) : p[2] < jobs[p[1]].stalls \/ jobs[p[1]].state # "waiting"}

RunsPaid ==
    \A e \in Events, s \in Subs : \A n \in 2..MAX_ATTEMPTS :
        Made(e, s, n) <= Cardinality(Spent(e, s, n))

LEMMA SlotMoves ==
    ASSUME CInv, [Next]_vars, NEW k \in Slots
    PROVE  \/ slot'[k] = slot[k] \/ slot'[k] = Free \/ SlotStep(k)
           \/ slot'[k] = [slot[k] EXCEPT !.locked = FALSE]
<1>0. slot \in [Slots -> SlotType]
  BY DEF CInv, HInv, TInv, TypeOK, RetryTypeOK
<1>1. ASSUME NEW i \in Slots, i # k, SlotStep(i) PROVE slot'[k] = slot[k]
  BY <1>0, <1>1
  DEF SlotStep, Take, Load, CreateNext, NextRefused, Redeliver, ResolveNext, IndexNext,
      IndexUnbound, JobFails, Bury, RetryAgain, Complete
<1>2. ASSUME NEW i \in Slots, RetryThrow(i) PROVE slot'[k] = slot[k] \/ slot'[k] = Free
  BY <1>0, <1>2 DEF RetryThrow, JobFails
<1>3. CASE RetryCrash \/ Stalled
  BY <1>3 DEF RetryCrash, Stalled
<1>4. CASE UNCHANGED retryVars \/ UNCHANGED vars
  BY <1>4 DEF retryVars, vars
<1>5. ASSUME NEW i \in Slots, AgainUnanswered(i) PROVE slot'[k] = slot[k]
  BY <1>5 DEF AgainUnanswered
<1>6. ASSUME NEW i \in Slots, LoseLock(i)
      PROVE  slot'[k] = slot[k] \/ slot'[k] = [slot[k] EXCEPT !.locked = FALSE]
  BY <1>0, <1>6 DEF LoseLock
<1> QED BY <1>1, <1>2, <1>3, <1>4, <1>5, <1>6 DEF Next, RetryNext, retryVars

\* Only a slot that takes a job becomes a runner.
LEMMA RunnerWas ==
    ASSUME CInv, [Next]_vars, NEW k \in Slots, slot'[k].pc \in NotCreated, ~Take(k)
    PROVE  slot[k].pc \in NotCreated /\ slot'[k].job = slot[k].job
<1>0. slot \in [Slots -> SlotType] /\ slot[k] \in SlotType
  BY SlotTyped DEF CInv, HInv, TInv, TypeOK, RetryTypeOK
<1>1. CASE Load(k)
  BY <1>0, <1>1 DEF Load, SlotAt, SlotType, NotCreated
<1>2. CASE CreateNext(k) \/ Redeliver(k)
  BY <1>0, <1>2 DEF CreateNext, Redeliver, SlotType, NotCreated
<1>3. CASE ResolveNext(k) \/ Bury(k) \/ RetryAgain(k) \/ IndexNext(k)
  <2>1. PICK pc \in {"index", "return", "bury", "again"} : slot' = [slot EXCEPT ![k].pc = pc]
    BY <1>3 DEF ResolveNext, Bury, RetryAgain, IndexNext, AfterIndex
  <2> QED BY <1>0, <2>1 DEF SlotType, NotCreated
<1>4. CASE slot'[k] = Free \/ NextRefused(k) \/ IndexUnbound(k) \/ Complete(k)
  BY <1>0, <1>4 DEF NextRefused, IndexUnbound, Complete, JobFails, Free, NotCreated
<1>5. CASE slot'[k] = slot[k] \/ slot'[k] = [slot[k] EXCEPT !.locked = FALSE]
  BY <1>0, <1>5 DEF SlotType
<1> QED BY <1>1, <1>2, <1>3, <1>4, <1>5, SlotMoves DEF SlotStep

LEMMA RunnersStay ==
    ASSUME CInv, [Next]_vars, NEW e, NEW s, NEW n
    PROVE  \A k \in Runners(e, s, n)' : Take(k) \/ k \in Runners(e, s, n)
<1>0. JobsKept
  BY StepKeeps DEF CInv, Kept
<1> SUFFICES ASSUME NEW k \in Slots, ~Take(k), k \in Runners(e, s, n)'
             PROVE  k \in Runners(e, s, n)
  BY DEF Runners
<1>1. slot[k].pc \in NotCreated /\ slot'[k].job = slot[k].job
  BY RunnerWas DEF Runners
<1>2. slot[k].job \in DOMAIN jobs
  BY <1>1, SlotJob DEF NotCreated, SlotAt
<1> QED BY <1>0, <1>1, <1>2 DEF Runners, JobOf, JobsKept

LEMMA RunnersFinite ==
    /\ \A e, s, n : IsFiniteSet(Runners(e, s, n))
    /\ \A e, s, n : IsFiniteSet(Runners(e, s, n)')
<1>1. \A e, s, n : Runners(e, s, n) \subseteq Slots /\ Runners(e, s, n)' \subseteq Slots
  BY DEF Runners
<1> QED BY <1>1, FewerOf, RetryAssumption

LEMMA SpentFinite ==
    ASSUME TInv, NEW e, NEW s, NEW n
    PROVE  /\ IsFiniteSet(Spent(e, s, n))
           /\ Cardinality(Spent(e, s, n)) <= Cardinality(RunsOf(e, s, n))
           /\ Cardinality(AttemptsOf(e, s, n)) \in Nat
           /\ Cardinality(AttemptsOf(e, s, n)) <= Made(e, s, n)
           /\ Made(e, s, n) \in Nat
<1>1. Spent(e, s, n) \subseteq RunsOf(e, s, n)
  BY DEF Spent
<1>2. /\ Cardinality(AttemptsOf(e, s, n)) \in Nat
      /\ Cardinality(Runners(e, s, n)) \in Nat
  BY TablesFinite, RunnersFinite, FS_CardinalityType
<1> QED BY <1>1, <1>2, TablesFinite, FewerOf DEF Made

\* They are finite after a step, too.
Countable == /\ IsFiniteSet(DOMAIN log)
             /\ \A e, s, n : /\ IsFiniteSet(AttemptsOf(e, s, n))
                             /\ IsFiniteSet(JobsOf(e, s, n))
                             /\ IsFiniteSet(Spent(e, s, n))
                             /\ Made(e, s, n) \in Nat

LEMMA CountableNext == TInv' => Countable'
<1>1. TInv => Countable
  BY TablesFinite, SpentFinite DEF Countable
<1> QED BY <1>1, PTL

\* A run that is spent stays spent.
LEMMA SpentGrows ==
    ASSUME CInv, SlotsInv, BulkInv, [Next]_vars, NEW e, NEW s, NEW n
    PROVE  Spent(e, s, n) \subseteq Spent(e, s, n)'
<1>0. TInv /\ JobsMove /\ JobsKept
  BY SlotsStep, StepKeeps DEF CInv, HInv, Kept
<1> SUFFICES ASSUME NEW p \in Spent(e, s, n) PROVE p \in Spent(e, s, n)'
  OBVIOUS
<1>1. /\ p \in (DOMAIN jobs) \X {0, 1} /\ p[1] \in DOMAIN jobs /\ p[2] \in {0, 1}
      /\ jobs[p[1]].event = e /\ jobs[p[1]].sub = s /\ jobs[p[1]].number = n
      /\ p[2] <= jobs[p[1]].stalls
      /\ p[2] < jobs[p[1]].stalls \/ jobs[p[1]].state # "waiting"
  BY DEF Spent, RunsOf
<1>2. /\ p[1] \in DOMAIN jobs'
      /\ jobs'[p[1]].event = e /\ jobs'[p[1]].sub = s /\ jobs'[p[1]].number = n
      /\ jobs'[p[1]].stalls >= jobs[p[1]].stalls
      /\ jobs'[p[1]].state = "waiting" =>
           jobs[p[1]].state = "waiting" \/ jobs'[p[1]].stalls > jobs[p[1]].stalls
  BY <1>0, <1>1 DEF JobsKept, JobsMove
<1>3. jobs[p[1]].stalls \in Nat /\ jobs'[p[1]].stalls \in Nat
  <2>1. TInv'
    BY <1>0, TInvStep
  <2>2. jobs'[p[1]] \in JobType
    BY <1>2, <2>1, EntryTyped DEF TInv, TypeOK, TablesTypeOK
  <2> QED BY <1>0, <1>1, <2>2, StallsTyped DEF JobType
<1>4. p \in RunsOf(e, s, n)'
  BY <1>1, <1>2, <1>3 DEF RunsOf
<1> QED BY <1>1, <1>2, <1>3, <1>4 DEF Spent

\* A slot that takes a job spends a run of it.
LEMMA TakeSpends ==
    ASSUME CInv, SlotsInv, NEW k \in Slots, Take(k), NEW e, NEW s, NEW n
    PROVE  /\ \A i \in Slots : i # k => slot'[i] = slot[i]
           /\ k \in Runners(e, s, n)' => \E y : y \in Spent(e, s, n)' \ Spent(e, s, n)
<1>0. TInv /\ slot \in [Slots -> SlotType]
  BY DEF CInv, HInv, TInv, TypeOK, RetryTypeOK
<1>1. PICK j \in DOMAIN jobs :
        /\ jobs[j].state = "waiting"
        /\ MoveJob(j, "active")
        /\ slot' = [slot EXCEPT ![k] = [Free EXCEPT !.pc = "load", !.job = j,
                                                    !.locked = TRUE]]
  BY DEF Take
<1>2. /\ slot'[k].job = j
      /\ \A i \in Slots : i # k => slot'[i] = slot[i]
  BY <1>0, <1>1 DEF Free
<1>3. /\ DOMAIN jobs' = DOMAIN jobs
      /\ jobs'[j].state = "active" /\ jobs'[j].stalls = jobs[j].stalls
  BY <1>0, <1>1, JobChanged
<1>4. PICK y : y = <<j, jobs[j].stalls>>
  OBVIOUS
<1>5. jobs[j].stalls \in {0, 1}
  BY <1>0, <1>1, StallsTyped DEF SlotsInv
<1>6. y[1] = j /\ y[2] = jobs[j].stalls
  BY <1>4
<1>7. y \notin Spent(e, s, n)
  BY <1>1, <1>5, <1>6 DEF Spent
<1>8. k \in Runners(e, s, n)' =>
        jobs'[j].event = e /\ jobs'[j].sub = s /\ jobs'[j].number = n
  BY <1>2 DEF Runners, JobOf
<1>9. k \in Runners(e, s, n)' => y \in Spent(e, s, n)'
  BY <1>3, <1>4, <1>5, <1>6, <1>8 DEF Spent, RunsOf
<1> QED BY <1>2, <1>7, <1>9

-----------------------------------------------------------------------------
(* What the steps that add rows add.                                       *)

LEMMA FirstAdds ==
    ASSUME CInv, NEW c \in Consumers, CreateFirst(c)
    PROVE  /\ Event(c) \in Events
           /\ \E s \in con[c].todo :
                /\ s \in Subs /\ sub[s] # "deleted"
                /\ createPendingAttempt(Event(c), s, 1)
                /\ con' = [con EXCEPT ![c].pc = "deliver", ![c].attempt = NewAttempt]
<1>1. TInv /\ ConOK(con[c])
  BY ConTyped DEF CInv, HInv
<1> QED BY <1>1 DEF CreateFirst, At, ConOK, ConsumerType, Event, TInv, TypeOK, ConsumersTypeOK

LEMMA ManualAdds ==
    ASSUME CInv, NEW m \in ManualRetries, CreateManual(m)
    PROVE  /\ Letter(m).event \in Events /\ Letter(m).sub \in Subs
           /\ createPendingAttempt(Letter(m).event, Letter(m).sub, MAX_ATTEMPTS + 1)
           /\ MAX_ATTEMPTS + 1 \in Nat
<1>1. manual[m].letter \in DOMAIN deadLetters
  BY LetterTyped DEF CInv, HInv, CreateManual, ManualOK
<1>2. Letter(m).total = MAX_ATTEMPTS
  BY <1>1 DEF CInv, Justified, LetterOK, Letter
<1> QED BY <1>2, LetterTyped, ScheduleAssumption DEF CInv, HInv, CreateManual, ManualNumber

\* The rows of a pair and number do not grow but by the steps that add one, and its
\* runners not but by a slot that takes a job.
LEMMA MadeStays ==
    ASSUME CInv, [Next]_vars, ~\E k \in Slots : Take(k), NEW e, NEW s, NEW n,
           AttemptsOf(e, s, n)' \subseteq AttemptsOf(e, s, n)
    PROVE  Made(e, s, n)' \in Nat /\ Made(e, s, n)' <= Made(e, s, n)
<1>0. TInv
  BY DEF CInv, HInv
<1>1. Runners(e, s, n)' \subseteq Runners(e, s, n)
  BY RunnersStay DEF Runners
<1> DEFINE A == AttemptsOf(e, s, n)
           R == Runners(e, s, n)
<1>2. /\ Cardinality(A) \in Nat /\ Cardinality(A') \in Nat
      /\ Cardinality(A') <= Cardinality(A)
  BY <1>0, TablesFinite, FewerOf
<1>3. /\ Cardinality(R) \in Nat /\ Cardinality(R') \in Nat
      /\ Cardinality(R') <= Cardinality(R)
  BY <1>1, RunnersFinite, FewerOf
<1>4. Made(e, s, n) = Cardinality(A) + Cardinality(R)
      /\ Made(e, s, n)' = Cardinality(A') + Cardinality(R')
  BY DEF Made
<1> HIDE DEF A, R
<1> QED BY <1>2, <1>3, <1>4

LEMMA TakesNothing ==
    ASSUME TInv, CreatesRow
    PROVE  ~\E k \in Slots : Take(k)
<1> SUFFICES ASSUME UNCHANGED attempts PROVE FALSE
  BY DEF Take
<1>1. ASSUME NEW f, NEW t, NEW m, createPendingAttempt(f, t, m) PROVE FALSE
  <2>1. attempts \in Seq(AttemptType)
    BY DEF TInv, TypeOK, TablesTypeOK
  <2>2. Len(attempts') = Len(attempts) + 1 /\ Len(attempts) \in Nat
    BY <1>1, <2>1 DEF createPendingAttempt
  <2> QED BY <2>2
<1> QED BY <1>1 DEF CreatesRow, CreateFirst, CreateNext, CreateManual

LEMMA RunsPaidStep ==
    ASSUME CInv, SlotsInv, BulkInv, [Next]_vars, NEW e \in Events, NEW s \in Subs,
           NEW n \in 1..MAX_ATTEMPTS
    PROVE  /\ Spent(e, s, n) \subseteq Spent(e, s, n)'
           /\ \/ \E c \in Consumers : CreateFirst(c)
              \/ Made(e, s, n)' <= Made(e, s, n)
              \/ /\ Made(e, s, n)' <= Made(e, s, n) + 1
                 /\ \E y : y \in Spent(e, s, n)' \ Spent(e, s, n)
<1>0. TInv /\ HistoryKept /\ MAX_ATTEMPTS \in Nat
  BY StepKeeps, ScheduleAssumption DEF CInv, HInv, Kept
<1>1. Spent(e, s, n) \subseteq Spent(e, s, n)'
  BY SpentGrows
<1>2. CASE ~CreatesRow /\ ~\E k \in Slots : Take(k)
  BY <1>0, <1>1, <1>2, SameRows, RowsCounted, MadeStays
<1>3. CASE \E m \in ManualRetries : CreateManual(m)
  <2>1. PICK m \in ManualRetries : CreateManual(m)
    BY <1>3
  <2>2. PICK f, t : f = Letter(m).event /\ t = Letter(m).sub
    OBVIOUS
  <2>3. f \in Events /\ t \in Subs /\ createPendingAttempt(f, t, MAX_ATTEMPTS + 1)
    BY <2>1, <2>2, ManualAdds
  <2>4. n # MAX_ATTEMPTS + 1 /\ MAX_ATTEMPTS + 1 \in Nat
    BY <1>0
  <2>5. AttemptsOf(e, s, n)' \subseteq AttemptsOf(e, s, n)
    BY <1>0, <2>3, <2>4, RowCounted
  <2>6. ~\E k \in Slots : Take(k)
    BY <1>0, <1>3, TakesNothing DEF CreatesRow
  <2> QED BY <1>1, <2>5, <2>6, MadeStays
<1>4. CASE \E k \in Slots : CreateNext(k)
  <2>1. PICK k \in Slots : CreateNext(k)
    BY <1>4
  <2>2. PICK f, t, m : f = JobOf(k).event /\ t = JobOf(k).sub /\ m = JobOf(k).number
    OBVIOUS
  <2>3. f \in Events /\ t \in Subs /\ m \in Nat /\ createPendingAttempt(f, t, m)
    BY <1>0, <2>1, <2>2, SlotTyped DEF CreateNext, SlotAt
  <2>4. CASE e = f /\ s = t /\ n = m
    <3>1. slot \in [Slots -> SlotType] /\ slot[k].pc = "create"
      BY <1>0, <2>1 DEF TInv, TypeOK, RetryTypeOK, CreateNext, SlotAt
    <3>2. k \in Runners(f, t, m)
      BY <2>2, <3>1 DEF Runners, NotCreated
    <3>3. k \notin Runners(f, t, m)'
      BY <2>1, <3>1 DEF Runners, NotCreated, CreateNext, SlotType
    <3>4. Runners(f, t, m)' \subseteq Runners(f, t, m) \ {k}
      <4>1. ~\E i \in Slots : Take(i)
        BY <1>0, <1>4, TakesNothing DEF CreatesRow
      <4> QED BY <3>3, <4>1, RunnersStay DEF Runners
    <3>5. AttemptsOf(f, t, m)' \subseteq AttemptsOf(f, t, m) \cup {NewAttempt}
      BY <1>0, <2>3, RowCounted
    <3> DEFINE A == AttemptsOf(f, t, m)
               R == Runners(f, t, m)
    <3>6. /\ Cardinality(A) \in Nat /\ Cardinality(A') \in Nat
          /\ Cardinality(A') <= Cardinality(A) + 1
      BY <1>0, <3>5, TablesFinite, OneMore
    <3>7. /\ Cardinality(R) \in Nat /\ Cardinality(R') \in Nat
          /\ Cardinality(R') + 1 <= Cardinality(R)
      BY <3>2, <3>4, RunnersFinite, OneLess
    <3>8. Made(f, t, m) = Cardinality(A) + Cardinality(R)
          /\ Made(f, t, m)' = Cardinality(A') + Cardinality(R')
      BY DEF Made
    <3> HIDE DEF A, R
    <3>9. Made(f, t, m)' <= Made(f, t, m)
      BY <3>6, <3>7, <3>8
    <3> QED BY <1>1, <2>4, <3>9
  <2>5. CASE ~(e = f /\ s = t /\ n = m)
    <3>1. AttemptsOf(e, s, n)' \subseteq AttemptsOf(e, s, n)
      BY <1>0, <2>3, <2>5, RowCounted
    <3>2. ~\E i \in Slots : Take(i)
      BY <1>0, <1>4, TakesNothing DEF CreatesRow
    <3> QED BY <1>1, <3>1, <3>2, MadeStays
  <2> QED BY <2>4, <2>5
<1>5. CASE \E k \in Slots : Take(k)
  <2>1. PICK k \in Slots : Take(k)
    BY <1>5
  <2>2. AttemptsOf(e, s, n)' = AttemptsOf(e, s, n)
    BY <1>0, <2>1, TakesNothing, SameRows, RowsCounted
  <2>3. \A i \in Slots : i # k => slot'[i] = slot[i]
    BY <2>1, TakeSpends
  <2>4. \A i \in Slots : Take(i) => i = k
    BY <1>0, <2>3 DEF Take, SlotAt, TInv, TypeOK, RetryTypeOK, Free
  <2>5. Runners(e, s, n)' \subseteq Runners(e, s, n) \cup {k}
    BY <2>4, RunnersStay DEF Runners
  <2> DEFINE A == AttemptsOf(e, s, n)
             R == Runners(e, s, n)
  <2>6. /\ Cardinality(R) \in Nat /\ Cardinality(R') \in Nat
        /\ Cardinality(R') <= Cardinality(R) + 1
        /\ k \notin R' => Cardinality(R') <= Cardinality(R)
    BY <2>5, RunnersFinite, OneMore, FewerOf
  <2>7. Cardinality(A) \in Nat /\ Cardinality(A') = Cardinality(A)
    BY <1>0, <2>2, TablesFinite, FS_CardinalityType
  <2>8. Made(e, s, n) = Cardinality(A) + Cardinality(R)
        /\ Made(e, s, n)' = Cardinality(A') + Cardinality(R')
    BY DEF Made
  <2>9. k \in R' => \E y : y \in Spent(e, s, n)' \ Spent(e, s, n)
    BY <2>1, TakeSpends
  <2> HIDE DEF A, R
  <2>10. /\ Made(e, s, n)' <= Made(e, s, n) + 1
         /\ k \notin R' => Made(e, s, n)' <= Made(e, s, n)
    BY <2>6, <2>7, <2>8
  <2> QED BY <1>1, <2>9, <2>10
<1>6. CASE \E c \in Consumers : CreateFirst(c)
  BY <1>1, <1>6
<1>7. \/ ~CreatesRow /\ ~\E k \in Slots : Take(k)
      \/ \E m \in ManualRetries : CreateManual(m)
      \/ \E k \in Slots : CreateNext(k)
      \/ \E k \in Slots : Take(k)
      \/ \E c \in Consumers : CreateFirst(c)
  BY DEF CreatesRow
<1> QED BY <1>2, <1>3, <1>4, <1>5, <1>6, <1>7

-----------------------------------------------------------------------------
(* A row that leaves the hands of its worker makes one job.                *)

ConHas(c) == con[c].pc \in InHand

SlotHas(k) == slot[k].pc \in HasRow

HeldRow(a) == \/ \E c \in Consumers : ConHas(c) /\ con[c].attempt = a
              \/ \E k \in Slots : SlotHas(k) /\ slot[k].attempt = a

HandsApart ==
    /\ \A c, d \in Consumers :
         ConHas(c) /\ ConHas(d) /\ con[c].attempt = con[d].attempt => c = d
    /\ \A k, i \in Slots :
         SlotHas(k) /\ SlotHas(i) /\ slot[k].attempt = slot[i].attempt => k = i
    /\ \A c \in Consumers, k \in Slots :
         ConHas(c) /\ SlotHas(k) => con[c].attempt # slot[k].attempt

\* The rows that no worker will look at again.
Released(e, s, n) == {a \in AttemptsOf(e, s, n) : ~HeldRow(a)}

JobsPaid ==
    \A e \in Events, s \in Subs : \A n \in 1..(MAX_ATTEMPTS - 1) :
        Cardinality(AnsweredOf(e, s, n + 1)) <= Cardinality(Released(e, s, n))

\* Nobody holds a row that he did not hold before, or just made.
HandsStep ==
    /\ \A c \in Consumers : ConHas(c)' =>
         \/ ConHas(c) /\ con'[c].attempt = con[c].attempt
         \/ CreateFirst(c) /\ con'[c].attempt = NewAttempt
    /\ \A k \in Slots : SlotHas(k)' =>
         \/ SlotHas(k) /\ slot'[k].attempt = slot[k].attempt
         \/ CreateNext(k) /\ slot'[k].attempt = NewAttempt

LEMMA HeldIsRow ==
    ASSUME CInv
    PROVE  /\ \A c \in Consumers : ConHas(c) => con[c].attempt \in DOMAIN attempts
           /\ \A k \in Slots : SlotHas(k) => slot[k].attempt \in DOMAIN attempts
           /\ NewAttempt \notin DOMAIN attempts
<1>1. \A c \in Consumers : ConHas(c) => con[c].attempt \in DOMAIN attempts
  BY ConTyped DEF CInv, HInv, ConHas, ConOK
<1>2. \A k \in Slots : SlotHas(k) => slot[k].attempt \in DOMAIN attempts
  BY DEF CInv, Agreement, SlotAgrees, SlotHas
<1>3. attempts \in Seq(AttemptType)
  BY DEF CInv, HInv, TInv, TypeOK, TablesTypeOK
<1>4. NewAttempt \notin DOMAIN attempts
  BY <1>3 DEF NewAttempt
<1> QED BY <1>1, <1>2, <1>4

LEMMA ConMoves ==
    ASSUME CInv, [Next]_vars, NEW c \in Consumers
    PROVE  con'[c] = con[c] \/ ConsumerStep(c) \/ ConsumerFault(c)
<1>0. con \in [Consumers -> ConsumerType]
  BY DEF CInv, HInv, TInv, TypeOK, ConsumersTypeOK
<1>1. ASSUME NEW d \in Consumers, d # c, ConsumerStep(d) \/ ConsumerFault(d)
      PROVE  con'[c] = con[c]
  BY <1>0, <1>1
  DEF ConsumerStep, ConsumerFault, Join, Fetch, LoadSubscriptions, CreateFirst, CreateRefused,
      Deliver, ResolveFirst, IndexFirst, ScheduleRetry, CommitOffset, Fenced,
      ScheduleUnanswered, consumerVars, Throw, CommitThrows, Crash, Evict
<1>2. CASE Produce \/ UNCHANGED consumerVars \/ UNCHANGED vars
  BY <1>2 DEF Produce, consumerVars, vars
<1> QED BY <1>1, <1>2 DEF Next, ConsumersNext

LEMMA HandsMove ==
    ASSUME CInv, [Next]_vars
    PROVE  HandsStep
<1>1. ASSUME NEW c \in Consumers, ConHas(c)'
      PROVE  \/ ConHas(c) /\ con'[c].attempt = con[c].attempt
             \/ CreateFirst(c) /\ con'[c].attempt = NewAttempt
  <2>0. con \in [Consumers -> ConsumerType] /\ con[c] \in ConsumerType
    BY DEF CInv, HInv, TInv, TypeOK, ConsumersTypeOK
  <2>1. CASE con'[c] = con[c] \/ Evict(c) \/ ScheduleUnanswered(c)
    BY <1>1, <2>1 DEF ConHas, Evict, ScheduleUnanswered, consumerVars
  <2>2. CASE CreateFirst(c)
    BY <2>0, <2>2 DEF CreateFirst
  <2>3. CASE Deliver(c) \/ ResolveFirst(c)
    BY <2>0, <2>3 DEF Deliver, ResolveFirst, At, ConHas, InHand, ConsumerType
  <2>4. CASE IndexFirst(c)
    <3>1. CASE con' = [con EXCEPT ![c] = DoneWithOne(c)]
      BY <1>1, <2>0, <3>1 DEF DoneWithOne, Out, ConHas, InHand
    <3>2. CASE con' = [con EXCEPT ![c].pc = "retry"]
      BY <2>0, <2>4, <3>2 DEF IndexFirst, At, ConHas, InHand, ConsumerType
    <3> QED BY <2>4, <3>1, <3>2 DEF IndexFirst
  <2>5. CASE ScheduleRetry(c)
    BY <1>1, <2>0, <2>5 DEF ScheduleRetry, DoneWithOne, Out, ConHas, InHand
  <2>6. CASE Fetch(c) \/ LoadSubscriptions(c)
    BY <1>1, <2>0, <2>6 DEF Fetch, LoadSubscriptions, ConHas, InHand, ConsumerType
  <2>7. CASE \/ Join(c) \/ CreateRefused(c) \/ CommitOffset(c) \/ Fenced(c) \/ Throw(c)
             \/ CommitThrows(c) \/ Crash(c)
    <3>1. con'[c].pc \in {"poll", "out"}
      <4>1. CASE Join(c) \/ CreateRefused(c)
        BY <2>0, <4>1 DEF Join, CreateRefused, Polling, Out
      <4>2. CASE CommitOffset(c) \/ Throw(c) \/ CommitThrows(c)
        BY <2>0, <4>2 DEF CommitOffset, Throw, CommitThrows, Polling, Out
      <4>3. CASE Fenced(c) \/ Crash(c)
        BY <2>0, <4>3 DEF Fenced, Crash, Out
      <4> QED BY <2>7, <4>1, <4>2, <4>3
    <3> QED BY <1>1, <3>1 DEF ConHas, InHand
  <2> QED BY <2>1, <2>2, <2>3, <2>4, <2>5, <2>6, <2>7, ConMoves
          DEF ConsumerStep, ConsumerFault
<1>2. ASSUME NEW k \in Slots, SlotHas(k)'
      PROVE  \/ SlotHas(k) /\ slot'[k].attempt = slot[k].attempt
             \/ CreateNext(k) /\ slot'[k].attempt = NewAttempt
  <2>0. slot \in [Slots -> SlotType] /\ slot[k] \in SlotType
    BY DEF CInv, HInv, TInv, TypeOK, RetryTypeOK
  <2>1. CASE slot'[k] = slot[k] \/ slot'[k] = [slot[k] EXCEPT !.locked = FALSE]
    BY <1>2, <2>0, <2>1 DEF SlotHas, SlotType
  <2>2. CASE CreateNext(k)
    BY <2>0, <2>2 DEF CreateNext
  <2>3. CASE Redeliver(k) \/ ResolveNext(k)
    <3>1. SlotHas(k)
      BY <2>3 DEF Redeliver, ResolveNext, SlotAt, SlotHas, HasRow
    <3>2. slot'[k].attempt = slot[k].attempt
      <4>1. CASE CreateNext(k)
        BY <2>0, <4>1, <2>3 DEF CreateNext, Redeliver, ResolveNext, SlotAt
      <4> QED BY <2>3, <4>1, SlotKeepsJob
    <3> QED BY <3>1, <3>2
  <2>4. CASE IndexNext(k)
    BY <2>0, <2>4 DEF IndexNext, SlotAt, SlotHas, HasRow, SlotType
  <2>5. CASE Load(k) \/ Bury(k) \/ RetryAgain(k)
    <3>1. PICK pc \in {"create", "return"} : slot' = [slot EXCEPT ![k].pc = pc]
      BY <2>5 DEF Load, Bury, RetryAgain
    <3> QED BY <1>2, <2>0, <3>1 DEF SlotHas, HasRow, SlotType
  <2>6. CASE \/ slot'[k] = Free \/ Take(k) \/ NextRefused(k) \/ IndexUnbound(k) \/ Complete(k)
    <3>1. slot'[k].pc \in {"idle", "load"}
      <4>1. CASE Take(k)
        BY <2>0, <4>1 DEF Take, Free
      <4>2. CASE slot'[k] = Free \/ NextRefused(k) \/ IndexUnbound(k) \/ Complete(k)
        BY <2>0, <4>2 DEF NextRefused, IndexUnbound, Complete, JobFails, Free
      <4> QED BY <2>6, <4>1, <4>2
    <3> QED BY <1>2, <3>1 DEF SlotHas, HasRow
  <2> QED BY <2>1, <2>2, <2>3, <2>4, <2>5, <2>6, SlotMoves DEF SlotStep
<1> QED BY <1>1, <1>2 DEF HandsStep

LEMMA HandsApartStep ==
    ASSUME CInv, HandsApart, [Next]_vars
    PROVE  HandsApart'
<1>0. con \in [Consumers -> ConsumerType] /\ slot \in [Slots -> SlotType]
  BY DEF CInv, HInv, TInv, TypeOK, ConsumersTypeOK, RetryTypeOK
<1>1. \A c, d \in Consumers : CreateFirst(c) /\ d # c => con'[d] = con[d]
  BY <1>0 DEF CreateFirst
<1>2. \A k, i \in Slots : CreateNext(k) /\ i # k => slot'[i] = slot[i]
  BY <1>0 DEF CreateNext
<1>3. ASSUME NEW c \in Consumers, NEW d \in Consumers, ConHas(c)', ConHas(d)',
             con'[c].attempt = con'[d].attempt
      PROVE  c = d
  <2>1. CASE ConHas(c) /\ con'[c].attempt = con[c].attempt
             /\ ConHas(d) /\ con'[d].attempt = con[d].attempt
    BY <1>3, <2>1 DEF HandsApart
  <2>2. CASE CreateFirst(c) /\ con'[c].attempt = NewAttempt
    BY <1>1, <1>3, <2>2, HandsMove, HeldIsRow DEF ConHas
  <2>3. CASE CreateFirst(d) /\ con'[d].attempt = NewAttempt
    BY <1>1, <1>3, <2>3, HandsMove, HeldIsRow DEF ConHas
  <2> QED BY <1>3, <2>1, <2>2, <2>3, HandsMove DEF HandsStep
<1>4. ASSUME NEW k \in Slots, NEW i \in Slots, SlotHas(k)', SlotHas(i)',
             slot'[k].attempt = slot'[i].attempt
      PROVE  k = i
  <2>1. CASE SlotHas(k) /\ slot'[k].attempt = slot[k].attempt
             /\ SlotHas(i) /\ slot'[i].attempt = slot[i].attempt
    BY <1>4, <2>1 DEF HandsApart
  <2>2. CASE CreateNext(k) /\ slot'[k].attempt = NewAttempt
    BY <1>2, <1>4, <2>2, HandsMove, HeldIsRow DEF SlotHas
  <2>3. CASE CreateNext(i) /\ slot'[i].attempt = NewAttempt
    BY <1>2, <1>4, <2>3, HandsMove, HeldIsRow DEF SlotHas
  <2> QED BY <1>4, <2>1, <2>2, <2>3, HandsMove DEF HandsStep
<1>5. ASSUME NEW c \in Consumers, NEW k \in Slots, ConHas(c)', SlotHas(k)',
             con'[c].attempt = slot'[k].attempt
      PROVE  FALSE
  <2>1. CASE ConHas(c) /\ con'[c].attempt = con[c].attempt
             /\ SlotHas(k) /\ slot'[k].attempt = slot[k].attempt
    BY <1>5, <2>1 DEF HandsApart
  <2>2. CASE ConHas(c) /\ con'[c].attempt = con[c].attempt /\ slot'[k].attempt = NewAttempt
    BY <1>5, <2>2, HeldIsRow
  <2>3. CASE SlotHas(k) /\ slot'[k].attempt = slot[k].attempt /\ con'[c].attempt = NewAttempt
    BY <1>5, <2>3, HeldIsRow
  <2>4. CASE CreateFirst(c) /\ CreateNext(k)
    <3>1. slot' # slot
      BY <1>0, <2>4 DEF CreateNext, SlotAt, SlotType
    <3>2. con' # con
      BY <1>0, <2>4 DEF CreateFirst, At, ConsumerType
    <3> QED BY <3>1, <3>2 DEF Next, vars, consumerVars, retryVars
  <2> QED BY <1>5, <2>1, <2>2, <2>3, <2>4, HandsMove DEF HandsStep
<1> QED BY <1>3, <1>4, <1>5 DEF HandsApart

\* A row that is released stays released.
LEMMA ReleasedGrows ==
    ASSUME CInv, [Next]_vars, NEW e, NEW s, NEW n
    PROVE  Released(e, s, n) \subseteq Released(e, s, n)'
<1>1. HistoryKept
  BY StepKeeps DEF CInv, Kept
<1>2. \A a \in DOMAIN attempts : HeldRow(a)' => HeldRow(a)
  BY HandsMove, HeldIsRow DEF HandsStep, HeldRow
<1>3. AttemptsOf(e, s, n) \subseteq DOMAIN attempts
  BY DEF AttemptsOf
<1> QED BY <1>1, <1>2, <1>3, RowsCounted DEF Released

\* A worker that queues a job releases the row of the attempt before it.
LEMMA ScheduleReleases ==
    ASSUME CInv, HandsApart, [Next]_vars, NEW c \in Consumers, ScheduleRetry(c),
           NEW e, e = Event(c), NEW s, s = attempts[Attempt(c)].sub
    PROVE  \E y : y \in Released(e, s, 1)' \ Released(e, s, 1)
<1>0. con \in [Consumers -> ConsumerType]
  BY DEF CInv, HInv, TInv, TypeOK, ConsumersTypeOK
<1>1. PICK a : a = con[c].attempt
  OBVIOUS
<1>2. ConHas(c) /\ a \in AttemptsOf(e, s, 1) /\ UNCHANGED attempts /\ UNCHANGED slot
  <2>0. con' # con
    <3>1. PICK x : x = DoneWithOne(c) /\ con' = [con EXCEPT ![c] = x]
      BY DEF ScheduleRetry
    <3>2. x.pc \in {"commit", "create"}
      BY <3>1 DEF DoneWithOne, Out
    <3>3. con'[c] = x
      BY <1>0, <3>1
    <3> QED BY <3>2, <3>3 DEF ScheduleRetry, At
  <2>1. UNCHANGED slot
    BY <2>0 DEF Next, retryVars, vars, consumerVars
  <2> QED BY <1>1, <2>1, ScheduleAdds, ConsumerRow DEF Schedules, ConHas, Attempt
<1>3. HeldRow(a)
  BY <1>1, <1>2 DEF HeldRow
<1>4. /\ \A d \in Consumers : d # c => con'[d] = con[d]
      /\ ~ConHas(c)'
  <2>1. PICK x : x = DoneWithOne(c) /\ con' = [con EXCEPT ![c] = x]
    BY DEF ScheduleRetry
  <2>2. x.pc \in {"commit", "create"}
    BY <2>1 DEF DoneWithOne, Out
  <2> QED BY <1>0, <2>1, <2>2 DEF ConHas, InHand
<1>5. ~HeldRow(a)'
  BY <1>1, <1>2, <1>4 DEF HeldRow, HandsApart, ConHas, SlotHas
<1>6. a \in AttemptsOf(e, s, 1)'
  BY <1>2 DEF AttemptsOf
<1> QED BY <1>3, <1>5, <1>6 DEF Released

LEMMA AgainReleases ==
    ASSUME CInv, HandsApart, [Next]_vars, NEW k \in Slots, RetryAgain(k),
           NEW e, e = JobOf(k).event, NEW s, s = JobOf(k).sub, NEW n, n = JobOf(k).number
    PROVE  \E y : y \in Released(e, s, n)' \ Released(e, s, n)
<1>0. slot \in [Slots -> SlotType] /\ slot[k] \in SlotType
  BY DEF CInv, HInv, TInv, TypeOK, RetryTypeOK
<1>1. PICK a : a = slot[k].attempt
  OBVIOUS
<1>2. SlotHas(k) /\ a \in AttemptsOf(e, s, n) /\ UNCHANGED attempts /\ UNCHANGED con
  <2>1. slot' # slot
    BY <1>0 DEF RetryAgain, SlotAt, SlotType
  <2>2. UNCHANGED con
    BY <2>1 DEF Next, retryVars, vars, consumerVars
  <2> QED BY <1>1, <2>2, AgainAdds, SlotRow DEF Follows, SlotHas
<1>3. HeldRow(a)
  BY <1>1, <1>2 DEF HeldRow
<1>4. /\ \A i \in Slots : i # k => slot'[i] = slot[i]
      /\ ~SlotHas(k)'
  BY <1>0 DEF RetryAgain, SlotHas, HasRow, SlotType
<1>5. ~HeldRow(a)'
  BY <1>1, <1>2, <1>4 DEF HeldRow, HandsApart, ConHas, SlotHas
<1>6. a \in AttemptsOf(e, s, n)'
  BY <1>2 DEF AttemptsOf
<1> QED BY <1>3, <1>5, <1>6 DEF Released

LEMMA AnswersStay ==
    ASSUME CInv, SlotsInv, BulkInv, [Next]_vars
    PROVE  AnswersKept
  BY SlotsStep DEF JobsMove, AnswersKept

LEMMA JobsPaidStep ==
    ASSUME CInv, SlotsInv, BulkInv, HandsApart, [Next]_vars, NEW e \in Events,
           NEW s \in Subs, NEW n \in 1..(MAX_ATTEMPTS - 1)
    PROVE  \/ AnsweredOf(e, s, n + 1)' \subseteq AnsweredOf(e, s, n + 1)
           \/ \E x, y : /\ AnsweredOf(e, s, n + 1)' \subseteq AnsweredOf(e, s, n + 1) \cup {x}
                        /\ y \in Released(e, s, n)' \ Released(e, s, n)
<1>0. TInv /\ JobsKept /\ AnswersKept /\ MAX_ATTEMPTS \in Nat /\ n \in Nat
  BY AnswersStay, StepKeeps, ScheduleAssumption DEF CInv, HInv, Kept
<1>1. CASE ~AddsJob
  BY <1>0, <1>1, SameJobs, JobsCounted
<1>2. CASE \E r \in Replays : AddBulk(r) \/ BulkUnanswered(r)
  <2>1. \A j \in DOMAIN jobs' \ DOMAIN jobs : jobs'[j].number = 1
    BY <1>2, BulkAdds
  <2>2. n + 1 # 1
    BY <1>0
  <2> QED BY <1>0, <2>1, <2>2 DEF AnsweredOf, JobsOf, Unanswered, JobsKept, AnswersKept
<1>3. ASSUME NEW f \in Events, NEW t \in Subs, NEW m \in Nat, NEW delay \in Nat,
             TakesEffect(f, t, m + 1, delay),
             \/ addRetryUnanswered(f, t, m + 1, delay)
             \/ \E y : y \in Released(f, t, m)' \ Released(f, t, m)
      PROVE  \/ AnsweredOf(e, s, n + 1)' \subseteq AnsweredOf(e, s, n + 1)
             \/ \E x, y : /\ AnsweredOf(e, s, n + 1)' \subseteq AnsweredOf(e, s, n + 1) \cup {x}
                          /\ y \in Released(e, s, n)' \ Released(e, s, n)
  <2>0. m + 1 \in Nat
    OBVIOUS
  <2>1. CASE f = e /\ t = s /\ m = n
    <3>1. AnsweredOf(f, t, m + 1)' \subseteq AnsweredOf(f, t, m + 1) \cup {Len(jobs) + 1}
      BY <1>0, <1>3, <2>0, AnsweredCounted
    <3>2. addRetryUnanswered(f, t, m + 1, delay) =>
            AnsweredOf(f, t, m + 1)' \subseteq AnsweredOf(f, t, m + 1)
      BY <1>0, <1>3, <2>0, AnsweredCounted
    <3> QED BY <1>3, <2>1, <3>1, <3>2
  <2>2. CASE ~(f = e /\ t = s /\ m = n)
    <3>1. ~(e = f /\ s = t /\ n + 1 = m + 1)
      BY <1>0, <2>2
    <3> QED BY <1>0, <1>3, <2>0, <3>1, AnsweredCounted
  <2> QED BY <2>1, <2>2
<1>4. ASSUME NEW c \in Consumers, Schedules(c)
      PROVE  \/ AnsweredOf(e, s, n + 1)' \subseteq AnsweredOf(e, s, n + 1)
             \/ \E x, y : /\ AnsweredOf(e, s, n + 1)' \subseteq AnsweredOf(e, s, n + 1) \cup {x}
                          /\ y \in Released(e, s, n)' \ Released(e, s, n)
  <2>1. PICK f, t : f = Event(c) /\ t = attempts[Attempt(c)].sub
    OBVIOUS
  <2>2. \/ addRetryUnanswered(f, t, 1 + 1, computeRetryDelay(1))
        \/ \E y : y \in Released(f, t, 1)' \ Released(f, t, 1)
    BY <1>4, <2>1, ScheduleReleases DEF Schedules, ScheduleUnanswered
  <2>3. f \in Events /\ t \in Subs /\ TakesEffect(f, t, 1 + 1, computeRetryDelay(1))
        /\ computeRetryDelay(1) \in Nat
    BY <1>4, <2>1, ScheduleAdds
  <2> QED BY <1>3, <2>2, <2>3
<1>5. ASSUME NEW k \in Slots, Follows(k)
      PROVE  \/ AnsweredOf(e, s, n + 1)' \subseteq AnsweredOf(e, s, n + 1)
             \/ \E x, y : /\ AnsweredOf(e, s, n + 1)' \subseteq AnsweredOf(e, s, n + 1) \cup {x}
                          /\ y \in Released(e, s, n)' \ Released(e, s, n)
  <2>1. PICK f, t, m : f = JobOf(k).event /\ t = JobOf(k).sub /\ m = JobOf(k).number
    OBVIOUS
  <2>2. \/ addRetryUnanswered(f, t, m + 1, computeRetryDelay(m))
        \/ \E y : y \in Released(f, t, m)' \ Released(f, t, m)
    BY <1>5, <2>1, AgainReleases DEF Follows, AgainUnanswered
  <2>3. f \in Events /\ t \in Subs /\ m \in Nat
        /\ TakesEffect(f, t, m + 1, computeRetryDelay(m))
        /\ computeRetryDelay(m) \in Nat
    BY <1>5, <2>1, AgainAdds
  <2> QED BY <1>3, <2>2, <2>3
<1> QED BY <1>1, <1>2, <1>4, <1>5 DEF AddsJob, AddsUnanswered, Schedules, Follows

-----------------------------------------------------------------------------
(* Requests: a replay queues an event once, a manual retry makes one row.  *)

DoneReplays == {r \in Replays : replay[r].pc = "done"}

SentRetries == {m \in ManualRetries : manual[m].pc \notin {"unsent", "create"}}

ReplaysPaid ==
    \A e \in Events, s \in Subs :
        Cardinality(AnsweredOf(e, s, 1)) <= Cardinality(DoneReplays)

ManualPaid ==
    \A e \in Events, s \in Subs :
        Cardinality(AttemptsOf(e, s, MAX_ATTEMPTS + 1)) <= Cardinality(SentRetries)

LEMMA RequestsFinite ==
    /\ IsFiniteSet(DoneReplays) /\ Cardinality(DoneReplays) <= Cardinality(Replays)
    /\ IsFiniteSet(SentRetries) /\ Cardinality(SentRetries) <= Cardinality(ManualRetries)
<1>1. DoneReplays \subseteq Replays /\ SentRetries \subseteq ManualRetries
  BY DEF DoneReplays, SentRetries
<1> QED BY <1>1, FewerOf, RequestAssumption

LEMMA ReplaysPaidStep ==
    ASSUME CInv, SlotsInv, BulkInv, [Next]_vars, NEW e \in Events, NEW s \in Subs
    PROVE  /\ DoneReplays \subseteq DoneReplays'
           /\ \/ AnsweredOf(e, s, 1)' \subseteq AnsweredOf(e, s, 1)
              \/ \E x, y : /\ AnsweredOf(e, s, 1)' \subseteq AnsweredOf(e, s, 1) \cup {x}
                           /\ y \in DoneReplays' \ DoneReplays
<1>0. TInv /\ JobsKept /\ AnswersKept /\ ReplaysKept
  BY AnswersStay, StepSolid DEF CInv, HInv, Solid, Kept
<1>1. DoneReplays \subseteq DoneReplays'
  <2>1. replay \in [Replays -> ReplayType]
    BY <1>0 DEF TInv, TypeOK, RedeliveryTypeOK
  <2>2. ASSUME NEW r \in Replays, replaySubscription(r)
        PROVE  \A q \in Replays : replay[q].pc = "done" => replay'[q] = replay[q]
    BY <2>1, <2>2
    DEF replaySubscription, ReadEvents, AddBulk, BulkUnanswered, ReplayFails, requestVars
  <2>3. UNCHANGED replay \/ \E r \in Replays : replaySubscription(r)
    BY DEF Next, vars, requestVars, RedeliveryNext, retryDeadLetter, LoadLetter, CreateManual,
           DeliverManual, ResolveLetter, RecordFailure, ManualFails
  <2> QED BY <2>2, <2>3 DEF DoneReplays
<1>2. CASE ~AddsJob
  BY <1>0, <1>1, <1>2, SameJobs, JobsCounted
<1>3. CASE \E r \in Replays : AddBulk(r)
  <2>1. PICK r \in Replays : AddBulk(r)
    BY <1>3
  <2>2. r \in DoneReplays' \ DoneReplays
    <3>1. replay \in [Replays -> ReplayType]
      BY <1>0 DEF TInv, TypeOK, RedeliveryTypeOK
    <3> QED BY <2>1, <3>1 DEF AddBulk, DoneReplays
  <2>3. \A j, i \in DOMAIN jobs' \ DOMAIN jobs : jobs'[i].event = jobs'[j].event => i = j
    BY <2>1, BulkAdds
  <2>4. \A j \in AnsweredOf(e, s, 1)' \ AnsweredOf(e, s, 1) :
           j \in DOMAIN jobs' \ DOMAIN jobs /\ jobs'[j].event = e
    BY <1>0 DEF AnsweredOf, JobsOf, Unanswered, JobsKept, AnswersKept
  <2>5. \E x : AnsweredOf(e, s, 1)' \subseteq AnsweredOf(e, s, 1) \cup {x}
    BY <2>3, <2>4
  <2> QED BY <1>1, <2>2, <2>5
<1>4. CASE \E r \in Replays : BulkUnanswered(r)
  <2>1. \A j \in DOMAIN jobs' \ DOMAIN jobs : ~jobs'[j].answered
    BY <1>4, BulkAdds
  <2>2. AnsweredOf(e, s, 1)' \subseteq AnsweredOf(e, s, 1)
    BY <1>0, <2>1 DEF AnsweredOf, JobsOf, Unanswered, JobsKept, AnswersKept
  <2> QED BY <1>1, <2>2
<1>5. ASSUME NEW f \in Events, NEW t \in Subs, NEW m \in Nat, m # 1, NEW delay \in Nat,
             TakesEffect(f, t, m, delay)
      PROVE  AnsweredOf(e, s, 1)' \subseteq AnsweredOf(e, s, 1)
  BY <1>0, <1>5, AnsweredCounted
<1>6. ASSUME NEW c \in Consumers, Schedules(c)
      PROVE  AnsweredOf(e, s, 1)' \subseteq AnsweredOf(e, s, 1)
  <2>1. PICK f, t, delay : /\ f = Event(c) /\ t = attempts[Attempt(c)].sub
                           /\ delay = computeRetryDelay(1)
    OBVIOUS
  <2>2. f \in Events /\ t \in Subs /\ delay \in Nat /\ TakesEffect(f, t, 2, delay)
    BY <1>6, <2>1, ScheduleAdds
  <2> QED BY <1>5, <2>2
<1>7. ASSUME NEW k \in Slots, Follows(k)
      PROVE  AnsweredOf(e, s, 1)' \subseteq AnsweredOf(e, s, 1)
  <2>1. PICK f, t, m, delay : /\ f = JobOf(k).event /\ t = JobOf(k).sub
                              /\ m = JobOf(k).number + 1
                              /\ delay = computeRetryDelay(JobOf(k).number)
    OBVIOUS
  <2>2. f \in Events /\ t \in Subs /\ delay \in Nat /\ TakesEffect(f, t, m, delay)
    BY <1>7, <2>1, AgainAdds
  <2>3. m \in Nat /\ m # 1
    <3>1. JobOf(k).number \in 1..MAX_ATTEMPTS
      BY <1>7, AgainAdds
    <3> QED BY <2>1, <3>1, ScheduleAssumption
  <2> QED BY <1>5, <2>2, <2>3
<1> QED BY <1>1, <1>2, <1>3, <1>4, <1>6, <1>7 DEF AddsJob, AddsUnanswered, Schedules, Follows

LEMMA ManualPaidStep ==
    ASSUME CInv, [Next]_vars, NEW e \in Events, NEW s \in Subs
    PROVE  /\ SentRetries \subseteq SentRetries'
           /\ \/ /\ AttemptsOf(e, s, MAX_ATTEMPTS + 1)'
                      \subseteq AttemptsOf(e, s, MAX_ATTEMPTS + 1)
              \/ \E x, y : /\ AttemptsOf(e, s, MAX_ATTEMPTS + 1)'
                                \subseteq AttemptsOf(e, s, MAX_ATTEMPTS + 1) \cup {x}
                           /\ y \in SentRetries' \ SentRetries
<1>0. TInv /\ HistoryKept /\ MAX_ATTEMPTS \in Nat \ {0}
      /\ manual \in [ManualRetries -> ManualType]
  BY StepKeeps, ScheduleAssumption DEF CInv, HInv, Kept, TInv, TypeOK, RedeliveryTypeOK
<1>1. SentRetries \subseteq SentRetries'
  <2>1. ASSUME NEW m \in ManualRetries, retryDeadLetter(m)
        PROVE  SentRetries \subseteq SentRetries'
    <3>1. \A i \in ManualRetries : i # m => manual'[i] = manual[i]
      BY <1>0, <2>1
      DEF retryDeadLetter, LoadLetter, CreateManual, DeliverManual, ResolveLetter,
          RecordFailure, ManualFails
    <3>2. manual[m].pc \notin {"unsent", "create"} => manual'[m].pc \notin {"unsent", "create"}
      BY <1>0, <2>1
      DEF retryDeadLetter, LoadLetter, CreateManual, DeliverManual, ResolveLetter,
          RecordFailure, ManualFails, ManualType
    <3> QED BY <3>1, <3>2 DEF SentRetries
  <2>2. CASE UNCHANGED manual
    BY <2>2 DEF SentRetries
  <2> QED BY <2>1, <2>2
          DEF Next, vars, requestVars, RedeliveryNext, replaySubscription, ReadEvents,
              AddBulk, BulkUnanswered, ReplayFails
<1>2. CASE ~CreatesRow
  BY <1>0, <1>1, <1>2, SameRows, RowsCounted
<1>3. CASE \E m \in ManualRetries : CreateManual(m)
  <2>1. PICK m \in ManualRetries : CreateManual(m)
    BY <1>3
  <2>2. m \in SentRetries' \ SentRetries
    BY <1>0, <2>1 DEF CreateManual, SentRetries, ManualType
  <2>3. PICK f, t : f = Letter(m).event /\ t = Letter(m).sub
    OBVIOUS
  <2>4. f \in Events /\ t \in Subs /\ createPendingAttempt(f, t, MAX_ATTEMPTS + 1)
    BY <2>1, <2>3, ManualAdds
  <2>5. AttemptsOf(e, s, MAX_ATTEMPTS + 1)'
           \subseteq AttemptsOf(e, s, MAX_ATTEMPTS + 1) \cup {NewAttempt}
    BY <1>0, <2>4, RowCounted
  <2> QED BY <1>1, <2>2, <2>5
<1>4. ASSUME NEW f \in Events, NEW t \in Subs, NEW n \in 1..MAX_ATTEMPTS,
             createPendingAttempt(f, t, n)
      PROVE  AttemptsOf(e, s, MAX_ATTEMPTS + 1)' \subseteq AttemptsOf(e, s, MAX_ATTEMPTS + 1)
  <2>1. n # MAX_ATTEMPTS + 1 /\ n \in Nat
    BY <1>0
  <2> QED BY <1>0, <1>4, <2>1, RowCounted
<1>5. ASSUME NEW k \in Slots, CreateNext(k)
      PROVE  AttemptsOf(e, s, MAX_ATTEMPTS + 1)' \subseteq AttemptsOf(e, s, MAX_ATTEMPTS + 1)
  <2>1. PICK f, t, n : f = JobOf(k).event /\ t = JobOf(k).sub /\ n = JobOf(k).number
    OBVIOUS
  <2>2. f \in Events /\ t \in Subs /\ n \in 1..MAX_ATTEMPTS /\ createPendingAttempt(f, t, n)
    BY <1>5, <2>1, SlotJob DEF CreateNext, SlotAt
  <2> QED BY <1>4, <2>2
<1>6. ASSUME NEW c \in Consumers, CreateFirst(c)
      PROVE  AttemptsOf(e, s, MAX_ATTEMPTS + 1)' \subseteq AttemptsOf(e, s, MAX_ATTEMPTS + 1)
  <2>0. PICK f : f = Event(c)
    OBVIOUS
  <2>1. PICK t : t \in Subs /\ createPendingAttempt(f, t, 1)
    BY <1>6, <2>0, FirstAdds
  <2>2. f \in Events
    BY <1>6, <2>0, FirstAdds
  <2>3. 1 \in 1..MAX_ATTEMPTS
    BY <1>0
  <2> QED BY <1>4, <2>1, <2>2, <2>3
<1> QED BY <1>1, <1>2, <1>3, <1>5, <1>6 DEF CreatesRow

-----------------------------------------------------------------------------
(* The invariant of the reruns.                                            *)

RInv == /\ CInv /\ SlotsInv /\ BulkInv /\ HandsApart
        /\ RunsPaid /\ JobsPaid /\ ReplaysPaid /\ ManualPaid

\* The first attempts are not runs of a later number.
LEMMA FirstIsFirst ==
    ASSUME CInv, NEW c \in Consumers, CreateFirst(c), NEW e \in Events, NEW s \in Subs,
           NEW n \in 2..MAX_ATTEMPTS
    PROVE  AttemptsOf(e, s, n)' = AttemptsOf(e, s, n)
<1>1. TInv /\ n # 1
  BY ScheduleAssumption DEF CInv, HInv
<1>2. PICK f, t : f = Event(c) /\ t \in Subs /\ createPendingAttempt(f, t, 1)
  BY FirstAdds
<1>3. f \in Events
  BY <1>2, FirstAdds
<1> QED BY <1>1, <1>2, <1>3, RowCounted

LEMMA RInvStep == RInv /\ [Next]_vars => RInv'
<1> SUFFICES ASSUME RInv, [Next]_vars PROVE RInv'
  OBVIOUS
<1>0. CInv /\ SlotsInv /\ BulkInv /\ HandsApart
  BY DEF RInv
<1>1. CInv' /\ SlotsInv' /\ BulkInv' /\ HandsApart'
  BY <1>0, CInvStep, SlotsStep, BulkStep, HandsApartStep
<1>2. TInv /\ TInv'
  BY <1>0, <1>1 DEF CInv, HInv
<1>3. RunsPaid'
  <2>1. ASSUME NEW e \in Events, NEW s \in Subs, NEW n \in 2..MAX_ATTEMPTS
        PROVE  Made(e, s, n)' <= Cardinality(Spent(e, s, n)')
    <3>1. n \in 1..MAX_ATTEMPTS
      BY ScheduleAssumption
    <3>2. \/ Made(e, s, n)' <= Made(e, s, n)
          \/ /\ Made(e, s, n)' <= Made(e, s, n) + 1
             /\ \E y : y \in Spent(e, s, n)' \ Spent(e, s, n)
      <4>1. CASE \E c \in Consumers : CreateFirst(c)
        <5>1. AttemptsOf(e, s, n)' \subseteq AttemptsOf(e, s, n)
          BY <1>0, <4>1, FirstIsFirst
        <5> QED BY <1>0, <1>2, <4>1, <5>1, TakesNothing, MadeStays DEF CreatesRow
      <4> QED BY <1>0, <3>1, <4>1, RunsPaidStep
    <3>3. Spent(e, s, n) \subseteq Spent(e, s, n)'
      BY <1>0, SpentGrows
    <3>4. Made(e, s, n) \in Nat /\ Made(e, s, n)' \in Nat /\ IsFiniteSet(Spent(e, s, n)')
      BY <1>2, SpentFinite, CountableNext DEF Countable
    <3>5. Made(e, s, n) <= Cardinality(Spent(e, s, n))
      BY DEF RInv, RunsPaid
    <3> QED BY <3>2, <3>3, <3>4, <3>5, PaidOnce
  <2> QED BY <2>1 DEF RunsPaid
<1>4. JobsPaid'
  <2>1. ASSUME NEW e \in Events, NEW s \in Subs, NEW n \in 1..(MAX_ATTEMPTS - 1)
        PROVE  Cardinality(AnsweredOf(e, s, n + 1)') <= Cardinality(Released(e, s, n)')
    <3>1. Released(e, s, n) \subseteq Released(e, s, n)'
      BY <1>0, ReleasedGrows
    <3>2. IsFiniteSet(AnsweredOf(e, s, n + 1)) /\ IsFiniteSet(Released(e, s, n)')
      <4>1. Released(e, s, n)' \subseteq AttemptsOf(e, s, n)'
            /\ AnsweredOf(e, s, n + 1) \subseteq JobsOf(e, s, n + 1)
        BY DEF Released, AnsweredOf
      <4>2. IsFiniteSet(AttemptsOf(e, s, n)')
        BY <1>2, CountableNext DEF Countable
      <4> QED BY <1>2, <4>1, <4>2, TablesFinite, FewerOf
    <3>3. Cardinality(AnsweredOf(e, s, n + 1)) <= Cardinality(Released(e, s, n))
      BY DEF RInv, JobsPaid
    <3> QED BY <1>0, <3>1, <3>2, <3>3, JobsPaidStep, PaidStep
  <2> QED BY <2>1 DEF JobsPaid
<1>5. ReplaysPaid'
  <2>1. ASSUME NEW e \in Events, NEW s \in Subs
        PROVE  Cardinality(AnsweredOf(e, s, 1)') <= Cardinality(DoneReplays')
    <3>1. IsFiniteSet(AnsweredOf(e, s, 1)) /\ IsFiniteSet(DoneReplays')
      <4>1. DoneReplays' \subseteq Replays /\ AnsweredOf(e, s, 1) \subseteq JobsOf(e, s, 1)
        BY DEF DoneReplays, AnsweredOf
      <4> QED BY <1>2, <4>1, TablesFinite, FewerOf, RequestAssumption
    <3>2. Cardinality(AnsweredOf(e, s, 1)) <= Cardinality(DoneReplays)
      BY DEF RInv, ReplaysPaid
    <3> QED BY <1>0, <3>1, <3>2, ReplaysPaidStep, PaidStep
  <2> QED BY <2>1 DEF ReplaysPaid
<1>6. ManualPaid'
  <2>1. ASSUME NEW e \in Events, NEW s \in Subs
        PROVE  Cardinality(AttemptsOf(e, s, MAX_ATTEMPTS + 1)') <= Cardinality(SentRetries')
    <3>1. IsFiniteSet(AttemptsOf(e, s, MAX_ATTEMPTS + 1)) /\ IsFiniteSet(SentRetries')
      <4>1. SentRetries' \subseteq ManualRetries
        BY DEF SentRetries
      <4> QED BY <1>2, <4>1, TablesFinite, FewerOf, RequestAssumption
    <3>2. Cardinality(AttemptsOf(e, s, MAX_ATTEMPTS + 1)) <= Cardinality(SentRetries)
      BY DEF RInv, ManualPaid
    <3> QED BY <1>0, <3>1, <3>2, ManualPaidStep, PaidStep
  <2> QED BY <2>1 DEF ManualPaid
<1> QED BY <1>1, <1>3, <1>4, <1>5, <1>6 DEF RInv

LEMMA RInvInit == Init => RInv
<1> SUFFICES ASSUME Init PROVE RInv
  OBVIOUS
<1>1. CInv /\ TInv
  BY CInvInit, TInvInit
<1>2. /\ attempts = <<>> /\ jobs = <<>>
      /\ con = [c \in Consumers |-> Out] /\ slot = [k \in Slots |-> Free]
      /\ \A r \in Replays : replay[r].bulk = <<>>
  BY DEF Init, TablesInit, ConsumersInit, RetryInit, RedeliveryInit
<1>3. SlotsInv
  BY <1>2 DEF SlotsInv, SlotAt, Free
<1>4. BulkInv
  BY <1>2 DEF BulkInv
<1>5. HandsApart
  BY <1>2 DEF HandsApart, ConHas, SlotHas, InHand, HasRow, Out, Free
<1>6. \A e, s, n : AttemptsOf(e, s, n) = {} /\ AnsweredOf(e, s, n) = {}
                   /\ Runners(e, s, n) = {}
  BY <1>2 DEF AttemptsOf, AnsweredOf, JobsOf, Runners, NotCreated, Free
<1>7. Cardinality({}) = 0
  BY FS_EmptySet
<1>8. \A e, s, n : 0 <= Cardinality(Spent(e, s, n)) /\ 0 <= Cardinality(Released(e, s, n))
  <2>1. ASSUME NEW e, NEW s, NEW n
        PROVE  0 <= Cardinality(Spent(e, s, n)) /\ 0 <= Cardinality(Released(e, s, n))
    <3>1. IsFiniteSet(Spent(e, s, n)) /\ IsFiniteSet(Released(e, s, n))
      <4>1. Released(e, s, n) \subseteq AttemptsOf(e, s, n)
        BY DEF Released
      <4> QED BY <1>1, <4>1, SpentFinite, TablesFinite, FewerOf
    <3>2. Cardinality(Spent(e, s, n)) \in Nat /\ Cardinality(Released(e, s, n)) \in Nat
      BY <3>1, FS_CardinalityType
    <3> QED BY <3>2
  <2> QED BY <2>1
<1>9. 0 <= Cardinality(DoneReplays) /\ 0 <= Cardinality(SentRetries)
  <2>1. Cardinality(DoneReplays) \in Nat /\ Cardinality(SentRetries) \in Nat
    BY RequestsFinite, FS_CardinalityType
  <2> QED BY <2>1
<1>10. \A e, s, n : Made(e, s, n) = 0
  BY <1>6, <1>7 DEF Made
<1>11. RunsPaid /\ JobsPaid /\ ReplaysPaid /\ ManualPaid
  BY <1>6, <1>7, <1>8, <1>9, <1>10 DEF RunsPaid, JobsPaid, ReplaysPaid, ManualPaid
<1> QED BY <1>1, <1>3, <1>4, <1>5, <1>11 DEF RInv

\* Every run of a job makes one row at most, even when its slot has lost the lock
\* and the next run has begun; every row a worker lets go of makes one answered add
\* at most, and so does every replay, for each of its events (retryWorker.js,
\* delivery.worker.js, replayService.js, deadLetterService.js).
THEOREM RerunsArePaid == Spec => []RInv
BY RInvInit, RInvStep, PTL DEF Spec

LEMMA RInvImpliesCause == RInv => EveryRerunHasCause
<1> SUFFICES ASSUME RInv, NEW e \in Events, NEW s \in Subs
             PROVE  /\ \A n \in 2..MAX_ATTEMPTS :
                         /\ Cardinality(AttemptsOf(e, s, n)) <= Cardinality(RunsOf(e, s, n))
                         /\ Cardinality(JobsOf(e, s, n))
                              <= Cardinality(AttemptsOf(e, s, n - 1))
                                   + Cardinality(ResentOf(e, s, n))
                    /\ Cardinality(JobsOf(e, s, 1))
                         <= Cardinality(Replays) + Cardinality(ResentOf(e, s, 1))
                    /\ Cardinality(AttemptsOf(e, s, MAX_ATTEMPTS + 1))
                         <= Cardinality(ManualRetries)
  BY DEF EveryRerunHasCause
<1>1. TInv
  BY DEF RInv, CInv, HInv
<1>2. \A n : /\ Cardinality(AttemptsOf(e, s, n)) \in Nat
             /\ Cardinality(AttemptsOf(e, s, n)) <= Made(e, s, n)
             /\ Made(e, s, n) \in Nat
             /\ Cardinality(RunsOf(e, s, n)) \in Nat
             /\ Cardinality(Spent(e, s, n)) \in Nat
             /\ Cardinality(Spent(e, s, n)) <= Cardinality(RunsOf(e, s, n))
  BY <1>1, TablesFinite, SpentFinite, FS_CardinalityType
<1>3. \A n : /\ Cardinality(AnsweredOf(e, s, n)) \in Nat
             /\ Cardinality(ResentOf(e, s, n)) \in Nat
             /\ Cardinality(JobsOf(e, s, n))
                  = Cardinality(AnsweredOf(e, s, n)) + Cardinality(ResentOf(e, s, n))
  BY <1>1, JobsSplit
<1>4. ASSUME NEW n \in 2..MAX_ATTEMPTS
      PROVE  /\ Cardinality(AttemptsOf(e, s, n)) <= Cardinality(RunsOf(e, s, n))
             /\ Cardinality(JobsOf(e, s, n))
                  <= Cardinality(AttemptsOf(e, s, n - 1)) + Cardinality(ResentOf(e, s, n))
  <2>1. Made(e, s, n) <= Cardinality(Spent(e, s, n))
    BY DEF RInv, RunsPaid
  <2>2. PICK m \in 1..(MAX_ATTEMPTS - 1) : m = n - 1 /\ m + 1 = n
    BY ScheduleAssumption
  <2>3. Cardinality(AnsweredOf(e, s, m + 1)) <= Cardinality(Released(e, s, m))
    BY DEF RInv, JobsPaid
  <2>4. /\ Cardinality(Released(e, s, m)) \in Nat
        /\ Cardinality(Released(e, s, m)) <= Cardinality(AttemptsOf(e, s, m))
    <3>1. Released(e, s, m) \subseteq AttemptsOf(e, s, m)
      BY DEF Released
    <3> QED BY <1>1, <3>1, TablesFinite, FewerOf
  <2> QED BY <1>2, <1>3, <2>1, <2>2, <2>3, <2>4
<1>5. /\ Cardinality(DoneReplays) \in Nat /\ Cardinality(Replays) \in Nat
      /\ Cardinality(SentRetries) \in Nat /\ Cardinality(ManualRetries) \in Nat
  BY RequestsFinite, RequestAssumption, FS_CardinalityType
<1>6. /\ Cardinality(AnsweredOf(e, s, 1)) <= Cardinality(DoneReplays)
      /\ Cardinality(AttemptsOf(e, s, MAX_ATTEMPTS + 1)) <= Cardinality(SentRetries)
  BY DEF RInv, ReplaysPaid, ManualPaid
<1>7. /\ Cardinality(JobsOf(e, s, 1))
          <= Cardinality(Replays) + Cardinality(ResentOf(e, s, 1))
      /\ Cardinality(AttemptsOf(e, s, MAX_ATTEMPTS + 1)) <= Cardinality(ManualRetries)
  BY <1>2, <1>3, <1>5, <1>6, RequestsFinite
<1> QED BY <1>4, <1>7

\* A later attempt is recorded once for each run of its job, a failed attempt
\* queues at most one job and a replay one for each event, but for the adds that
\* broke off before their answer; a manual retry makes one attempt, whatever
\* crashes, stalls or overlaps (retryQueue.js 14-15).
THEOREM RerunsHaveCauses == Spec => []EveryRerunHasCause
BY RerunsArePaid, RInvImpliesCause, PTL

-----------------------------------------------------------------------------
(* First attempts: a copy of a message, a failure, a deletion and a run of *)
(* a replay's job each pay for one pass of the fan-out at most.            *)

\* The subscriptions that a pass of the loop has not reached.
Rest(c) == IF con[c].pc \in InHand THEN con[c].todo \ {attempts[Attempt(c)].sub}
           ELSE con[c].todo

\* The workers that may still record attempt 1 of e at s for their message.
Awaiting(e, s) == {c \in Consumers : /\ con[c].pc \in NotCreated \cup InHand
                                     /\ Event(c) = e
                                     /\ con[c].pc = "load" \/ s \in Rest(c)}

\* The messages that the owner, or the next one, will still fetch.
After(i) == IF owner = {} THEN i > committed ELSE \A c \in owner : i > con[c].offset

\* The copies of e among them.
Ahead(e) == {i \in DOMAIN log :
                /\ log[i] = e
                /\ committed = NoOffset \/ After(i)
                /\ \A c \in owner : con[c].pc # "poll" => i # con[c].offset + 1}

\* The owner will find a subscription deleted, and fetch its message again.
OwnerDoomed == \E c \in owner : /\ con[c].pc \in {"create"} \cup InHand
                                /\ \E s \in con[c].todo : sub[s] = "deleted"

Doomed == IF OwnerDoomed THEN 1 ELSE 0

Owed(e, s) == Made(e, s, 1) + Cardinality(Awaiting(e, s)) + Cardinality(Ahead(e)) + Doomed

Causes(e, s) == CopiesOf(e) + faults + Cardinality(Deleted) + Cardinality(Spent(e, s, 1))

Balance(e, s) == IsFiniteSet(Awaiting(e, s)) /\ Owed(e, s) <= Causes(e, s)

LEMMA Quantities ==
    ASSUME TInv, NEW e, NEW s
    PROVE  /\ Made(e, s, 1) \in Nat
           /\ IsFiniteSet(Awaiting(e, s)) => Cardinality(Awaiting(e, s)) \in Nat
           /\ IsFiniteSet(Ahead(e)) /\ Cardinality(Ahead(e)) \in Nat
           /\ Doomed \in {0, 1}
           /\ CopiesOf(e) \in Nat /\ faults \in Nat
           /\ IsFiniteSet(Deleted) /\ Cardinality(Deleted) \in Nat
           /\ IsFiniteSet(Spent(e, s, 1)) /\ Cardinality(Spent(e, s, 1)) \in Nat
<1>1. Ahead(e) \subseteq DOMAIN log /\ {i \in DOMAIN log : log[i] = e} \subseteq DOMAIN log
  BY DEF Ahead
<1>2. Deleted \subseteq Subs
  BY DEF Deleted
<1>3. /\ Made(e, s, 1) \in Nat /\ IsFiniteSet(Ahead(e))
      /\ IsFiniteSet({i \in DOMAIN log : log[i] = e})
      /\ IsFiniteSet(Deleted) /\ IsFiniteSet(Spent(e, s, 1))
  BY <1>1, <1>2, TablesFinite, SpentFinite, FewerOf, TopicAssumption
<1>4. Doomed \in {0, 1} /\ faults \in Nat
  BY DEF Doomed, TInv, TypeOK, ConsumersTypeOK
<1> QED BY <1>3, <1>4, FS_CardinalityType DEF CopiesOf

Measured ==
    \A e, s : /\ Made(e, s, 1) \in Nat
              /\ IsFiniteSet(Awaiting(e, s)) => Cardinality(Awaiting(e, s)) \in Nat
              /\ Cardinality(Ahead(e)) \in Nat
              /\ Doomed \in Nat
              /\ CopiesOf(e) \in Nat /\ faults \in Nat
              /\ Cardinality(Deleted) \in Nat
              /\ Cardinality(Spent(e, s, 1)) \in Nat

LEMMA MeasuredNext == TInv' => Measured'
<1>1. TInv => Measured
  BY Quantities DEF Measured
<1> QED BY <1>1, PTL

\* No failure is forgotten.
LEMMA FaultsGrow ==
    ASSUME TInv, [Next]_vars
    PROVE  /\ faults \in Nat /\ retryFaults \in Nat
           /\ faults' \in Nat /\ retryFaults' \in Nat
           /\ faults <= faults' /\ retryFaults <= retryFaults'
<1>1. faults \in Nat /\ retryFaults \in Nat
  BY DEF TInv, TypeOK, ConsumersTypeOK, RetryTypeOK
<1>2. faults' = faults \/ faults' = faults + 1
  <2>1. CASE ConsumersNext
    BY <2>1
    DEF ConsumersNext, Produce, ConsumerStep, ConsumerFault, Join, Fetch,
        LoadSubscriptions, CreateFirst, CreateRefused, Deliver, ResolveFirst, IndexFirst,
        ScheduleRetry, CommitOffset, Fenced, ScheduleUnanswered, consumerVars, Throw,
        CommitThrows, Crash, Evict, Fault
  <2> QED BY <2>1 DEF Next, vars, consumerVars
<1>3. retryFaults' = retryFaults \/ retryFaults' = retryFaults + 1
  <2>1. CASE RetryNext
    BY <2>1
    DEF RetryNext, SlotStep, Take, Load, CreateNext, NextRefused, Redeliver, ResolveNext,
        IndexNext, IndexUnbound, JobFails, Bury, RetryAgain, AgainUnanswered, Complete,
        RetryThrow, LoseLock, RetryCrash, Stalled, RetryFault
  <2> QED BY <2>1 DEF Next, vars, retryVars
<1> QED BY <1>1, <1>2, <1>3

\* A subscription stays deleted.
LEMMA DeletedGrows ==
    ASSUME TInv, [Next]_vars
    PROVE  /\ Deleted \subseteq Deleted'
           /\ UNCHANGED sub \/ \E s \in Subs : \/ createSubscription(s)
                                               \/ updateSubscription(s)
                                               \/ deleteSubscription(s)
<1>0. sub \in [Subs -> {"absent", "enabled", "disabled", "deleted"}]
  BY DEF TInv, TypeOK, TablesTypeOK
<1>1. ASSUME NEW s \in Subs,
             createSubscription(s) \/ updateSubscription(s) \/ deleteSubscription(s)
      PROVE  Deleted \subseteq Deleted'
  BY <1>0, <1>1 DEF createSubscription, updateSubscription, deleteSubscription, Deleted
<1>2. CASE UNCHANGED sub
  BY <1>2 DEF Deleted
<1>3. UNCHANGED sub \/ TablesNext
  <2>1. ConsumersNext => UNCHANGED sub
    BY DEF ConsumersNext, Produce, ConsumerStep, ConsumerFault, Join, Fetch,
           LoadSubscriptions, CreateFirst, CreateRefused, Deliver, ResolveFirst, IndexFirst,
           ScheduleRetry, CommitOffset, Fenced, ScheduleUnanswered, Throw, CommitThrows,
           Crash, Evict, tableVars
  <2>2. RetryNext => UNCHANGED sub
    BY DEF RetryNext, SlotStep, Take, Load, CreateNext, NextRefused, Redeliver, ResolveNext,
           IndexNext, IndexUnbound, JobFails, Bury, RetryAgain, AgainUnanswered, Complete,
           RetryThrow, LoseLock, RetryCrash, Stalled, tableVars
  <2>3. RedeliveryNext => UNCHANGED sub
    BY DEF RedeliveryNext, replaySubscription, ReadEvents, AddBulk, BulkUnanswered,
           ReplayFails, retryDeadLetter, LoadLetter, CreateManual, DeliverManual, ResolveLetter,
           RecordFailure, ManualFails, tableVars
  <2> QED BY <2>1, <2>2, <2>3 DEF Next, vars, tableVars
<1> QED BY <1>1, <1>2, <1>3 DEF TablesNext

\* No cause goes away.
LEMMA CausesGrow ==
    ASSUME CInv, SlotsInv, BulkInv, [Next]_vars, NEW e, NEW s
    PROVE  /\ CopiesOf(e) <= CopiesOf(e)'
           /\ faults <= faults'
           /\ Cardinality(Deleted) <= Cardinality(Deleted')
           /\ Cardinality(Spent(e, s, 1)) <= Cardinality(Spent(e, s, 1)')
<1>1. TInv /\ TInv' /\ LogKept
  BY CInvStep, StepKeeps DEF CInv, HInv, Kept
<1>2. CopiesOf(e) <= CopiesOf(e)'
  <2>1. {i \in DOMAIN log : log[i] = e} \subseteq {i \in DOMAIN log' : log'[i] = e}
    <3>1. /\ DOMAIN log = 1..Len(log) /\ Len(log) \in Nat
          /\ DOMAIN log' = 1..Len(log') /\ Len(log') \in Nat
      BY <1>1 DEF TInv, TypeOK, ConsumersTypeOK
    <3> QED BY <1>1, <3>1 DEF LogKept
  <2>2. IsFiniteSet({i \in DOMAIN log' : log'[i] = e})
    <3>1. {i \in DOMAIN log' : log'[i] = e} \subseteq DOMAIN log'
      OBVIOUS
    <3>2. IsFiniteSet(DOMAIN log')
      BY <1>1, CountableNext DEF Countable
    <3> QED BY <3>1, <3>2, FewerOf
  <2> QED BY <2>1, <2>2, FewerOf DEF CopiesOf
<1>3. Cardinality(Deleted) <= Cardinality(Deleted')
  <2>1. Deleted \subseteq Deleted' /\ Deleted' \subseteq Subs
    BY <1>1, DeletedGrows DEF Deleted
  <2> QED BY <2>1, FewerOf, TopicAssumption
<1>4. Cardinality(Spent(e, s, 1)) <= Cardinality(Spent(e, s, 1)')
  <2>1. Spent(e, s, 1) \subseteq Spent(e, s, 1)'
    BY SpentGrows
  <2>2. IsFiniteSet(Spent(e, s, 1)')
    BY <1>1, CountableNext DEF Countable
  <2> QED BY <2>1, <2>2, FewerOf
<1> QED BY <1>1, <1>2, <1>3, <1>4, FaultsGrow

\* What a step adds to either side.
LEMMA BalanceStep ==
    ASSUME TInv, TInv', NEW e, NEW s, Balance(e, s), IsFiniteSet(Awaiting(e, s)'),
           NEW a \in Int, Made(e, s, 1)' <= Made(e, s, 1) + a,
           NEW w \in Int, Cardinality(Awaiting(e, s)') <= Cardinality(Awaiting(e, s)) + w,
           NEW h \in Int, Cardinality(Ahead(e)') <= Cardinality(Ahead(e)) + h,
           NEW d \in Int, Doomed' <= Doomed + d,
           NEW p \in Int, Causes(e, s) + p <= Causes(e, s)',
           a + w + h + d <= p
    PROVE  Balance(e, s)'
<1>1. /\ Made(e, s, 1) \in Nat /\ Cardinality(Awaiting(e, s)) \in Nat
      /\ Cardinality(Ahead(e)) \in Nat /\ Doomed \in Nat
      /\ CopiesOf(e) \in Nat /\ faults \in Nat
      /\ Cardinality(Deleted) \in Nat /\ Cardinality(Spent(e, s, 1)) \in Nat
  BY Quantities DEF Balance
<1>2. /\ Made(e, s, 1)' \in Nat /\ Cardinality(Awaiting(e, s)') \in Nat
      /\ Cardinality(Ahead(e)') \in Nat /\ Doomed' \in Nat
      /\ CopiesOf(e)' \in Nat /\ faults' \in Nat
      /\ Cardinality(Deleted') \in Nat /\ Cardinality(Spent(e, s, 1)') \in Nat
  BY MeasuredNext DEF Measured
<1>3. Causes(e, s) \in Nat /\ Causes(e, s)' \in Nat
  BY <1>1, <1>2 DEF Causes
<1>4. Owed(e, s) \in Nat /\ Owed(e, s) <= Causes(e, s)
  BY <1>1 DEF Owed, Balance
<1>5. Owed(e, s)' <= Owed(e, s) + a + w + h + d
  BY <1>1, <1>2 DEF Owed
<1>6. Owed(e, s)' \in Nat
  BY <1>2 DEF Owed
<1>7. Owed(e, s)' <= Causes(e, s)'
  BY <1>3, <1>4, <1>5, <1>6
<1> QED BY <1>7 DEF Balance

LEMMA CausesAdd ==
    ASSUME CInv, SlotsInv, BulkInv, [Next]_vars, NEW e, NEW s
    PROVE  /\ Causes(e, s) + 0 <= Causes(e, s)'
           /\ faults' = faults + 1 => Causes(e, s) + 1 <= Causes(e, s)'
           /\ CopiesOf(e) + 1 <= CopiesOf(e)' => Causes(e, s) + 1 <= Causes(e, s)'
           /\ Cardinality(Deleted) + 1 <= Cardinality(Deleted')
                => Causes(e, s) + 1 <= Causes(e, s)'
           /\ Cardinality(Spent(e, s, 1)) + 1 <= Cardinality(Spent(e, s, 1)')
                => Causes(e, s) + 1 <= Causes(e, s)'
<1>1. TInv /\ TInv'
  BY CInvStep DEF CInv, HInv
<1>2. /\ CopiesOf(e) \in Nat /\ faults \in Nat
      /\ Cardinality(Deleted) \in Nat /\ Cardinality(Spent(e, s, 1)) \in Nat
  BY <1>1, Quantities
<1>3. /\ CopiesOf(e)' \in Nat /\ faults' \in Nat
      /\ Cardinality(Deleted') \in Nat /\ Cardinality(Spent(e, s, 1)') \in Nat
  BY <1>1, MeasuredNext DEF Measured
<1> QED BY <1>2, <1>3, CausesGrow DEF Causes

\* The steps that make nothing and take nothing.
LEMMA NothingOwed ==
    ASSUME CInv, SlotsInv, BulkInv, [Next]_vars, NEW e, NEW s, Balance(e, s),
           Made(e, s, 1)' <= Made(e, s, 1),
           Awaiting(e, s)' \subseteq Awaiting(e, s),
           Ahead(e)' \subseteq Ahead(e),
           OwnerDoomed' => OwnerDoomed
    PROVE  Balance(e, s)'
<1>1. TInv /\ TInv'
  BY CInvStep DEF CInv, HInv
<1>2. IsFiniteSet(Ahead(e)) /\ IsFiniteSet(Awaiting(e, s)) /\ Made(e, s, 1) \in Nat
  BY <1>1, Quantities DEF Balance
<1>3. /\ Made(e, s, 1)' <= Made(e, s, 1) + 0
      /\ Cardinality(Awaiting(e, s)') <= Cardinality(Awaiting(e, s)) + 0
      /\ IsFiniteSet(Awaiting(e, s)')
      /\ Cardinality(Ahead(e)') <= Cardinality(Ahead(e)) + 0
  <2>1. Made(e, s, 1)' <= Made(e, s, 1) + 0
    BY <1>2
  <2>2. /\ Cardinality(Awaiting(e, s)') \in Nat /\ Cardinality(Awaiting(e, s)) \in Nat
        /\ Cardinality(Awaiting(e, s)') <= Cardinality(Awaiting(e, s))
        /\ IsFiniteSet(Awaiting(e, s)')
    BY <1>2, FewerOf
  <2>3. /\ Cardinality(Ahead(e)') \in Nat /\ Cardinality(Ahead(e)) \in Nat
        /\ Cardinality(Ahead(e)') <= Cardinality(Ahead(e))
    BY <1>2, FewerOf
  <2> QED BY <2>1, <2>2, <2>3
<1>4. Doomed' <= Doomed + 0
  BY DEF Doomed
<1>5. Causes(e, s) + 0 <= Causes(e, s)'
  BY CausesAdd
<1>6. 0 \in Int /\ 0 + 0 + 0 + 0 <= 0
  OBVIOUS
<1> QED BY <1>1, <1>3, <1>4, <1>5, <1>6, BalanceStep

\* The owner takes a copy to work on.
LEMMA CopyTaken ==
    ASSUME CInv, SlotsInv, BulkInv, [Next]_vars, NEW e, NEW s, Balance(e, s),
           Made(e, s, 1)' <= Made(e, s, 1),
           NEW c, Awaiting(e, s)' \subseteq Awaiting(e, s) \cup {c},
           NEW i \in Ahead(e), Ahead(e)' \subseteq Ahead(e) \ {i},
           OwnerDoomed' => OwnerDoomed
    PROVE  Balance(e, s)'
<1>1. TInv /\ TInv'
  BY CInvStep DEF CInv, HInv
<1>2. IsFiniteSet(Ahead(e)) /\ IsFiniteSet(Awaiting(e, s)) /\ Made(e, s, 1) \in Nat
  BY <1>1, Quantities DEF Balance
<1>3. Made(e, s, 1)' <= Made(e, s, 1) + 0
  BY <1>2
<1>4. /\ IsFiniteSet(Awaiting(e, s)')
      /\ Cardinality(Awaiting(e, s)') <= Cardinality(Awaiting(e, s)) + 1
  BY <1>2, OneMore
<1>5. Cardinality(Ahead(e)') <= Cardinality(Ahead(e)) + (-1)
  <2>1. /\ Cardinality(Ahead(e)') \in Nat /\ Cardinality(Ahead(e)) \in Nat
        /\ Cardinality(Ahead(e)') + 1 <= Cardinality(Ahead(e))
    BY <1>2, OneLess
  <2> QED BY <2>1
<1>6. Doomed' <= Doomed + 0
  BY DEF Doomed
<1>7. Causes(e, s) + 0 <= Causes(e, s)'
  BY CausesAdd
<1>8. 0 \in Int /\ 1 \in Int /\ -1 \in Int /\ 0 + 1 + (-1) + 0 <= 0
  OBVIOUS
<1> QED BY <1>1, <1>3, <1>4, <1>5, <1>6, <1>7, <1>8, BalanceStep

\* A worker records the attempt it was awaited for.
LEMMA RowOwedMade ==
    ASSUME CInv, SlotsInv, BulkInv, [Next]_vars, NEW e, NEW s, Balance(e, s),
           Made(e, s, 1)' <= Made(e, s, 1) + 1,
           NEW c \in Awaiting(e, s), Awaiting(e, s)' \subseteq Awaiting(e, s) \ {c},
           Ahead(e)' \subseteq Ahead(e),
           OwnerDoomed' => OwnerDoomed
    PROVE  Balance(e, s)'
<1>1. TInv /\ TInv'
  BY CInvStep DEF CInv, HInv
<1>2. IsFiniteSet(Ahead(e)) /\ IsFiniteSet(Awaiting(e, s)) /\ Made(e, s, 1) \in Nat
  BY <1>1, Quantities DEF Balance
<1>3. Made(e, s, 1)' <= Made(e, s, 1) + 1
  OBVIOUS
<1>4. /\ IsFiniteSet(Awaiting(e, s)')
      /\ Cardinality(Awaiting(e, s)') <= Cardinality(Awaiting(e, s)) + (-1)
  <2>1. /\ Cardinality(Awaiting(e, s)') \in Nat /\ Cardinality(Awaiting(e, s)) \in Nat
        /\ IsFiniteSet(Awaiting(e, s)')
        /\ Cardinality(Awaiting(e, s)') + 1 <= Cardinality(Awaiting(e, s))
    BY <1>2, OneLess
  <2> QED BY <2>1
<1>5. Cardinality(Ahead(e)') <= Cardinality(Ahead(e)) + 0
  <2>1. /\ Cardinality(Ahead(e)') \in Nat /\ Cardinality(Ahead(e)) \in Nat
        /\ Cardinality(Ahead(e)') <= Cardinality(Ahead(e))
    BY <1>2, FewerOf
  <2> QED BY <2>1
<1>6. Doomed' <= Doomed + 0
  BY DEF Doomed
<1>7. Causes(e, s) + 0 <= Causes(e, s)'
  BY CausesAdd
<1>8. 0 \in Int /\ 1 \in Int /\ -1 \in Int /\ 1 + (-1) + 0 + 0 <= 0
  OBVIOUS
<1> QED BY <1>1, <1>3, <1>4, <1>5, <1>6, <1>7, <1>8, BalanceStep

\* A message is put back, or a new copy arrives: one more to fetch, and a cause.
LEMMA CopyBack ==
    ASSUME CInv, SlotsInv, BulkInv, [Next]_vars, NEW e, NEW s, Balance(e, s),
           Made(e, s, 1)' <= Made(e, s, 1),
           Awaiting(e, s)' \subseteq Awaiting(e, s),
           NEW i, Ahead(e)' \subseteq Ahead(e) \cup {i},
           \/ (OwnerDoomed' => OwnerDoomed) /\ Causes(e, s) + 1 <= Causes(e, s)'
           \/ ~OwnerDoomed' /\ OwnerDoomed
    PROVE  Balance(e, s)'
<1>1. TInv /\ TInv'
  BY CInvStep DEF CInv, HInv
<1>2. IsFiniteSet(Ahead(e)) /\ IsFiniteSet(Awaiting(e, s)) /\ Made(e, s, 1) \in Nat
  BY <1>1, Quantities DEF Balance
<1>3. /\ Made(e, s, 1)' <= Made(e, s, 1) + 0
      /\ IsFiniteSet(Awaiting(e, s)')
      /\ Cardinality(Awaiting(e, s)') <= Cardinality(Awaiting(e, s)) + 0
  <2>1. Made(e, s, 1)' <= Made(e, s, 1) + 0
    BY <1>2
  <2>2. /\ Cardinality(Awaiting(e, s)') \in Nat /\ Cardinality(Awaiting(e, s)) \in Nat
        /\ IsFiniteSet(Awaiting(e, s)')
        /\ Cardinality(Awaiting(e, s)') <= Cardinality(Awaiting(e, s))
    BY <1>2, FewerOf
  <2> QED BY <2>1, <2>2
<1>4. Cardinality(Ahead(e)') <= Cardinality(Ahead(e)) + 1
  BY <1>2, OneMore
<1>5. 0 \in Int /\ 1 \in Int /\ -1 \in Int /\ 0 + 0 + 1 + 0 <= 1 /\ 0 + 0 + 1 + (-1) <= 0
  OBVIOUS
<1>6. CASE (OwnerDoomed' => OwnerDoomed) /\ Causes(e, s) + 1 <= Causes(e, s)'
  <2>1. Doomed' <= Doomed + 0
    BY <1>6 DEF Doomed
  <2> QED BY <1>1, <1>3, <1>4, <1>5, <1>6, <2>1, BalanceStep
<1>7. CASE ~OwnerDoomed' /\ OwnerDoomed
  <2>1. Doomed' <= Doomed + (-1)
    BY <1>7 DEF Doomed
  <2>2. Causes(e, s) + 0 <= Causes(e, s)'
    BY CausesAdd
  <2> QED BY <1>1, <1>3, <1>4, <1>5, <2>1, <2>2, BalanceStep
<1> QED BY <1>6, <1>7

\* A step away from the partition: a row of a run, or a deletion.
LEMMA ElsewherePaid ==
    ASSUME CInv, SlotsInv, BulkInv, [Next]_vars, NEW e, NEW s, Balance(e, s),
           Awaiting(e, s)' = Awaiting(e, s), Ahead(e)' = Ahead(e),
           \/ /\ OwnerDoomed' <=> OwnerDoomed
              /\ Made(e, s, 1)' <= Made(e, s, 1) + 1
              /\ \E y : y \in Spent(e, s, 1)' \ Spent(e, s, 1)
           \/ /\ Made(e, s, 1)' <= Made(e, s, 1)
              /\ \E t : t \in Deleted' \ Deleted
    PROVE  Balance(e, s)'
<1>1. TInv /\ TInv'
  BY CInvStep DEF CInv, HInv
<1>2. /\ IsFiniteSet(Awaiting(e, s)') /\ Made(e, s, 1) \in Nat
      /\ Cardinality(Ahead(e)) \in Nat /\ Cardinality(Awaiting(e, s)) \in Nat
  BY <1>1, Quantities DEF Balance
<1>3. /\ Cardinality(Awaiting(e, s)') <= Cardinality(Awaiting(e, s)) + 0
      /\ Cardinality(Ahead(e)') <= Cardinality(Ahead(e)) + 0
  BY <1>2
<1>4. 0 \in Int /\ 1 \in Int /\ 1 + 0 + 0 + 0 <= 1 /\ 0 + 0 + 0 + 1 <= 1
  OBVIOUS
<1>5. CASE /\ OwnerDoomed' <=> OwnerDoomed
           /\ Made(e, s, 1)' <= Made(e, s, 1) + 1
           /\ \E y : y \in Spent(e, s, 1)' \ Spent(e, s, 1)
  <2>1. PICK y : y \in Spent(e, s, 1)' \ Spent(e, s, 1)
    BY <1>5
  <2>3. Cardinality(Spent(e, s, 1)) + 1 <= Cardinality(Spent(e, s, 1)')
    <3>1. Spent(e, s, 1) \subseteq Spent(e, s, 1)' \ {y}
      BY <2>1, SpentGrows
    <3>2. IsFiniteSet(Spent(e, s, 1)')
      BY <1>1, CountableNext DEF Countable
    <3> QED BY <2>1, <3>1, <3>2, OneLess
  <2>4. Causes(e, s) + 1 <= Causes(e, s)'
    BY <2>3, CausesAdd
  <2>5. Doomed' <= Doomed + 0
    BY <1>5 DEF Doomed
  <2> QED BY <1>1, <1>2, <1>3, <1>4, <1>5, <2>4, <2>5, BalanceStep
<1>6. CASE /\ Made(e, s, 1)' <= Made(e, s, 1)
           /\ \E t : t \in Deleted' \ Deleted
  <2>1. PICK t : t \in Deleted' \ Deleted
    BY <1>6
  <2>2. Cardinality(Deleted) + 1 <= Cardinality(Deleted')
    <3>1. Deleted \subseteq Deleted' \ {t}
      BY <1>1, <2>1, DeletedGrows
    <3>2. IsFiniteSet(Deleted')
      <4>1. Deleted' \subseteq Subs
        BY DEF Deleted
      <4> QED BY <4>1, FewerOf, TopicAssumption
    <3> QED BY <2>1, <3>1, <3>2, OneLess
  <2>3. Causes(e, s) + 1 <= Causes(e, s)'
    BY <2>2, CausesAdd
  <2>4. Made(e, s, 1)' <= Made(e, s, 1) + 0
    BY <1>2, <1>6
  <2>5. Doomed' <= Doomed + 1
    BY DEF Doomed
  <2> QED BY <1>1, <1>2, <1>3, <1>4, <2>3, <2>4, <2>5, BalanceStep
<1> QED BY <1>5, <1>6

-----------------------------------------------------------------------------
(* What a step of a delivery worker does to what is owed.                  *)

\* What is made while no slot takes a job.
LEMMA NobodyTakes ==
    ASSUME TInv, UNCHANGED slot
    PROVE  ~\E k \in Slots : Take(k)
<1>1. slot \in [Slots -> SlotType]
  BY DEF TInv, TypeOK, RetryTypeOK
<1>2. ASSUME NEW k \in Slots, Take(k) PROVE FALSE
  <2>1. slot[k].pc = "idle" /\ slot'[k].pc = "load"
    BY <1>1, <1>2 DEF Take, SlotAt, Free
  <2> QED BY <2>1
<1> QED BY <1>2

LEMMA MadeOne ==
    ASSUME CInv, [Next]_vars, UNCHANGED slot, NEW e, NEW s,
           NEW a, AttemptsOf(e, s, 1)' \subseteq AttemptsOf(e, s, 1) \cup {a}
    PROVE  Made(e, s, 1)' <= Made(e, s, 1) + 1
<1>0. TInv
  BY DEF CInv, HInv
<1>1. Runners(e, s, 1)' \subseteq Runners(e, s, 1)
  BY <1>0, NobodyTakes, RunnersStay DEF Runners
<1> DEFINE A == AttemptsOf(e, s, 1)
           R == Runners(e, s, 1)
<1>2. IsFiniteSet(A) /\ IsFiniteSet(R)
  BY <1>0, TablesFinite, RunnersFinite
<1> HIDE DEF A, R
<1>3. A' \subseteq A \cup {a} /\ R' \subseteq R
  BY <1>1 DEF A, R
<1>4. /\ Cardinality(A) \in Nat /\ Cardinality(A') \in Nat
      /\ Cardinality(A') <= Cardinality(A) + 1
  <2>1. IsFiniteSet(A \cup {a})
    BY <1>2, FS_AddElement
  <2> QED BY <1>2, <1>3, <2>1, OneMore, FewerOf, FS_CardinalityType
<1>5. /\ Cardinality(R) \in Nat /\ Cardinality(R') \in Nat
      /\ Cardinality(R') <= Cardinality(R)
  BY <1>2, <1>3, FewerOf
<1>6. Made(e, s, 1) = Cardinality(A) + Cardinality(R)
      /\ Made(e, s, 1)' = Cardinality(A') + Cardinality(R')
  BY DEF Made, A, R
<1> QED BY <1>4, <1>5, <1>6

LEMMA MadeNone ==
    ASSUME CInv, [Next]_vars, UNCHANGED slot, NEW e, NEW s,
           AttemptsOf(e, s, 1)' \subseteq AttemptsOf(e, s, 1)
    PROVE  Made(e, s, 1)' <= Made(e, s, 1)
BY NobodyTakes, MadeStays DEF CInv, HInv

\* A worker that stands still is awaited as before.
LEMMA StillAwaiting ==
    ASSUME CInv, [Next]_vars, NEW d \in Consumers, con'[d] = con[d], NEW e, NEW s
    PROVE  d \in Awaiting(e, s)' <=> d \in Awaiting(e, s)
<1>1. TInv /\ HistoryKept /\ LogKept /\ ConOK(con[d])
  BY StepKeeps, ConTyped DEF CInv, HInv, Kept
<1>2. con[d].pc \notin {"out", "poll"} => Event(d)' = Event(d)
  BY <1>1, EventStays
<1>3. Rest(d)' = Rest(d)
  <2>1. con[d].pc \in InHand => attempts'[con[d].attempt].sub = attempts[con[d].attempt].sub
    BY <1>1 DEF ConOK, HistoryKept
  <2> QED BY <2>1 DEF Rest, Attempt
<1> QED BY <1>2, <1>3 DEF Awaiting, NotCreated, InHand

LEMMA OthersAwaiting ==
    ASSUME CInv, [Next]_vars, NEW c \in Consumers, NEW e, NEW s,
           \A d \in Consumers \ {c} : con'[d] = con[d]
    PROVE  /\ Awaiting(e, s)' \subseteq Awaiting(e, s) \cup {c}
           /\ (c \in Awaiting(e, s)' => c \in Awaiting(e, s))
                => Awaiting(e, s)' \subseteq Awaiting(e, s)
           /\ c \notin Awaiting(e, s)' => Awaiting(e, s)' \subseteq Awaiting(e, s) \ {c}
           /\ con'[c].pc \in {"out", "poll", "commit"} => c \notin Awaiting(e, s)'
<1>1. \A d \in Consumers \ {c} : d \in Awaiting(e, s)' => d \in Awaiting(e, s)
  BY StillAwaiting
<1>2. Awaiting(e, s)' \subseteq Consumers
  BY DEF Awaiting
<1>3. con'[c].pc \in {"out", "poll", "commit"} => c \notin Awaiting(e, s)'
  BY DEF Awaiting, NotCreated, InHand
<1> QED BY <1>1, <1>2, <1>3

\* The copies ahead stay as long as no owner begins, ends or moves.
LEMMA AheadStays ==
    ASSUME NEW e, UNCHANGED <<log, committed, owner>>,
           \A d \in owner : /\ con'[d].pc # "poll" <=> con[d].pc # "poll"
                            /\ con'[d].offset = con[d].offset
    PROVE  Ahead(e)' = Ahead(e)
  BY DEF Ahead, After

LEMMA DoomStays ==
    ASSUME NEW c \in Consumers, sub' = sub, owner \subseteq Consumers, owner' \subseteq owner,
           \A d \in Consumers \ {c} : con'[d] = con[d],
           con'[c].pc \in {"create"} \cup InHand /\ (\E t \in con'[c].todo : sub[t] = "deleted")
             => con[c].pc \in {"create"} \cup InHand /\ con'[c].todo \subseteq con[c].todo
    PROVE  OwnerDoomed' => OwnerDoomed
<1> SUFFICES ASSUME NEW d \in owner', con'[d].pc \in {"create"} \cup InHand,
                    NEW t \in con'[d].todo, sub[t] = "deleted"
             PROVE  OwnerDoomed
  BY DEF OwnerDoomed
<1>1. CASE d = c
  BY <1>1 DEF OwnerDoomed
<1>2. CASE d # c
  BY <1>2 DEF OwnerDoomed
<1> QED BY <1>1, <1>2

\* What the steps of a worker leave alone.
LEMMA ConsumerFrame ==
    ASSUME TInv, NEW c \in Consumers, ConsumerStep(c) \/ ConsumerFault(c)
    PROVE  /\ \A d \in Consumers \ {c} : con'[d] = con[d]
           /\ UNCHANGED <<sub, log>>
           /\ CreateFirst(c) \/ DOMAIN attempts' = DOMAIN attempts
           /\ Join(c) \/ owner' \subseteq owner
<1>0. con \in [Consumers -> ConsumerType]
  BY DEF TInv, TypeOK, ConsumersTypeOK
<1>1. \A d \in Consumers \ {c} : con'[d] = con[d]
  BY <1>0
  DEF ConsumerStep, ConsumerFault, Join, Fetch, LoadSubscriptions, CreateFirst, CreateRefused,
      Deliver, ResolveFirst, IndexFirst, ScheduleRetry, CommitOffset, Fenced,
      ScheduleUnanswered, consumerVars, Throw, CommitThrows, Crash, Evict
<1>2. UNCHANGED <<sub, log>> /\ (Join(c) \/ owner' \subseteq owner)
  BY DEF ConsumerStep, ConsumerFault, Fetch, LoadSubscriptions, CreateFirst, CreateRefused,
         Deliver, ResolveFirst, IndexFirst, ScheduleRetry, CommitOffset, Fenced,
         ScheduleUnanswered, consumerVars, Throw, CommitThrows, Crash, Evict, Join, tableVars
<1>3. CreateFirst(c) \/ DOMAIN attempts' = DOMAIN attempts
  BY DEF ConsumerStep, ConsumerFault, Join, Fetch, LoadSubscriptions, CreateRefused, Deliver,
         ResolveFirst, IndexFirst, ScheduleRetry, CommitOffset, Fenced, ScheduleUnanswered,
         Throw, CommitThrows, Crash, Evict, tableVars, resolveAttempt
<1> QED BY <1>1, <1>2, <1>3

\* The steps within the loop over the subscriptions.
InLoop(c) == \/ LoadSubscriptions(c) \/ CreateFirst(c) \/ Deliver(c) \/ ResolveFirst(c)
             \/ IndexFirst(c) \/ ScheduleRetry(c)

LEMMA LoopPlaces ==
    ASSUME TInv, NEW c \in Consumers, InLoop(c)
    PROVE  /\ UNCHANGED <<committed, owner>>
           /\ con[c].pc \in NotCreated \cup InHand
           /\ con'[c].pc \in {"create", "commit"} \cup InHand
           /\ con'[c].offset = con[c].offset
<1>0. con \in [Consumers -> ConsumerType] /\ con[c] \in ConsumerType
  BY DEF TInv, TypeOK, ConsumersTypeOK
<1>1. UNCHANGED <<committed, owner>> /\ con[c].pc \in NotCreated \cup InHand
  BY DEF InLoop, LoadSubscriptions, CreateFirst, Deliver, ResolveFirst, IndexFirst,
         ScheduleRetry, At, NotCreated, InHand
<1>2. CASE LoadSubscriptions(c) \/ CreateFirst(c) \/ Deliver(c) \/ ResolveFirst(c)
  <2>1. CASE LoadSubscriptions(c)
    <3>1. PICK pc \in {"create", "commit"} :
            con' = [con EXCEPT ![c].todo = Enabled, ![c].pc = pc]
      BY <2>1 DEF LoadSubscriptions
    <3> QED BY <1>0, <1>1, <3>1 DEF ConsumerType
  <2>2. CASE CreateFirst(c) \/ Deliver(c) \/ ResolveFirst(c)
    <3>1. con'[c].pc \in {"deliver", "resolve", "index"} /\ con'[c].offset = con[c].offset
      BY <1>0, <2>2 DEF CreateFirst, Deliver, ResolveFirst, ConsumerType
    <3> QED BY <1>1, <3>1 DEF InHand
  <2> QED BY <1>2, <2>1, <2>2
<1>3. CASE IndexFirst(c) \/ ScheduleRetry(c)
  <2>1. PICK x : /\ x = DoneWithOne(c) \/ x = [con[c] EXCEPT !.pc = "retry"]
                 /\ con' = [con EXCEPT ![c] = x]
    BY <1>3 DEF IndexFirst, ScheduleRetry
  <2>2. x.pc \in {"create", "commit", "retry"} /\ x.offset = con[c].offset
    <3>1. CASE x = DoneWithOne(c)
      BY <3>1 DEF DoneWithOne, Out
    <3>2. CASE x = [con[c] EXCEPT !.pc = "retry"]
      BY <1>0, <3>2 DEF ConsumerType
    <3> QED BY <2>1, <3>1, <3>2
  <2> QED BY <1>0, <1>1, <2>1, <2>2 DEF InHand
<1> QED BY <1>1, <1>2, <1>3 DEF InLoop

\* The loop owes an attempt for each subscription it has not reached, and makes it.
LEMMA LoopBalance ==
    ASSUME CInv, OInv, SlotsInv, BulkInv, [Next]_vars, NEW e \in Events, NEW s \in Subs,
           Balance(e, s), UNCHANGED slot, NEW c \in Consumers, InLoop(c)
    PROVE  Balance(e, s)'
<1>0. /\ TInv /\ HistoryKept /\ LogKept /\ ConOK(con[c]) /\ owner \subseteq Consumers
      /\ con \in [Consumers -> ConsumerType] /\ con[c] \in ConsumerType
  BY StepKeeps, ConTyped DEF CInv, HInv, Kept, TInv, TypeOK, ConsumersTypeOK, ConOK
<1>1. /\ \A d \in Consumers \ {c} : con'[d] = con[d]
      /\ UNCHANGED <<sub, log>>
      /\ CreateFirst(c) \/ DOMAIN attempts' = DOMAIN attempts
  BY <1>0, ConsumerFrame DEF InLoop, ConsumerStep
<1>2. /\ UNCHANGED <<committed, owner>>
      /\ con[c].pc \in NotCreated \cup InHand
      /\ con'[c].pc \in {"create", "commit"} \cup InHand
      /\ con'[c].offset = con[c].offset
  BY <1>0, LoopPlaces
<1>3. Ahead(e)' = Ahead(e)
  <2>1. con[c].pc # "poll" /\ con'[c].pc # "poll"
    BY <1>2 DEF NotCreated, InHand
  <2> QED BY <1>0, <1>1, <1>2, <2>1, AheadStays
<1>4. Event(c)' = Event(c)
  BY <1>0, <1>2, EventStays DEF NotCreated, InHand
<1>5. ASSUME /\ con'[c].todo \subseteq con[c].todo /\ con[c].pc # "load"
             \/ \A t \in con'[c].todo : sub[t] # "deleted"
      PROVE  OwnerDoomed' => OwnerDoomed
  BY <1>0, <1>1, <1>2, <1>5, DoomStays DEF NotCreated
<1>6. CASE CreateFirst(c)
  <2>0. PICK f : f = Event(c)
    OBVIOUS
  <2>1. PICK t \in con[c].todo :
          /\ t \in Subs
          /\ createPendingAttempt(f, t, 1)
          /\ con' = [con EXCEPT ![c].pc = "deliver", ![c].attempt = NewAttempt]
    BY <1>6, <2>0, FirstAdds
  <2>2. f \in Events /\ 1 \in Nat
    BY <1>6, <2>0, FirstAdds
  <2>3. /\ con'[c].pc = "deliver" /\ con'[c].attempt = NewAttempt
        /\ con'[c].todo = con[c].todo
    BY <1>0, <2>1 DEF ConsumerType
  <2>4. attempts'[NewAttempt].sub = t
    BY <1>0, <2>1, <2>2, CreatedIsNew
  <2>5. Rest(c)' = con[c].todo \ {t}
    BY <2>3, <2>4 DEF Rest, InHand, Attempt
  <2>6. con[c].pc = "create"
    BY <1>6 DEF CreateFirst, At
  <2>7. Rest(c) = con[c].todo
    BY <2>6 DEF Rest, InHand
  <2>8. OwnerDoomed' => OwnerDoomed
    BY <1>5, <2>3, <2>6
  <2>9. CASE f = e /\ t = s
    <3>1. Made(e, s, 1)' <= Made(e, s, 1) + 1
      <4>1. AttemptsOf(e, s, 1)' \subseteq AttemptsOf(e, s, 1) \cup {NewAttempt}
        BY <1>0, <2>1, <2>2, <2>9, RowCounted
      <4> QED BY <4>1, MadeOne
    <3>2. c \in Awaiting(e, s)
      BY <2>0, <2>6, <2>7, <2>9 DEF Awaiting, NotCreated
    <3>3. c \notin Awaiting(e, s)'
      BY <2>3, <2>5, <2>9 DEF Awaiting
    <3>4. Awaiting(e, s)' \subseteq Awaiting(e, s) \ {c}
      BY <1>1, <3>3, OthersAwaiting
    <3> QED BY <1>3, <2>8, <3>1, <3>2, <3>4, RowOwedMade
  <2>10. CASE ~(f = e /\ t = s)
    <3>1. Made(e, s, 1)' <= Made(e, s, 1)
      BY <1>0, <2>1, <2>2, <2>10, RowCounted, MadeNone
    <3>2. c \in Awaiting(e, s)' => c \in Awaiting(e, s)
      BY <1>4, <2>3, <2>5, <2>6, <2>7 DEF Awaiting, NotCreated
    <3> QED BY <1>1, <1>3, <2>8, <3>1, <3>2, OthersAwaiting, NothingOwed
  <2> QED BY <2>9, <2>10
<1>7. CASE ~CreateFirst(c)
  <2>1. Made(e, s, 1)' <= Made(e, s, 1)
    BY <1>0, <1>1, <1>7, RowsCounted, MadeNone
  <2>2. SUFFICES /\ c \in Awaiting(e, s)' => c \in Awaiting(e, s)
                 /\ OwnerDoomed' => OwnerDoomed
    BY <1>1, <1>3, <2>1, OthersAwaiting, NothingOwed
  <2>3. CASE LoadSubscriptions(c)
    <3>1. con[c].pc = "load"
      BY <2>3 DEF LoadSubscriptions, At
    <3>2. con'[c].todo = Enabled
      BY <1>0, <2>3 DEF LoadSubscriptions, ConsumerType
    <3>3. c \in Awaiting(e, s)' => c \in Awaiting(e, s)
      BY <1>4, <3>1 DEF Awaiting, NotCreated
    <3> QED BY <1>5, <3>2, <3>3 DEF Enabled
  <2>4. ASSUME con[c].pc \in InHand,
               \/ con'[c].pc \in InHand /\ con'[c].attempt = con[c].attempt
                  /\ con'[c].todo = con[c].todo
               \/ con'[c].pc \notin InHand /\ con'[c].todo = Rest(c)
        PROVE  /\ c \in Awaiting(e, s)' => c \in Awaiting(e, s)
               /\ OwnerDoomed' => OwnerDoomed
    <3>1. attempts'[con[c].attempt].sub = attempts[con[c].attempt].sub
      BY <1>0, <2>4 DEF ConOK, HistoryKept
    <3>2. Rest(c)' \subseteq Rest(c)
      BY <2>4, <3>1 DEF Rest, Attempt
    <3>3. con'[c].pc # "load" /\ con[c].pc # "load"
      BY <1>2, <2>4 DEF InHand
    <3>4. c \in Awaiting(e, s)' => c \in Awaiting(e, s)
      BY <1>2, <1>4, <3>2, <3>3 DEF Awaiting
    <3>5. con'[c].todo \subseteq con[c].todo
      BY <2>4 DEF Rest
    <3> QED BY <1>5, <3>3, <3>4, <3>5
  <2>5. CASE Deliver(c) \/ ResolveFirst(c)
    <3>1. con[c].pc \in InHand
      BY <2>5 DEF Deliver, ResolveFirst, At, InHand
    <3>2. /\ con'[c].pc \in InHand /\ con'[c].attempt = con[c].attempt
          /\ con'[c].todo = con[c].todo
      BY <1>0, <2>5 DEF Deliver, ResolveFirst, ConsumerType, InHand
    <3> QED BY <2>4, <3>1, <3>2
  <2>6. CASE IndexFirst(c) \/ ScheduleRetry(c)
    <3>1. con[c].pc \in InHand
      BY <2>6 DEF IndexFirst, ScheduleRetry, At, InHand
    <3>2. PICK x : /\ x = DoneWithOne(c) \/ x = [con[c] EXCEPT !.pc = "retry"]
                   /\ con' = [con EXCEPT ![c] = x]
      BY <2>6 DEF IndexFirst, ScheduleRetry
    <3>3. con'[c] = x
      BY <1>0, <3>2
    <3>4. CASE x = DoneWithOne(c)
      <4>1. x.pc \in {"create", "commit"} /\ x.todo = Rest(c)
        BY <3>1, <3>4 DEF DoneWithOne, Out, Rest
      <4> QED BY <2>4, <3>1, <3>3, <4>1 DEF InHand
    <3>5. CASE x = [con[c] EXCEPT !.pc = "retry"]
      <4>1. x.pc = "retry" /\ x.attempt = con[c].attempt /\ x.todo = con[c].todo
        BY <1>0, <3>5 DEF ConsumerType
      <4> QED BY <2>4, <3>1, <3>3, <4>1 DEF InHand
    <3> QED BY <3>2, <3>4, <3>5
  <2> QED BY <1>7, <2>3, <2>5, <2>6 DEF InLoop
<1> QED BY <1>6, <1>7

\* The steps between two passes of the loop, and those that end one early.
Fails(c) == Throw(c) \/ CommitThrows(c) \/ Crash(c) \/ Evict(c)

AtEdge(c) == \/ Join(c) \/ Fetch(c) \/ CreateRefused(c) \/ CommitOffset(c) \/ Fenced(c)
             \/ Fails(c)

\* A pass begins with a copy taken and ends with the copy done with, put back
\* because a subscription is gone, or put back because of a failure.
LEMMA EdgeBalance ==
    ASSUME CInv, OInv, SlotsInv, BulkInv, [Next]_vars, NEW e \in Events, NEW s \in Subs,
           Balance(e, s), UNCHANGED slot, NEW c \in Consumers, AtEdge(c)
    PROVE  Balance(e, s)'
<1>0. /\ TInv /\ HistoryKept /\ LogKept /\ ConOK(con[c]) /\ owner \subseteq Consumers
      /\ con \in [Consumers -> ConsumerType] /\ con[c] \in ConsumerType
      /\ con[c].offset \in Nat /\ committed \in Nat \cup {NoOffset} /\ NoOffset \notin Nat
  BY StepKeeps, ConTyped, ConsumerAssumption
  DEF CInv, HInv, Kept, TInv, TypeOK, ConsumersTypeOK, ConOK, ConsumerType
<1>a. /\ c \in owner => owner = {c}
      /\ c \in owner => \/ committed = NoOffset
                        \/ committed \in {con[c].offset, con[c].offset + 1}
  BY DEF OInv, OwnerAtOffset
<1>b. DOMAIN log = 1..Len(log) /\ Len(log) \in Nat
  BY <1>0 DEF TInv, TypeOK, ConsumersTypeOK
<1>1. /\ \A d \in Consumers \ {c} : con'[d] = con[d]
      /\ UNCHANGED <<sub, log>>
  BY <1>0, ConsumerFrame DEF AtEdge, Fails, ConsumerStep, ConsumerFault
<1>2. Made(e, s, 1)' <= Made(e, s, 1)
  <2>1. UNCHANGED attempts
    BY DEF AtEdge, Join, Fetch, CreateRefused, CommitOffset, Fenced, Fails, Throw,
           CommitThrows, Crash, Evict, tableVars
  <2>2. AttemptsOf(e, s, 1)' \subseteq AttemptsOf(e, s, 1)
    BY <2>1 DEF AttemptsOf
  <2> QED BY <2>2, MadeNone
<1>3. con'[c].pc \in {"out", "poll", "commit"} => Awaiting(e, s)' \subseteq Awaiting(e, s)
  BY <1>1, OthersAwaiting
<1>4. ASSUME owner' \subseteq owner, c \notin owner' \/ con'[c].pc \in {"out", "poll", "load"}
      PROVE  OwnerDoomed' => OwnerDoomed
  <2> SUFFICES ASSUME NEW d \in owner', con'[d].pc \in {"create"} \cup InHand,
                      \E t \in con'[d].todo : sub'[t] = "deleted"
               PROVE  OwnerDoomed
    BY DEF OwnerDoomed
  <2>1. d # c
    BY <1>4 DEF InHand
  <2>2. d \in owner /\ con'[d] = con[d]
    BY <1>0, <1>1, <1>4, <2>1
  <2> QED BY <1>1, <2>2 DEF OwnerDoomed
<1>5. CASE Join(c)
  <2>1. /\ con'[c].pc = "poll" /\ owner = {} /\ owner' = {c} /\ committed' = committed
        /\ con'[c].offset = StartOffset
    BY <1>0, <1>5 DEF Join, Polling, Out
  <2>2. Ahead(e)' \subseteq Ahead(e)
    BY <1>1, <2>1 DEF Ahead, After, StartOffset
  <2>3. ~OwnerDoomed'
    BY <2>1 DEF OwnerDoomed, InHand
  <2> QED BY <1>2, <1>3, <2>1, <2>2, <2>3, NothingOwed
<1>6. CASE Fetch(c)
  <2>1. /\ con[c].pc = "poll" /\ con'[c].pc = "load" /\ con'[c].offset = con[c].offset
        /\ c \in owner /\ owner' = owner /\ committed' = committed
        /\ con[c].offset < Len(log)
    BY <1>0, <1>6 DEF Fetch, At, ConsumerType
  <2>2. OwnerDoomed' => OwnerDoomed
    BY <1>4, <2>1
  <2>3. Ahead(e)' \subseteq Ahead(e) \ {con[c].offset + 1}
    BY <1>a, <1>1, <2>1 DEF Ahead, After
  <2>4. Event(c)' = log[con[c].offset + 1]
    BY <1>1, <2>1 DEF Event
  <2>5. CASE log[con[c].offset + 1] = e
    <3>1. con[c].offset + 1 \in Ahead(e)
      <4>1. con[c].offset + 1 \in DOMAIN log
        BY <1>0, <1>b, <2>1
      <4>2. After(con[c].offset + 1)
        BY <1>0, <1>a, <2>1 DEF After
      <4>3. \A d \in owner : con[d].pc = "poll"
        BY <1>a, <2>1
      <4> QED BY <2>5, <4>1, <4>2, <4>3 DEF Ahead
    <3>2. Awaiting(e, s)' \subseteq Awaiting(e, s) \cup {c}
      BY <1>1, OthersAwaiting
    <3> QED BY <1>2, <2>2, <2>3, <3>1, <3>2, CopyTaken
  <2>6. CASE log[con[c].offset + 1] # e
    <3>1. c \notin Awaiting(e, s)'
      BY <2>4, <2>6 DEF Awaiting
    <3>2. Awaiting(e, s)' \subseteq Awaiting(e, s)
      BY <1>1, <3>1, OthersAwaiting
    <3>3. Ahead(e)' \subseteq Ahead(e)
      BY <2>3
    <3> QED BY <1>2, <2>2, <3>2, <3>3, NothingOwed
  <2> QED BY <2>5, <2>6
<1>7. CASE CommitOffset(c)
  <2>1. /\ con[c].pc = "commit" /\ con'[c].pc = "poll" /\ c \in owner /\ owner' = owner
        /\ committed' = con[c].offset + 1 /\ con'[c].offset = con[c].offset + 1
    BY <1>0, <1>7 DEF CommitOffset, At, Polling, Out
  <2>2. OwnerDoomed' => OwnerDoomed
    BY <1>4, <2>1
  <2>3. Ahead(e)' \subseteq Ahead(e)
    <3> SUFFICES ASSUME NEW i \in Ahead(e)' PROVE i \in Ahead(e)
      OBVIOUS
    <3>1. i \in DOMAIN log /\ log[i] = e /\ i > con'[c].offset
      BY <1>0, <1>1, <2>1 DEF Ahead, After
    <3>2. i \in Nat /\ i > con[c].offset + 1
      BY <1>0, <1>b, <2>1, <3>1
    <3>3. After(i) /\ \A d \in owner : i # con[d].offset + 1
      BY <1>0, <1>a, <2>1, <3>2 DEF After
    <3> QED BY <3>1, <3>3 DEF Ahead
  <2> QED BY <1>2, <1>3, <2>1, <2>2, <2>3, NothingOwed
<1>8. CASE Fenced(c)
  <2>1. con'[c].pc = "out" /\ c \notin owner /\ owner' = owner /\ committed' = committed
    BY <1>0, <1>8 DEF Fenced, Out
  <2>2. OwnerDoomed' => OwnerDoomed
    BY <1>4, <2>1
  <2>3. Ahead(e)' = Ahead(e)
    BY <1>0, <1>1, <2>1, AheadStays
  <2> QED BY <1>2, <1>3, <2>1, <2>2, <2>3, NothingOwed
<1>9. ASSUME committed' = committed \/ (c \in owner /\ committed' = con[c].offset + 1),
             owner' \subseteq owner, c \in owner' => con'[c].offset = con[c].offset,
             c \notin owner => owner' = owner
      PROVE  Ahead(e)' \subseteq Ahead(e) \cup {con[c].offset + 1}
  <2> SUFFICES ASSUME NEW i \in Ahead(e)', i # con[c].offset + 1 PROVE i \in Ahead(e)
    OBVIOUS
  <2>1. /\ i \in DOMAIN log /\ log[i] = e /\ i \in Nat
        /\ committed' = NoOffset \/ After(i)'
        /\ \A d \in owner' : con'[d].pc # "poll" => i # con'[d].offset + 1
    BY <1>b, <1>1, <1>9 DEF Ahead
  <2>2. CASE c \in owner
    <3>1. \A d \in owner : con[d].pc # "poll" => i # con[d].offset + 1
      BY <1>a, <2>2
    <3>2. ASSUME committed # NoOffset PROVE i > con[c].offset
      <4>1. committed' # NoOffset /\ committed' \in Nat /\ committed' >= con[c].offset
        BY <1>0, <1>a, <1>9, <2>2, <3>2
      <4>2. CASE owner' = {}
        BY <1>0, <2>1, <4>1, <4>2 DEF After
      <4>3. CASE owner' # {}
        BY <1>a, <1>9, <2>1, <2>2, <4>1, <4>3 DEF After
      <4> QED BY <4>2, <4>3
    <3>3. committed = NoOffset \/ After(i)
      BY <1>a, <2>2, <3>2 DEF After
    <3> QED BY <2>1, <3>1, <3>3 DEF Ahead
  <2>3. CASE c \notin owner
    <3>1. owner' = owner /\ committed' = committed /\ \A d \in owner : con'[d] = con[d]
      BY <1>0, <1>1, <1>9, <2>3
    <3> QED BY <2>1, <3>1 DEF Ahead, After
  <2> QED BY <2>2, <2>3
<1>10. CASE CreateRefused(c)
  <2>1. /\ con[c].pc = "create" /\ (\E t \in con[c].todo : sub[t] = "deleted")
        /\ con'[c].pc = "poll" /\ owner' = owner /\ committed' = committed
        /\ con'[c].offset = con[c].offset
    BY <1>0, <1>10 DEF CreateRefused, At, Polling, Out
  <2>2. CASE c \in owner
    <3>1. OwnerDoomed /\ ~OwnerDoomed'
      BY <1>a, <2>1, <2>2 DEF OwnerDoomed, InHand
    <3>2. Ahead(e)' \subseteq Ahead(e) \cup {con[c].offset + 1}
      BY <1>9, <1>a, <2>1, <2>2
    <3> QED BY <1>2, <1>3, <2>1, <3>1, <3>2, CopyBack
  <2>3. CASE c \notin owner
    <3>1. OwnerDoomed' => OwnerDoomed
      BY <1>4, <2>1
    <3>2. Ahead(e)' = Ahead(e)
      BY <1>0, <1>1, <2>1, <2>3, AheadStays
    <3> QED BY <1>2, <1>3, <2>1, <3>1, <3>2, NothingOwed
  <2> QED BY <2>2, <2>3
<1>11. CASE Fails(c)
  <2>1. /\ faults' = faults + 1 /\ owner' \subseteq owner
        /\ committed' = committed \/ (c \in owner /\ committed' = con[c].offset + 1)
        /\ c \notin owner => owner' = owner
    BY <1>11 DEF Fails, Throw, CommitThrows, Crash, Evict, Fault
  <2>2. Causes(e, s) + 1 <= Causes(e, s)'
    BY <2>1, CausesAdd
  <2>3. c \notin owner' \/ (con'[c].pc = "poll" /\ con'[c].offset = con[c].offset)
    BY <1>0, <1>a, <1>11 DEF Fails, Throw, CommitThrows, Crash, Evict, Polling, Out
  <2>5. Ahead(e)' \subseteq Ahead(e) \cup {con[c].offset + 1}
    BY <1>9, <2>1, <2>3
  <2>6. OwnerDoomed' => OwnerDoomed
    BY <1>4, <2>1, <2>3
  <2>7. Awaiting(e, s)' \subseteq Awaiting(e, s)
    <3>1. CASE Evict(c)
      BY <1>1, <3>1, StillAwaiting, OthersAwaiting DEF Evict
    <3>2. CASE Throw(c) \/ CommitThrows(c)
      BY <1>0, <1>3, <3>2 DEF Throw, CommitThrows, Polling, Out
    <3>3. CASE Crash(c)
      BY <1>0, <1>3, <3>3 DEF Crash, Out
    <3> QED BY <1>11, <3>1, <3>2, <3>3 DEF Fails
  <2> QED BY <1>2, <2>2, <2>5, <2>6, <2>7, CopyBack
<1> QED BY <1>5, <1>6, <1>7, <1>8, <1>10, <1>11 DEF AtEdge

LEMMA ProduceBalance ==
    ASSUME CInv, OInv, SlotsInv, BulkInv, [Next]_vars, NEW e \in Events, NEW s \in Subs,
           Balance(e, s), UNCHANGED slot, Produce
    PROVE  Balance(e, s)'
<1>0. /\ TInv /\ log \in Seq(Events) /\ owner \subseteq Consumers
      /\ DOMAIN log = 1..Len(log) /\ Len(log) \in Nat
  BY DEF CInv, HInv, TInv, TypeOK, ConsumersTypeOK
<1>1. PICK f \in Events : log' = Append(log, f)
  BY DEF Produce
<1>2. UNCHANGED <<sub, attempts, committed, owner, con>>
  BY DEF Produce, tableVars
<1>3. /\ DOMAIN log' = DOMAIN log \cup {Len(log) + 1} /\ Len(log) + 1 \notin DOMAIN log
      /\ \A i \in DOMAIN log : log'[i] = log[i]
      /\ log'[Len(log) + 1] = f
  BY <1>0, <1>1
<1>4. Made(e, s, 1)' <= Made(e, s, 1)
  <2>1. AttemptsOf(e, s, 1)' \subseteq AttemptsOf(e, s, 1)
    BY <1>2 DEF AttemptsOf
  <2> QED BY <2>1, MadeNone
<1>5. Awaiting(e, s)' \subseteq Awaiting(e, s)
  <2>1. \A d \in Consumers : d \in Awaiting(e, s)' => d \in Awaiting(e, s)
    BY <1>2, StillAwaiting
  <2> QED BY <2>1 DEF Awaiting
<1>6. OwnerDoomed' => OwnerDoomed
  BY <1>2 DEF OwnerDoomed
<1>7. CASE f = e
  <2>1. Ahead(e)' \subseteq Ahead(e) \cup {Len(log) + 1}
    BY <1>2, <1>3 DEF Ahead, After
  <2>2. CopiesOf(e) + 1 <= CopiesOf(e)'
    <3> DEFINE Copies == {i \in DOMAIN log : log[i] = e}
    <3>1. Copies' = {i \in DOMAIN log' : log'[i] = e}
      OBVIOUS
    <3>2. Copies \subseteq Copies' \ {Len(log) + 1} /\ Len(log) + 1 \in Copies'
      BY <1>3, <1>7
    <3>3. IsFiniteSet(Copies')
      <4>1. TInv' /\ Copies' \subseteq DOMAIN log'
        BY CInvStep DEF CInv, HInv
      <4>2. IsFiniteSet(DOMAIN log')
        BY <4>1, CountableNext DEF Countable
      <4> QED BY <4>1, <4>2, FewerOf
    <3>4. CopiesOf(e) = Cardinality(Copies) /\ CopiesOf(e)' = Cardinality(Copies')
      BY DEF CopiesOf
    <3> HIDE DEF Copies
    <3>5. Cardinality(Copies) + 1 <= Cardinality(Copies')
      BY <3>2, <3>3, OneLess
    <3> QED BY <3>4, <3>5
  <2>3. Causes(e, s) + 1 <= Causes(e, s)'
    BY <2>2, CausesAdd
  <2> QED BY <1>4, <1>5, <1>6, <2>1, <2>3, CopyBack
<1>8. CASE f # e
  <2>1. Ahead(e)' \subseteq Ahead(e)
    BY <1>2, <1>3, <1>8 DEF Ahead, After
  <2> QED BY <1>4, <1>5, <1>6, <2>1, NothingOwed
<1> QED BY <1>7, <1>8

\* The steps of tenants, of the retry worker and of requests.
LEMMA ElsewhereBalance ==
    ASSUME CInv, OInv, SlotsInv, BulkInv, [Next]_vars, NEW e \in Events, NEW s \in Subs,
           Balance(e, s), UNCHANGED consumerVars
    PROVE  Balance(e, s)'
<1>0. /\ TInv /\ HistoryKept /\ owner \subseteq Consumers
      /\ sub \in [Subs -> {"absent", "enabled", "disabled", "deleted"}]
      /\ UNCHANGED <<log, committed, owner, con>>
  BY StepKeeps DEF CInv, HInv, Kept, TInv, TypeOK, ConsumersTypeOK, TablesTypeOK, consumerVars
<1>1. Ahead(e)' = Ahead(e)
  BY <1>0, AheadStays
<1>2. Awaiting(e, s)' = Awaiting(e, s)
  <2>1. \A d \in Consumers : d \in Awaiting(e, s)' <=> d \in Awaiting(e, s)
    BY <1>0, StillAwaiting
  <2> QED BY <2>1 DEF Awaiting
<1>3. CASE \A t \in Subs : sub'[t] = "deleted" <=> sub[t] = "deleted"
  <2>1. OwnerDoomed' <=> OwnerDoomed
    <3>1. \A c \in owner : con[c].todo \subseteq Subs
      BY <1>0 DEF TInv, TypeOK, ConsumersTypeOK, ConsumerType
    <3> QED BY <1>0, <1>3, <3>1 DEF OwnerDoomed
  <2>2. ~(\E c \in Consumers : CreateFirst(c))
    <3>1. con \in [Consumers -> ConsumerType]
      BY <1>0 DEF TInv, TypeOK, ConsumersTypeOK
    <3>2. ASSUME NEW c \in Consumers, CreateFirst(c) PROVE FALSE
      <4>1. con[c].pc = "create" /\ con'[c].pc = "deliver"
        BY <3>1, <3>2 DEF CreateFirst, At, ConsumerType
      <4> QED BY <1>0, <4>1
    <3> QED BY <3>2
  <2>3. 1 \in 1..MAX_ATTEMPTS
    BY ScheduleAssumption
  <2>4. CASE Made(e, s, 1)' <= Made(e, s, 1)
    BY <1>1, <1>2, <2>1, <2>4, NothingOwed
  <2>5. CASE /\ Made(e, s, 1)' <= Made(e, s, 1) + 1
             /\ \E y : y \in Spent(e, s, 1)' \ Spent(e, s, 1)
    BY <1>1, <1>2, <2>1, <2>5, ElsewherePaid
  <2> QED BY <2>2, <2>3, <2>4, <2>5, RunsPaidStep
<1>4. CASE \E t \in Subs : createSubscription(t) \/ updateSubscription(t)
  BY <1>0, <1>3, <1>4 DEF createSubscription, updateSubscription
<1>5. CASE \E t \in Subs : deleteSubscription(t)
  <2>1. PICK t \in Subs : deleteSubscription(t)
    BY <1>5
  <2>2. t \in Deleted' \ Deleted
    BY <1>0, <2>1 DEF deleteSubscription, Deleted
  <2>3. Made(e, s, 1)' <= Made(e, s, 1)
    <3>1. AttemptsOf(e, s, 1)' \subseteq AttemptsOf(e, s, 1)
      BY <2>1 DEF deleteSubscription, AttemptsOf
    <3>2. ~\E k \in Slots : Take(k)
      BY <2>2 DEF Take, Deleted
    <3> QED BY <3>1, <3>2, MadeStays
  <2> QED BY <1>1, <1>2, <2>2, <2>3, ElsewherePaid
<1> QED BY <1>0, <1>3, <1>4, <1>5, DeletedGrows

\* The inductive invariant of the first attempts.
FanInv == /\ CInv /\ OInv /\ SlotsInv /\ BulkInv
          /\ \A e \in Events, s \in Subs : Balance(e, s)

LEMMA FanInvStep == FanInv /\ [Next]_vars => FanInv'
<1> SUFFICES ASSUME FanInv, [Next]_vars PROVE FanInv'
  OBVIOUS
<1>0. CInv /\ OInv /\ SlotsInv /\ BulkInv
  BY DEF FanInv
<1>1. CInv' /\ OInv' /\ SlotsInv' /\ BulkInv'
  BY <1>0, CInvStep, OInvStep, SlotsStep, BulkStep
<1>2. ASSUME NEW e \in Events, NEW s \in Subs PROVE Balance(e, s)'
  <2>0. Balance(e, s)
    BY DEF FanInv
  <2>1. CASE UNCHANGED consumerVars
    BY <1>0, <2>0, <2>1, ElsewhereBalance
  <2>2. CASE Produce /\ UNCHANGED slot
    BY <1>0, <2>0, <2>2, ProduceBalance
  <2>3. ASSUME NEW c \in Consumers, ConsumerStep(c) \/ ConsumerFault(c), UNCHANGED slot
        PROVE  Balance(e, s)'
    <3>1. InLoop(c) \/ AtEdge(c) \/ UNCHANGED consumerVars
      BY <2>3 DEF ConsumerStep, ConsumerFault, ScheduleUnanswered, InLoop, AtEdge, Fails
    <3> QED BY <1>0, <2>0, <2>1, <2>3, <3>1, LoopBalance, EdgeBalance
  <2> QED BY <2>1, <2>2, <2>3 DEF Next, ConsumersNext, vars, retryVars
<1> QED BY <1>1, <1>2 DEF FanInv

LEMMA FanInvInit == Init => FanInv
<1> SUFFICES ASSUME Init PROVE FanInv
  OBVIOUS
<1>1. CInv /\ TInv /\ OInv /\ SlotsInv /\ BulkInv
  BY CInvInit, OInvInit, TInvInit, RInvInit DEF RInv
<1>2. /\ attempts = <<>> /\ con = [c \in Consumers |-> Out] /\ owner = {} /\ log = <<>>
      /\ slot = [k \in Slots |-> Free]
  BY DEF Init, TablesInit, ConsumersInit, RetryInit
<1>3. ASSUME NEW e \in Events, NEW s \in Subs PROVE Balance(e, s)
  <2>1. /\ AttemptsOf(e, s, 1) = {} /\ Runners(e, s, 1) = {} /\ Awaiting(e, s) = {}
        /\ Ahead(e) = {} /\ ~OwnerDoomed
    BY <1>2
    DEF AttemptsOf, Runners, Free, Awaiting, Ahead, OwnerDoomed, Out, NotCreated, InHand
  <2>2. IsFiniteSet({}) /\ Cardinality({}) = 0
    BY FS_EmptySet
  <2>3. Owed(e, s) = 0
    BY <2>1, <2>2 DEF Owed, Made, Doomed
  <2>4. Causes(e, s) \in Nat
    BY <1>1, Quantities DEF Causes
  <2> QED BY <2>1, <2>2, <2>3, <2>4 DEF Balance
<1> QED BY <1>1, <1>3 DEF FanInv

\* What the fan-out has recorded, and may still record, never exceeds the copies
\* of the message, the failures, the deletions and the spent runs of replays
\* (delivery.worker.js 25-150).
THEOREM FanOutIsPaid == Spec => []FanInv
BY FanInvInit, FanInvStep, PTL DEF Spec

LEMMA FanInvImpliesCause == FanInv => EveryRedeliveryHasCause
<1> SUFFICES ASSUME FanInv, NEW e \in Events, NEW s \in Subs
             PROVE  Cardinality(AttemptsOf(e, s, 1))
                      <= CopiesOf(e) + faults + Cardinality(Deleted)
                         + Cardinality(RunsOf(e, s, 1))
  BY DEF EveryRedeliveryHasCause
<1>1. TInv /\ Balance(e, s)
  BY DEF FanInv, CInv, HInv
<1>2. /\ Made(e, s, 1) \in Nat /\ Cardinality(Awaiting(e, s)) \in Nat
      /\ Cardinality(Ahead(e)) \in Nat /\ Doomed \in Nat
      /\ CopiesOf(e) \in Nat /\ faults \in Nat
      /\ Cardinality(Deleted) \in Nat /\ Cardinality(Spent(e, s, 1)) \in Nat
  BY <1>1, Quantities DEF Balance
<1>3. Cardinality(AttemptsOf(e, s, 1)) <= Causes(e, s)
  <2>1. Made(e, s, 1) <= Causes(e, s) /\ Causes(e, s) \in Nat
    BY <1>1, <1>2 DEF Balance, Owed, Causes
  <2>2. Cardinality(AttemptsOf(e, s, 1)) \in Nat
        /\ Cardinality(AttemptsOf(e, s, 1)) <= Made(e, s, 1)
    BY <1>1, SpentFinite
  <2> QED BY <1>2, <2>1, <2>2
<1>4. /\ Cardinality(RunsOf(e, s, 1)) \in Nat
      /\ Cardinality(AttemptsOf(e, s, 1)) \in Nat
      /\ Cardinality(Spent(e, s, 1)) <= Cardinality(RunsOf(e, s, 1))
  BY <1>1, SpentFinite, TablesFinite, FS_CardinalityType
<1> QED BY <1>2, <1>3, <1>4 DEF Causes

\* A subscription is sent an event for the first time once for each copy on the
\* partition and each run of a replay's job, and once more at most for each
\* failure or deletion that makes a worker fetch its message again (README.md:340).
THEOREM RedeliveriesHaveCauses == Spec => []EveryRedeliveryHasCause
BY FanOutIsPaid, FanInvImpliesCause, PTL

-----------------------------------------------------------------------------
(* What is left behind is left to a failure.                               *)

Indexed(a) == \E x \in indexJobs : x.attempt = a

\* The row is final and has its consequences in place.
Settled(a) ==
    /\ a \in DOMAIN attempts
    /\ attempts[a].status # "pending"
    /\ Indexed(a)
    /\ attempts[a].status = "failed" =>
         RetryAdded(attempts[a].event, attempts[a].sub, attempts[a].number + 1)
    /\ attempts[a].status = "dead_lettered" =>
         DeadLettered(attempts[a].event, attempts[a].sub)

\* The retry worker settles its row before its processor returns.
SlotAttended(k) ==
    /\ slot[k].pc \in {"bury", "again"} => Indexed(slot[k].attempt)
    /\ slot[k].pc = "return" => slot[k].attempt = 0 \/ Settled(slot[k].attempt)
    /\ slot[k].pc \in NotCreated => slot[k].attempt = 0
    /\ ~SlotAt(k, "idle") => build = "repaired"

\* So does a delivery worker before it goes on.
Attended == /\ \A c \in Consumers : con[c].pc = "retry" => Indexed(con[c].attempt)
            /\ \A k \in Slots : SlotAttended(k)

UInv == CInv /\ (build # "vitest" => Attended) /\ LooseEndsNeedFaults

LEMMA IndexedStays ==
    ASSUME [Next]_vars
    PROVE  /\ indexJobs \subseteq indexJobs'
           /\ \A a : Indexed(a) => Indexed(a)'
<1>1. indexJobs \subseteq indexJobs'
  <2>1. ASSUME NEW a, NEW status, addIndexJob(a, status) PROVE indexJobs \subseteq indexJobs'
    BY <2>1 DEF addIndexJob
  <2>2. CASE TablesNext \/ UNCHANGED vars
    BY <2>2
    DEF TablesNext, createSubscription, updateSubscription, deleteSubscription, vars,
        tableVars
  <2>3. CASE ConsumersNext
    BY <2>1, <2>3
    DEF ConsumersNext, Produce, ConsumerStep, ConsumerFault, Join, Fetch,
        LoadSubscriptions, CreateFirst, CreateRefused, Deliver, ResolveFirst, IndexFirst,
        ScheduleRetry, CommitOffset, Fenced, ScheduleUnanswered, Throw, CommitThrows,
        Crash, Evict, tableVars
  <2>4. CASE RetryNext
    BY <2>1, <2>4
    DEF RetryNext, SlotStep, Take, Load, CreateNext, NextRefused, Redeliver, ResolveNext,
        IndexNext, IndexUnbound, JobFails, Bury, RetryAgain, AgainUnanswered, Complete,
        RetryThrow, LoseLock, RetryCrash, Stalled, tableVars
  <2>5. CASE RedeliveryNext
    BY <2>5
    DEF RedeliveryNext, replaySubscription, ReadEvents, AddBulk, BulkUnanswered,
        ReplayFails, retryDeadLetter, LoadLetter, CreateManual, DeliverManual, ResolveLetter,
        RecordFailure, ManualFails, tableVars
  <2> QED BY <2>2, <2>3, <2>4, <2>5 DEF Next
<1> QED BY <1>1 DEF Indexed

LEMMA SettledStays ==
    ASSUME CInv, [Next]_vars, NEW a, Settled(a)
    PROVE  Settled(a)'
<1>1. HistoryKept /\ JobsKept /\ LettersKept
  BY StepSolid DEF CInv, Solid, Kept
<1>2. a \in DOMAIN attempts' /\ attempts'[a] = attempts[a]
  BY <1>1 DEF Settled, HistoryKept
<1>3. \A e, s, n : RetryAdded(e, s, n) => RetryAdded(e, s, n)'
  BY <1>1 DEF RetryAdded, JobsKept
<1>4. \A e, s : DeadLettered(e, s) => DeadLettered(e, s)'
  BY <1>1 DEF DeadLettered, LettersKept
<1> QED BY <1>2, <1>3, <1>4, IndexedStays DEF Settled

\* A slot moves by the code of the worker, or a failure frees it.
LEMMA SlotFreed ==
    ASSUME CInv, [Next]_vars, NEW k \in Slots
    PROVE  \/ slot'[k] = slot[k] \/ SlotStep(k)
           \/ slot'[k] = [slot[k] EXCEPT !.locked = FALSE]
           \/ slot'[k] = Free /\ retryFaults' = retryFaults + 1
<1>0. slot \in [Slots -> SlotType]
  BY DEF CInv, HInv, TInv, TypeOK, RetryTypeOK
<1>1. ASSUME NEW i \in Slots, i # k, SlotStep(i) PROVE slot'[k] = slot[k]
  BY <1>0, <1>1
  DEF SlotStep, Take, Load, CreateNext, NextRefused, Redeliver, ResolveNext, IndexNext,
      IndexUnbound, JobFails, Bury, RetryAgain, Complete
<1>2. ASSUME NEW i \in Slots, RetryThrow(i)
      PROVE  slot'[k] = slot[k] \/ (slot'[k] = Free /\ retryFaults' = retryFaults + 1)
  BY <1>0, <1>2 DEF RetryThrow, JobFails, RetryFault
<1>3. ASSUME NEW i \in Slots, LoseLock(i)
      PROVE  slot'[k] = slot[k] \/ slot'[k] = [slot[k] EXCEPT !.locked = FALSE]
  BY <1>0, <1>3 DEF LoseLock
<1>4. CASE RetryCrash
  BY <1>4 DEF RetryCrash, RetryFault
<1>5. CASE UNCHANGED slot
  BY <1>5
<1>6. CASE \E i \in Slots : AgainUnanswered(i)
  BY <1>6 DEF AgainUnanswered
<1>7. UNCHANGED slot \/ RetryNext
  BY DEF Next, vars, retryVars
<1> QED BY <1>1, <1>2, <1>3, <1>4, <1>5, <1>6, <1>7 DEF RetryNext, Stalled

LEMMA BusyRow ==
    /\ \A c \in Consumers : con[c].pc \in InHand => con[c].attempt \in Busy
    /\ \A k \in Slots : ~SlotAt(k, "idle") => slot[k].attempt \in Busy
    /\ \A a \in Busy : \/ \E c \in Consumers : con[c].pc \in InHand /\ con[c].attempt = a
                       \/ \E k \in Slots : ~SlotAt(k, "idle") /\ slot[k].attempt = a
  BY DEF Busy, InHand, Attempt

\* A delivery worker settles its row before it lets go of it, unless it fails.
LEMMA ConsumerAttends ==
    ASSUME CInv, Attended, [Next]_vars, NEW c \in Consumers
    PROVE  /\ \A b : con[c].pc \in InHand /\ con[c].attempt = b =>
                \/ con'[c].pc \in InHand /\ con'[c].attempt = b
                \/ Settled(b)'
                \/ Fails(c)
           /\ (con[c].pc = "retry" => Indexed(con[c].attempt))'
<1>0. /\ TInv /\ con \in [Consumers -> ConsumerType] /\ con[c] \in ConsumerType
      /\ ConOK(con[c]) /\ ConAgrees(con[c])
  BY ConTyped DEF CInv, HInv, TInv, TypeOK, ConsumersTypeOK, Agreement
<1>1. con'[c] = con[c] \/ ConsumerStep(c) \/ Fails(c)
  BY ConMoves DEF ConsumerFault, ScheduleUnanswered, consumerVars, Fails
<1>2. CASE con'[c] = con[c]
  BY <1>2, IndexedStays DEF Attended
<1>8. CASE Fails(c)
  <2>1. con'[c] = con[c] \/ con'[c].pc \in {"poll", "out"}
    <3>1. CASE Throw(c) \/ CommitThrows(c)
      BY <1>0, <3>1 DEF Throw, CommitThrows, Polling, Out
    <3>2. CASE Crash(c) \/ Evict(c)
      BY <1>0, <3>2 DEF Crash, Evict, Out
    <3> QED BY <1>8, <3>1, <3>2 DEF Fails
  <2> QED BY <1>2, <1>8, <2>1
<1>3. CASE Deliver(c) \/ ResolveFirst(c) \/ CreateFirst(c)
  BY <1>0, <1>3 DEF Deliver, ResolveFirst, CreateFirst, At, ConsumerType, InHand
<1>4. CASE LoadSubscriptions(c) \/ Fetch(c)
  <2>1. con[c].pc \notin InHand /\ con'[c].pc # "retry"
    BY <1>0, <1>4 DEF LoadSubscriptions, Fetch, At, ConsumerType, InHand
  <2> QED BY <2>1
<1>5. CASE Join(c) \/ CreateRefused(c) \/ CommitOffset(c) \/ Fenced(c)
  <2>1. con[c].pc \notin InHand
    BY <1>5 DEF Join, CreateRefused, CommitOffset, Fenced, At, InHand
  <2>2. con'[c].pc \in {"poll", "out"}
    <3>1. CASE Join(c) \/ CreateRefused(c)
      BY <1>0, <3>1 DEF Join, CreateRefused, Polling, Out
    <3>2. CASE CommitOffset(c) \/ Fenced(c)
      <4>1. PICK x : x.pc \in {"poll", "out"} /\ con' = [con EXCEPT ![c] = x]
        <5>1. \A n : Polling(n).pc = "poll"
          BY DEF Polling, Out
        <5>2. Out.pc = "out"
          BY DEF Out
        <5> QED BY <3>2, <5>1, <5>2 DEF CommitOffset, Fenced
      <4> QED BY <1>0, <4>1
    <3> QED BY <1>5, <3>1, <3>2
  <2> QED BY <2>1, <2>2
<1>6. CASE IndexFirst(c)
  <2>1. PICK a : a = con[c].attempt
    OBVIOUS
  <2>2. /\ con[c].pc = "index" /\ a \in DOMAIN attempts
        /\ attempts[a].status = FirstStatus(con[c].success)
    BY <1>0, <1>6, <2>1 DEF IndexFirst, At, ConOK, ConAgrees, InHand
  <2>3. Indexed(a)'
    <3>1. PICK x : /\ x = [attempt |-> a, status |-> FirstStatus(con[c].success)]
                   /\ indexJobs' = indexJobs \cup {x}
      BY <1>6, <2>1 DEF IndexFirst, addIndexJob, Attempt
    <3>2. x.attempt = a
      BY <3>1
    <3> QED BY <3>1, <3>2 DEF Indexed
  <2>4. UNCHANGED attempts
    BY <1>6 DEF IndexFirst
  <2>5. CASE con[c].success
    <3>1. FirstDelay(con[c].success) = NoDelay /\ attempts[a].status = "success"
      BY <2>2, <2>5 DEF FirstDelay, FirstStatus
    <3>2. Settled(a)'
      BY <2>2, <2>3, <2>4, <3>1 DEF Settled
    <3>3. con'[c].pc # "retry"
      <4>1. PICK x : x = DoneWithOne(c) /\ con' = [con EXCEPT ![c] = x]
        BY <1>6, <3>1 DEF IndexFirst
      <4>2. x.pc # "retry"
        BY <4>1 DEF DoneWithOne, Out
      <4> QED BY <1>0, <4>1, <4>2
    <3> QED BY <2>1, <3>2, <3>3
  <2>6. CASE ~con[c].success
    <3>1. FirstDelay(con[c].success) # NoDelay
      BY <2>6, FirstDelayExists DEF FirstDelay
    <3>2. con'[c].pc = "retry" /\ con'[c].attempt = con[c].attempt
      BY <1>0, <1>6, <3>1 DEF IndexFirst, ConsumerType
    <3> QED BY <2>1, <2>3, <3>2 DEF InHand
  <2> QED BY <2>5, <2>6
<1>7. CASE ScheduleRetry(c)
  <2>1. PICK a, e, s, delay : /\ a = con[c].attempt /\ e = Event(c) /\ s = attempts[a].sub
                              /\ delay = computeRetryDelay(1)
    OBVIOUS
  <2>2. /\ con[c].pc = "retry" /\ a \in DOMAIN attempts /\ attempts[a].status = "failed"
        /\ attempts[a].event = e /\ attempts[a].number = 1
    BY <1>0, <1>7, <2>1 DEF ScheduleRetry, At, ConOK, ConAgrees, InHand, Event
  <2>3. e \in Events /\ s \in Subs /\ delay \in Nat /\ TakesEffect(e, s, 2, delay)
        /\ UNCHANGED attempts
    BY <1>7, <2>1, ScheduleAdds DEF Schedules, ScheduleRetry, Attempt
  <2>4. RetryAdded(e, s, 2)'
    <3>1. TInv /\ 2 \in Nat
      BY <1>0
    <3>2. PICK j \in DOMAIN jobs' : /\ jobs'[j].event = e /\ jobs'[j].sub = s
                                    /\ jobs'[j].number = 2
      BY <2>3, <3>1, JobQueued
    <3> QED BY <3>2 DEF RetryAdded
  <2>5. Indexed(a)'
    BY <2>1, <2>2, IndexedStays DEF Attended
  <2>6. Settled(a)'
    BY <2>1, <2>2, <2>3, <2>4, <2>5 DEF Settled
  <2>7. con'[c].pc # "retry"
    <3>1. PICK x : x = DoneWithOne(c) /\ con' = [con EXCEPT ![c] = x]
      BY <1>7 DEF ScheduleRetry
    <3>2. x.pc # "retry"
      BY <3>1 DEF DoneWithOne, Out
    <3> QED BY <1>0, <3>1, <3>2
  <2> QED BY <2>1, <2>6, <2>7
<1> QED BY <1>1, <1>2, <1>3, <1>4, <1>5, <1>6, <1>7, <1>8 DEF ConsumerStep

\* So does the retry worker.
LEMMA SlotAttends ==
    ASSUME CInv, build # "vitest", Attended, [Next]_vars, NEW k \in Slots
    PROVE  /\ \A b \in DOMAIN attempts : ~SlotAt(k, "idle") /\ slot[k].attempt = b =>
                \/ ~SlotAt(k, "idle")' /\ slot'[k].attempt = b
                \/ Settled(b)'
                \/ retryFaults' = retryFaults + 1
           /\ SlotAttended(k)'
<1>0. /\ TInv /\ slot \in [Slots -> SlotType] /\ slot[k] \in SlotType
      /\ SlotAttended(k) /\ SlotAgrees(slot[k])
      /\ attempts \in Seq(AttemptType) /\ 0 \notin DOMAIN attempts
  BY DEF CInv, HInv, TInv, TypeOK, RetryTypeOK, TablesTypeOK, Agreement, Attended
<1>1. \/ slot'[k] = slot[k] \/ SlotStep(k) \/ slot'[k] = [slot[k] EXCEPT !.locked = FALSE]
      \/ slot'[k] = Free /\ retryFaults' = retryFaults + 1
  BY SlotFreed
<1>2. build' = build
  BY DEF Next, vars, retryVars
<1>3. PICK a, pc : a = slot[k].attempt /\ pc = slot[k].pc
  OBVIOUS
<1>4. CASE slot'[k] = slot[k] \/ slot'[k] = [slot[k] EXCEPT !.locked = FALSE]
  <2>1. slot'[k].pc = slot[k].pc /\ slot'[k].attempt = slot[k].attempt
    BY <1>0, <1>4 DEF SlotType
  <2> QED BY <1>0, <1>2, <2>1, IndexedStays, SettledStays DEF SlotAttended, SlotAt
<1>15. CASE slot'[k] = Free /\ retryFaults' = retryFaults + 1
  BY <1>15 DEF Free, SlotAttended, SlotAt, NotCreated
<1>5. CASE Take(k)
  <2>1. build = "repaired"
    BY <1>0, <1>5 DEF Take, Starts, TInv, TypeOK, RetryTypeOK
  <2>2. pc = "idle" /\ slot'[k].pc = "load" /\ slot'[k].attempt = 0
    BY <1>0, <1>3, <1>5 DEF Take, SlotAt, Free
  <2> QED BY <1>2, <1>3, <2>1, <2>2 DEF SlotAttended, SlotAt
<1>6. CASE Load(k)
  <2>1. pc = "load" /\ slot'[k].pc \in {"create", "return"} /\ slot'[k].attempt = a
    BY <1>0, <1>3, <1>6 DEF Load, SlotAt, SlotType
  <2> QED BY <1>0, <1>2, <1>3, <2>1 DEF SlotAttended, SlotAt, NotCreated
<1>7. CASE CreateNext(k) \/ NextRefused(k)
  <2>1. pc = "create" /\ a = 0
    BY <1>0, <1>3, <1>7 DEF CreateNext, NextRefused, SlotAt, SlotAttended, NotCreated
  <2>2. slot'[k].pc \in {"deliver", "idle"}
    BY <1>0, <1>7 DEF CreateNext, NextRefused, JobFails, Free, SlotType
  <2> QED BY <1>0, <1>2, <1>3, <2>1, <2>2 DEF SlotAttended, SlotAt, NotCreated
<1>8. CASE Redeliver(k) \/ ResolveNext(k)
  <2>1. pc \in {"deliver", "resolve"} /\ slot'[k].pc \in {"resolve", "index"}
    <3>1. CASE Redeliver(k)
      BY <1>0, <1>3, <3>1 DEF Redeliver, SlotAt, SlotType
    <3>2. CASE ResolveNext(k)
      <4>1. slot' = [slot EXCEPT ![k].pc = "index"] /\ pc = "resolve"
        BY <1>3, <3>2 DEF ResolveNext, SlotAt
      <4> QED BY <1>0, <4>1 DEF SlotType
    <3> QED BY <1>8, <3>1, <3>2
  <2>2. slot'[k].attempt = a
    <3>1. CASE Redeliver(k)
      BY <1>0, <1>3, <3>1 DEF Redeliver, SlotType
    <3>2. CASE ResolveNext(k)
      <4>1. slot' = [slot EXCEPT ![k].pc = "index"]
        BY <3>2 DEF ResolveNext
      <4> QED BY <1>0, <1>3, <4>1 DEF SlotType
    <3> QED BY <1>8, <3>1, <3>2
  <2> QED BY <1>0, <1>2, <1>3, <2>1, <2>2 DEF SlotAttended, SlotAt, NotCreated
<1>9. CASE IndexNext(k)
  <2>1. /\ pc = "index" /\ a \in DOMAIN attempts /\ attempts[a].status = Outcome(slot[k])
    BY <1>0, <1>3, <1>9 DEF IndexNext, SlotAt, SlotAgrees, HasRow
  <2>2. Indexed(a)'
    <3>1. PICK x : /\ x = [attempt |-> a, status |-> StatusOf(k)]
                   /\ indexJobs' = indexJobs \cup {x}
      BY <1>3, <1>9 DEF IndexNext, addIndexJob
    <3>2. x.attempt = a
      BY <3>1
    <3> QED BY <3>1, <3>2 DEF Indexed
  <2>3. UNCHANGED attempts /\ slot'[k].pc = AfterIndex(k) /\ slot'[k].attempt = a
    BY <1>0, <1>3, <1>9 DEF IndexNext, SlotType
  <2>4. AfterIndex(k) \in {"return", "bury", "again"}
        /\ (AfterIndex(k) = "return" => slot[k].success)
    BY DEF AfterIndex
  <2>5. AfterIndex(k) = "return" => Settled(a)'
    BY <2>1, <2>2, <2>3, <2>4 DEF Outcome, Settled
  <2> QED BY <1>0, <1>2, <1>3, <2>1, <2>2, <2>3, <2>4, <2>5
          DEF SlotAttended, SlotAt, NotCreated
<1>10. CASE IndexUnbound(k)
  BY <1>0, <1>10 DEF IndexUnbound, Imported, SlotAttended, SlotAt
<1>11. ASSUME pc \in {"bury", "again"}, slot' = [slot EXCEPT ![k].pc = "return"], Settled(a)'
       PROVE  ~SlotAt(k, "idle")' /\ slot'[k].attempt = a /\ SlotAttended(k)'
  <2>1. slot'[k].pc = "return" /\ slot'[k].attempt = a
    BY <1>0, <1>3, <1>11 DEF SlotType
  <2> QED BY <1>0, <1>2, <1>3, <1>11, <2>1 DEF SlotAttended, SlotAt, NotCreated
<1>12. CASE Bury(k)
  <2>1. /\ pc = "bury" /\ a \in DOMAIN attempts /\ attempts[a].status = "dead_lettered"
        /\ attempts[a].event = JobOf(k).event /\ attempts[a].sub = JobOf(k).sub
    BY <1>0, <1>3, <1>12 DEF Bury, SlotAt, SlotAgrees, HasRow, JobOf
  <2>2. Indexed(a)'
    BY <1>0, <1>3, <2>1, IndexedStays DEF SlotAttended
  <2>3. PICK e, s, n : e = JobOf(k).event /\ s = JobOf(k).sub /\ n = JobOf(k).number
    OBVIOUS
  <2>4. DeadLettered(e, s)'
    <3>1. e \in Events /\ s \in Subs /\ n \in Nat
      BY <1>0, <1>3, <2>1, <2>3, SlotTyped DEF SlotAt
    <3>2. createDeadLetter(e, s, n)
      BY <1>12, <2>3 DEF Bury
    <3> QED BY <1>0, <3>1, <3>2, LetterWritten
  <2>5. UNCHANGED attempts /\ slot' = [slot EXCEPT ![k].pc = "return"]
    BY <1>12 DEF Bury
  <2>6. Settled(a)'
    BY <2>1, <2>2, <2>3, <2>4, <2>5 DEF Settled
  <2> QED BY <1>11, <2>1, <2>5, <2>6
<1>13. CASE RetryAgain(k)
  <2>1. /\ pc = "again" /\ a \in DOMAIN attempts /\ attempts[a].status = "failed"
        /\ attempts[a].event = JobOf(k).event /\ attempts[a].sub = JobOf(k).sub
        /\ attempts[a].number = JobOf(k).number
    BY <1>0, <1>3, <1>13 DEF RetryAgain, SlotAt, SlotAgrees, HasRow, JobOf
  <2>2. Indexed(a)'
    BY <1>0, <1>3, <2>1, IndexedStays DEF SlotAttended
  <2>3. PICK e, s, n, delay : /\ e = JobOf(k).event /\ s = JobOf(k).sub
                              /\ n = JobOf(k).number + 1
                              /\ delay = computeRetryDelay(JobOf(k).number)
    OBVIOUS
  <2>4. RetryAdded(e, s, n)'
    <3>1. /\ e \in Events /\ s \in Subs /\ n \in Nat /\ delay \in Nat
          /\ TakesEffect(e, s, n, delay)
      BY <1>13, <2>3, AgainAdds DEF Follows
    <3>2. TInv
      BY <1>0
    <3>3. PICK j \in DOMAIN jobs' : /\ jobs'[j].event = e /\ jobs'[j].sub = s
                                    /\ jobs'[j].number = n
      BY <3>1, <3>2, JobQueued
    <3> QED BY <3>3 DEF RetryAdded
  <2>5. UNCHANGED attempts /\ slot' = [slot EXCEPT ![k].pc = "return"]
    BY <1>13 DEF RetryAgain
  <2>6. Settled(a)'
    BY <2>1, <2>2, <2>3, <2>4, <2>5 DEF Settled
  <2> QED BY <1>11, <2>1, <2>5, <2>6
<1>14. CASE Complete(k)
  <2>1. pc = "return" /\ slot'[k].pc = "idle"
    BY <1>0, <1>3, <1>14 DEF Complete, SlotAt, Free
  <2>2. a = 0 \/ Settled(a)'
    BY <1>0, <1>3, <2>1, SettledStays DEF SlotAttended
  <2> QED BY <1>0, <1>3, <2>1, <2>2 DEF SlotAttended, SlotAt, NotCreated
<1> QED BY <1>1, <1>4, <1>5, <1>6, <1>7, <1>8, <1>9, <1>10, <1>12, <1>13, <1>14, <1>15
        DEF SlotStep

\* A row that a step adds is in the hands of the worker that added it, or is one
\* of a manual retry.
LEMMA NewRow ==
    ASSUME CInv, [Next]_vars, NEW a \in DOMAIN attempts', a \notin DOMAIN attempts
    PROVE  \/ \E c \in Consumers : con'[c].pc \in InHand /\ con'[c].attempt = a
           \/ \E k \in Slots : ~SlotAt(k, "idle")' /\ slot'[k].attempt = a
           \/ attempts'[a].number = MAX_ATTEMPTS + 1
<1>0. TInv /\ con \in [Consumers -> ConsumerType] /\ slot \in [Slots -> SlotType]
  BY DEF CInv, HInv, TInv, TypeOK, ConsumersTypeOK, RetryTypeOK
<1>1. ASSUME NEW e \in Events, NEW s \in Subs, NEW n \in Nat, createPendingAttempt(e, s, n)
      PROVE  a = NewAttempt /\ attempts'[a].number = n
  <2>1. a = NewAttempt
    BY <1>0, <1>1, AttemptCreated DEF TInv, TypeOK, TablesTypeOK
  <2> QED BY <1>0, <1>1, <2>1, CreatedIsNew
<1>2. ASSUME NEW c \in Consumers, CreateFirst(c)
      PROVE  con'[c].pc \in InHand /\ con'[c].attempt = a
  <2>1. PICK f : f = Event(c)
    OBVIOUS
  <2>2. PICK t : t \in Subs /\ createPendingAttempt(f, t, 1)
    BY <1>2, <2>1, FirstAdds
  <2>3. f \in Events
    BY <1>2, <2>1, FirstAdds
  <2>4. a = NewAttempt
    BY <1>1, <2>2, <2>3
  <2> QED BY <1>0, <1>2, <2>4 DEF CreateFirst, ConsumerType, InHand
<1>3. ASSUME NEW k \in Slots, CreateNext(k)
      PROVE  ~SlotAt(k, "idle")' /\ slot'[k].attempt = a
  <2>1. PICK f, t, n : f = JobOf(k).event /\ t = JobOf(k).sub /\ n = JobOf(k).number
    OBVIOUS
  <2>2. f \in Events /\ t \in Subs /\ n \in Nat /\ createPendingAttempt(f, t, n)
    BY <1>0, <1>3, <2>1, SlotTyped DEF CreateNext, SlotAt
  <2>3. a = NewAttempt
    BY <1>1, <2>2
  <2> QED BY <1>0, <1>3, <2>3 DEF CreateNext, SlotAt, SlotType
<1>4. ASSUME NEW m \in ManualRetries, CreateManual(m)
      PROVE  attempts'[a].number = MAX_ATTEMPTS + 1
  <2>1. PICK f, t : f = Letter(m).event /\ t = Letter(m).sub
    OBVIOUS
  <2>2. /\ f \in Events /\ t \in Subs /\ createPendingAttempt(f, t, MAX_ATTEMPTS + 1)
        /\ MAX_ATTEMPTS + 1 \in Nat
    BY <1>4, <2>1, ManualAdds
  <2> QED BY <1>1, <2>2
<1>5. CreatesRow
  BY SameRows
<1> QED BY <1>2, <1>3, <1>4, <1>5 DEF CreatesRow

\* A row that becomes loose was in the hands of the worker that failed.
LEMMA RowLost ==
    ASSUME CInv, build # "vitest", Attended, [Next]_vars,
           NEW a \in LooseEnds', a \notin LooseEnds
    PROVE  \/ \E c \in Consumers : Fails(c) /\ con[c].attempt = a /\ con'[c] # con[c]
           \/ retryFaults' = retryFaults + 1 /\ \E k \in Slots : slot[k].attempt = a
<1>1. /\ a \in DOMAIN attempts' /\ a \notin Busy' /\ attempts'[a].number <= MAX_ATTEMPTS
      /\ ~Settled(a)'
  BY DEF LooseEnds, FollowedUp, Settled, Indexed
<1>2. /\ \A c \in Consumers : con'[c].pc \in InHand => con'[c].attempt # a
      /\ \A k \in Slots : ~SlotAt(k, "idle")' => slot'[k].attempt # a
  BY <1>1 DEF Busy, InHand, Attempt, SlotAt
<1>3. MAX_ATTEMPTS \in Nat /\ HistoryKept
  BY ScheduleAssumption, StepKeeps DEF CInv, HInv, Kept
<1>4. a \in DOMAIN attempts
  BY <1>1, <1>2, <1>3, NewRow
<1>5. attempts[a].number <= MAX_ATTEMPTS
  BY <1>1, <1>3, <1>4 DEF HistoryKept
<1>6. CASE a \notin Busy
  <2>1. ~Settled(a)
    BY <1>1, SettledStays
  <2> QED BY <1>4, <1>5, <1>6, <2>1 DEF LooseEnds, FollowedUp, Settled, Indexed
<1>7. ASSUME NEW c \in Consumers, con[c].pc \in InHand, con[c].attempt = a
      PROVE  Fails(c) /\ con'[c] # con[c]
  BY <1>1, <1>2, <1>7, ConsumerAttends
<1>8. ASSUME NEW k \in Slots, ~SlotAt(k, "idle"), slot[k].attempt = a
      PROVE  retryFaults' = retryFaults + 1
  BY <1>1, <1>2, <1>4, <1>8, SlotAttends
<1> QED BY <1>6, <1>7, <1>8, BusyRow

\* A failure of a delivery worker is no other worker's.
LEMMA OneFails ==
    ASSUME CInv, [Next]_vars, NEW c \in Consumers, Fails(c)
    PROVE  /\ faults' = faults + 1 /\ retryFaults' = retryFaults
           /\ \A d \in Consumers \ {c} : con'[d] = con[d]
<1>1. TInv /\ faults \in Nat
  BY DEF CInv, HInv, TInv, TypeOK, ConsumersTypeOK
<1>2. faults' = faults + 1
  BY DEF Fails, Throw, CommitThrows, Crash, Evict, Fault
<1>3. ~UNCHANGED consumerVars
  BY <1>1, <1>2 DEF consumerVars
<1>4. retryFaults' = retryFaults
  BY <1>3 DEF Next, vars, retryVars
<1>5. \A d \in Consumers \ {c} : con'[d] = con[d]
  BY <1>1, ConsumerFrame DEF Fails, ConsumerFault
<1> QED BY <1>2, <1>4, <1>5

LEMMA LooseEndsFinite ==
    ASSUME TInv
    PROVE  IsFiniteSet(LooseEnds)
<1>1. LooseEnds \subseteq DOMAIN attempts
  BY DEF LooseEnds
<1> QED BY <1>1, TablesFinite, FewerOf

\* Each failure leaves as many rows as its worker had in hand.
LEMMA LooseEndsStep ==
    ASSUME UInv, build # "vitest", [Next]_vars
    PROVE  Cardinality(LooseEnds') <= faults' + retryFaults' * Cardinality(Slots)
<1>0. /\ CInv /\ TInv /\ Attended
      /\ Cardinality(LooseEnds) <= faults + retryFaults * Cardinality(Slots)
  BY DEF UInv, CInv, HInv, LooseEndsNeedFaults
<1>1. /\ faults \in Nat /\ retryFaults \in Nat /\ faults' \in Nat /\ retryFaults' \in Nat
      /\ faults <= faults' /\ retryFaults <= retryFaults'
  BY <1>0, FaultsGrow
<1> DEFINE L == LooseEnds
           N == Cardinality(Slots)
<1>2. IsFiniteSet(L) /\ Cardinality(L) \in Nat /\ N \in Nat /\ IsFiniteSet(Slots)
  BY <1>0, LooseEndsFinite, RetryAssumption, FS_CardinalityType
<1>3. Cardinality(L) <= faults + retryFaults * N
  BY <1>0
<1> HIDE DEF L, N
<1>4. CASE \E c \in Consumers : Fails(c)
  <2>1. PICK c \in Consumers : Fails(c)
    BY <1>4
  <2>2. /\ faults' = faults + 1 /\ retryFaults' = retryFaults
        /\ \A d \in Consumers \ {c} : con'[d] = con[d]
    BY <1>0, <2>1, OneFails
  <2>3. retryFaults' # retryFaults + 1
    BY <1>1, <2>2
  <2>4. L' \subseteq L \cup {con[c].attempt}
    BY <1>0, <2>2, <2>3, RowLost DEF L
  <2>5. Cardinality(L') \in Nat /\ Cardinality(L') <= Cardinality(L) + 1
    BY <1>2, <2>4, OneMore
  <2>6. retryFaults * N \in Nat
    BY <1>1, <1>2
  <2> QED BY <1>1, <1>2, <1>3, <2>2, <2>5, <2>6 DEF L, N
<1>5. CASE retryFaults' = retryFaults + 1 /\ ~\E c \in Consumers : Fails(c)
  <2> DEFINE R == {slot[k].attempt : k \in Slots}
             row == [k \in Slots |-> slot[k].attempt]
  <2>1. IsFiniteSet(R) /\ Cardinality(R) <= N
    <3>1. row \in Surjection(Slots, R)
      BY DEF Surjection
    <3> HIDE DEF row, R
    <3> QED BY <1>2, <3>1, FS_Surjection DEF N
  <2>2. L' \subseteq L \cup R
    BY <1>0, <1>5, RowLost DEF L
  <2> HIDE DEF R
  <2>3. /\ IsFiniteSet(L \cup R)
        /\ Cardinality(L \cup R) = Cardinality(L) + Cardinality(R) - Cardinality(L \cap R)
    BY <1>2, <2>1, FS_Union
  <2>4. Cardinality(L \cap R) \in Nat /\ Cardinality(R) \in Nat
    BY <1>2, <2>1, FS_Intersection, FS_CardinalityType
  <2>5. Cardinality(L') \in Nat /\ Cardinality(L') <= Cardinality(L \cup R)
    BY <2>2, <2>3, FewerOf
  <2>6. Cardinality(L') <= Cardinality(L) + N
    BY <1>2, <2>1, <2>3, <2>4, <2>5
  <2>7. retryFaults * N \in Nat /\ (retryFaults + 1) * N = retryFaults * N + N
    BY <1>1, <1>2
  <2>8. retryFaults' * N = retryFaults * N + N
    BY <1>5, <2>7
  <2>9. Cardinality(L') <= faults' + retryFaults' * N
    <3>1. PICK p, q : p = retryFaults * N /\ q = retryFaults' * N
      OBVIOUS
    <3>2. p \in Nat /\ q = p + N /\ Cardinality(L) <= faults + p
      BY <1>3, <2>7, <2>8, <3>1
    <3>3. Cardinality(L') <= faults' + q
      BY <1>1, <1>2, <2>5, <2>6, <3>2
    <3> QED BY <3>1, <3>3
  <2> QED BY <2>9 DEF L, N
<1>6. CASE retryFaults' # retryFaults + 1 /\ ~\E c \in Consumers : Fails(c)
  <2>1. L' \subseteq L
    BY <1>0, <1>6, RowLost DEF L
  <2>2. Cardinality(L') \in Nat /\ Cardinality(L') <= Cardinality(L)
    BY <1>2, <2>1, FewerOf
  <2>3. retryFaults' = retryFaults
    <3>1. CASE RetryNext
      BY <1>1, <1>6, <3>1
      DEF RetryNext, SlotStep, Take, Load, CreateNext, NextRefused, Redeliver, ResolveNext,
          IndexNext, IndexUnbound, JobFails, Bury, RetryAgain, AgainUnanswered, Complete,
          RetryThrow, LoseLock, RetryCrash, Stalled, RetryFault
    <3> QED BY <3>1 DEF Next, vars, retryVars
  <2>4. retryFaults * N \in Nat
    BY <1>1, <1>2
  <2>5. Cardinality(L') <= faults' + retryFaults * N
    BY <1>1, <1>2, <1>3, <2>2, <2>4
  <2> QED BY <2>3, <2>5 DEF L, N
<1> QED BY <1>4, <1>5, <1>6

LEMMA UInvStep == UInv /\ [Next]_vars => UInv'
<1> SUFFICES ASSUME UInv, [Next]_vars PROVE UInv'
  OBVIOUS
<1>1. CInv /\ CInv'
  BY CInvStep DEF UInv
<1>2. build' = build
  BY DEF Next, vars, retryVars
<1>3. ASSUME build # "vitest" PROVE Attended'
  <2>1. Attended
    BY <1>3 DEF UInv
  <2>2. \A c \in Consumers : (con[c].pc = "retry" => Indexed(con[c].attempt))'
    BY <1>1, <2>1, ConsumerAttends
  <2>3. \A k \in Slots : SlotAttended(k)'
    BY <1>1, <1>3, <2>1, SlotAttends
  <2> QED BY <2>2, <2>3 DEF Attended
<1>4. LooseEndsNeedFaults'
  BY <1>2, LooseEndsStep DEF LooseEndsNeedFaults
<1> QED BY <1>1, <1>2, <1>3, <1>4 DEF UInv

LEMMA UInvInit == Init => UInv
<1> SUFFICES ASSUME Init PROVE UInv
  OBVIOUS
<1>1. CInv
  BY CInvInit
<1>2. /\ attempts = <<>> /\ con = [c \in Consumers |-> Out] /\ faults = 0
      /\ slot = [k \in Slots |-> Free] /\ retryFaults = 0
  BY DEF Init, TablesInit, ConsumersInit, RetryInit
<1>3. Attended
  <2>1. \A c \in Consumers : con[c].pc # "retry"
    BY <1>2 DEF Out
  <2>2. \A k \in Slots : slot[k].pc = "idle" /\ slot[k].attempt = 0
    BY <1>2 DEF Free
  <2> QED BY <2>1, <2>2 DEF Attended, SlotAttended, SlotAt, NotCreated
<1>4. LooseEndsNeedFaults
  <2>1. LooseEnds = {}
    BY <1>2 DEF LooseEnds
  <2>2. Cardinality(Slots) \in Nat
    BY RetryAssumption, FS_CardinalityType
  <2>3. Cardinality(LooseEnds) = 0 /\ 0 * Cardinality(Slots) = 0
    BY <2>1, <2>2, FS_EmptySet
  <2> QED BY <1>2, <2>3 DEF LooseEndsNeedFaults
<1> QED BY <1>1, <1>3, <1>4 DEF UInv

\* A worker leaves no row before the document, the next job or the dead letter
\* that its result asks for (delivery.worker.js 62-126, retryWorker.js 55-172),
\* unless it fails; the build the tests run is left out, for its ReferenceError at
\* retryWorker.js:60 drops them without any failure.
THEOREM RowsAreAttended == Spec => []UInv
BY UInvInit, UInvStep, PTL DEF Spec

\* What is left unfinished was left by a failure, and by each failure no more than
\* its worker had in hand (README.md:17-18, 178), in the build that is deployed and
\* in the repaired one.
THEOREM LooseEndsAreCounted == Spec => []LooseEndsNeedFaults
<1>1. UInv => LooseEndsNeedFaults
  BY DEF UInv
<1> QED BY <1>1, RowsAreAttended, PTL

-----------------------------------------------------------------------------
(* Whatever fails, a pair that was taken on has its outcome or a job.      *)
(*                                                                         *)
(* A job may be over because a later one of its pair carries on, so the    *)
(* later jobs are ordered by their numbers: what carries a pair on past    *)
(* job n is a job of a higher number, and when that one is over another    *)
(* of a still higher number, or the outcome.                               *)

Live(j) == jobs[j].state \in {"waiting", "active"}

\* The pair has its outcome, was lost to a failure, or has a later job to run.
Carried(e, s, n) ==
    \/ HasOutcome(e, s)
    \/ LostToFault(e, s)
    \/ \E j \in DOMAIN jobs : /\ jobs[j].event = e
                              /\ jobs[j].sub = s
                              /\ jobs[j].number > n
                              /\ Live(j)

CarriedOn(j) ==
    jobs[j].sub \in steady => Carried(jobs[j].event, jobs[j].sub, jobs[j].number)

\* A job that is over, or whose processor is about to return, is carried on; only
\* failures of the worker fail or orphan a job of a steady subscription.
Carrying ==
    /\ \A j \in DOMAIN jobs : jobs[j].state = "completed" => CarriedOn(j)
    /\ \A j \in DOMAIN jobs :
         jobs[j].state = "failed" /\ jobs[j].sub \in steady => retryFaults > 0
    /\ \A j \in DOMAIN jobs :
         jobs[j].state = "active" /\ j \notin Locked => retryFaults > 0
    /\ \A k \in Slots : slot[k].pc = "return" => CarriedOn(slot[k].job)

NInv == /\ CInv /\ SlotsInv /\ BulkInv /\ steady \subseteq Enabled
        /\ Imported => Carrying

\* What a step does to the states of the jobs.
JobsTravel ==
    /\ \A j \in DOMAIN jobs :
         \/ jobs'[j].state = jobs[j].state
         \/ /\ jobs[j].state = "waiting" /\ jobs'[j].state = "active"
            /\ j \in Locked'
         \/ jobs[j].state = "active" /\ jobs'[j].state = "waiting"
         \/ /\ jobs[j].state = "active" /\ jobs'[j].state = "completed"
            /\ \E k \in Slots : Complete(k) /\ slot[k].job = j
         \/ /\ jobs[j].state = "active" /\ jobs'[j].state = "failed"
            /\ retryFaults' > 0 \/ jobs[j].sub \notin steady'
    /\ \A j \in DOMAIN jobs' \ DOMAIN jobs : jobs'[j].state = "waiting"

LEMMA JobsTravelStep ==
    ASSUME CInv, SlotsInv, BulkInv, steady \subseteq Enabled, Imported, Carrying, [Next]_vars
    PROVE  JobsTravel
<1>0. /\ TInv /\ slot \in [Slots -> SlotType] /\ steady' \subseteq steady
      /\ retryFaults \in Nat /\ retryFaults' \in Nat /\ retryFaults <= retryFaults'
  BY StepKeeps, FaultsGrow DEF CInv, HInv, Kept, TInv, TypeOK, RetryTypeOK
<1>1. ASSUME \A j \in DOMAIN jobs : jobs'[j] = jobs[j],
             \A j \in DOMAIN jobs' \ DOMAIN jobs : jobs'[j].state = "waiting"
      PROVE  JobsTravel
  BY <1>1 DEF JobsTravel
<1>2. ASSUME NEW f \in Events, NEW t \in Subs, NEW n \in Nat, NEW delay \in Nat,
             TakesEffect(f, t, n, delay)
      PROVE  JobsTravel
  BY <1>0, <1>1, <1>2, JobsOnlyAdded
<1>3. CASE ConsumersNext \/ TablesNext \/ UNCHANGED vars
  <2>1. CASE \E c \in Consumers : Schedules(c)
    BY <1>2, <2>1, ScheduleAdds
  <2>2. CASE ~\E c \in Consumers : Schedules(c)
    <3>1. UNCHANGED jobs
      BY <1>3, <2>2
      DEF Schedules, ConsumersNext, ConsumerStep, ConsumerFault, Produce, Join, Fetch,
          LoadSubscriptions, CreateFirst, CreateRefused, Deliver, ResolveFirst, IndexFirst,
          CommitOffset, Fenced, Throw, CommitThrows, Crash, Evict, TablesNext,
          createSubscription, updateSubscription, deleteSubscription, vars, tableVars
    <3> QED BY <1>1, <3>1
  <2> QED BY <2>1, <2>2
<1>4. CASE RedeliveryNext
  <2>1. CASE \E r \in Replays : AddBulk(r) \/ BulkUnanswered(r)
    BY <1>1, <2>1, BulkAdds
  <2>2. CASE ~\E r \in Replays : AddBulk(r) \/ BulkUnanswered(r)
    <3>1. UNCHANGED jobs
      BY <1>4, <2>2
      DEF RedeliveryNext, replaySubscription, ReadEvents, ReplayFails, retryDeadLetter,
          LoadLetter, CreateManual, DeliverManual, ResolveLetter, RecordFailure,
          ManualFails, tableVars
    <3> QED BY <1>1, <3>1
  <2> QED BY <2>1, <2>2
<1>5. CASE Stalled
  <2>1. PICK j, state, stalls :
          /\ j \in DOMAIN jobs /\ state \in {"waiting", "failed"}
          /\ jobs[j].state = "active" /\ j \notin Locked
          /\ jobs' = [jobs EXCEPT ![j].state = state, ![j].stalls = stalls]
    BY <1>5 DEF Stalled
  <2>2. retryFaults > 0
    BY <2>1 DEF Carrying
  <2>3. /\ DOMAIN jobs' = DOMAIN jobs /\ jobs'[j].state = state
        /\ \A i \in DOMAIN jobs : i # j => jobs'[i] = jobs[i]
    <3>1. jobs' = [jobs EXCEPT ![j] = [jobs[j] EXCEPT !.state = state, !.stalls = stalls]]
      BY <2>1
    <3>2. j \in DOMAIN jobs /\ jobs[j] \in JobType
      BY <1>0, <2>1, EntryTyped DEF TInv, TypeOK, TablesTypeOK
    <3> QED BY <3>1, <3>2 DEF JobType
  <2> QED BY <1>0, <2>1, <2>2, <2>3 DEF JobsTravel
<1>6. ASSUME NEW k \in Slots,
             SlotStep(k) \/ AgainUnanswered(k) \/ RetryThrow(k) \/ LoseLock(k)
      PROVE  JobsTravel
  <2>1. CASE Take(k)
    <3>1. PICK j \in DOMAIN jobs :
            /\ jobs[j].state = "waiting" /\ MoveJob(j, "active")
            /\ slot' = [slot EXCEPT ![k] = [Free EXCEPT !.pc = "load", !.job = j,
                                                        !.locked = TRUE]]
      BY <2>1 DEF Take
    <3>2. /\ DOMAIN jobs' = DOMAIN jobs /\ jobs'[j].state = "active"
          /\ \A i \in DOMAIN jobs : i # j => jobs'[i] = jobs[i]
      BY <1>0, <3>1, JobChanged
    <3>3. slot'[k].job = j /\ slot'[k].locked
      BY <1>0, <3>1 DEF Free
    <3>4. j \in Locked'
      BY <3>3 DEF Locked
    <3> QED BY <3>1, <3>2, <3>4 DEF JobsTravel
  <2>2. CASE \/ Load(k) \/ CreateNext(k) \/ Redeliver(k) \/ ResolveNext(k) \/ IndexNext(k)
             \/ Bury(k) \/ LoseLock(k)
    BY <1>1, <2>2 DEF Load, CreateNext, Redeliver, ResolveNext, IndexNext, Bury, LoseLock,
                      tableVars
  <2>3. CASE Follows(k)
    BY <1>2, <2>3, AgainAdds
  <2>4. ASSUME NEW state, FinishJob(k, state),
               \/ state = "completed" /\ Complete(k)
               \/ state = "failed" /\ (retryFaults' > 0 \/ JobOf(k).sub \notin steady')
        PROVE  JobsTravel
    <3>1. CASE UNCHANGED jobs
      BY <1>1, <3>1
    <3>2. CASE slot[k].locked /\ MoveJob(slot[k].job, state)
      <4>1. PICK j : j = slot[k].job
        OBVIOUS
      <4>2. j \in DOMAIN jobs /\ jobs[j].state = "active"
        BY <3>2, <4>1, SlotJob DEF SlotsInv
      <4>3. /\ DOMAIN jobs' = DOMAIN jobs /\ jobs'[j].state = state
            /\ \A i \in DOMAIN jobs : i # j => jobs'[i] = jobs[i]
        BY <1>0, <3>2, <4>1, <4>2, JobChanged
      <4> QED BY <2>4, <4>1, <4>2, <4>3 DEF JobsTravel, JobOf
    <3> QED BY <2>4, <3>1, <3>2 DEF FinishJob
  <2>5. CASE Complete(k)
    BY <2>4, <2>5 DEF Complete
  <2>6. CASE RetryThrow(k)
    <3>1. retryFaults' > 0
      BY <1>0, <2>6 DEF RetryThrow, RetryFault
    <3> QED BY <2>4, <2>6, <3>1 DEF RetryThrow, JobFails
  <2>7. CASE NextRefused(k)
    <3>1. JobOf(k).sub \notin steady'
      BY <1>0, <2>7 DEF NextRefused, Enabled
    <3> QED BY <2>4, <2>7, <3>1 DEF NextRefused, JobFails
  <2>8. ~IndexUnbound(k)
    BY DEF IndexUnbound
  <2> QED BY <1>6, <2>1, <2>2, <2>3, <2>5, <2>6, <2>7, <2>8 DEF SlotStep, Follows
<1>7. CASE RetryCrash
  BY <1>1, <1>7 DEF RetryCrash, tableVars
<1> QED BY <1>3, <1>4, <1>5, <1>6, <1>7 DEF Next, RetryNext

\* Only the code of the worker, or a failure of it, moves a slot.
LEMMA SlotLetsGo ==
    ASSUME CInv, [Next]_vars, NEW k \in Slots
    PROVE  slot'[k] = slot[k] \/ SlotStep(k) \/ retryFaults' > 0
<1>0. slot \in [Slots -> SlotType] /\ retryFaults \in Nat
  BY DEF CInv, HInv, TInv, TypeOK, RetryTypeOK
<1>1. ASSUME NEW i \in Slots, i # k, SlotStep(i) PROVE slot'[k] = slot[k]
  BY <1>0, <1>1
  DEF SlotStep, Take, Load, CreateNext, NextRefused, Redeliver, ResolveNext, IndexNext,
      IndexUnbound, JobFails, Bury, RetryAgain, Complete
<1>2. CASE (\E i \in Slots : RetryThrow(i) \/ LoseLock(i)) \/ RetryCrash
  BY <1>0, <1>2 DEF RetryThrow, LoseLock, RetryCrash, RetryFault
<1>3. CASE \/ \E i \in Slots : AgainUnanswered(i)
           \/ Stalled \/ UNCHANGED retryVars \/ UNCHANGED vars
  BY <1>3 DEF AgainUnanswered, Stalled, retryVars, vars
<1> QED BY <1>1, <1>2, <1>3 DEF Next, RetryNext, retryVars

\* A job that is locked stays locked until it is over or a failure strikes.
LEMMA LockedGoesOn ==
    ASSUME CInv, SlotsInv, [Next]_vars, NEW j \in DOMAIN jobs, j \in Locked, j \notin Locked'
    PROVE  retryFaults' > 0 \/ jobs'[j].state \in {"completed", "failed"}
<1>0. TInv /\ slot \in [Slots -> SlotType]
  BY DEF CInv, HInv, TInv, TypeOK, RetryTypeOK
<1>1. PICK k \in Slots : slot[k].locked /\ slot[k].job = j
  BY DEF Locked
<1>2. ~SlotAt(k, "idle") /\ slot[k] \in SlotType
  BY <1>0, <1>1 DEF SlotsInv
<1>3. ~(slot'[k].locked /\ slot'[k].job = j)
  BY DEF Locked
<1>4. SlotStep(k) \/ retryFaults' > 0
  BY <1>1, <1>3, SlotLetsGo
<1>5. ASSUME \/ Load(k) \/ CreateNext(k) \/ Redeliver(k) \/ ResolveNext(k) \/ IndexNext(k)
             \/ Bury(k) \/ RetryAgain(k)
      PROVE  FALSE
  <2>1. slot'[k].job = j
    BY <1>1, <1>5, SlotKeepsJob
  <2>2. slot'[k].locked
    <3>1. CASE CreateNext(k) \/ Redeliver(k)
      BY <1>0, <1>1, <1>2, <3>1 DEF CreateNext, Redeliver, SlotType
    <3>2. CASE Load(k) \/ ResolveNext(k) \/ IndexNext(k) \/ Bury(k) \/ RetryAgain(k)
      <4>1. PICK pc : slot' = [slot EXCEPT ![k].pc = pc]
        BY <3>2 DEF Load, ResolveNext, IndexNext, Bury, RetryAgain
      <4> QED BY <1>0, <1>1, <1>2, <4>1 DEF SlotType
    <3> QED BY <1>5, <3>1, <3>2
  <2> QED BY <1>3, <2>1, <2>2
<1>6. ~Take(k)
  BY <1>2 DEF Take
<1>7. CASE NextRefused(k) \/ IndexUnbound(k) \/ Complete(k)
  <2>1. PICK state \in {"completed", "failed"} : MoveJob(j, state)
    BY <1>1, <1>7 DEF NextRefused, IndexUnbound, Complete, JobFails, FinishJob
  <2> QED BY <1>0, <2>1, JobChanged
<1> QED BY <1>4, <1>5, <1>6, <1>7 DEF SlotStep

\* What carries a pair on is not lost by any step.
LEMMA CarriedStays ==
    ASSUME NInv, Imported, [Next]_vars, NEW e \in Events, NEW s \in Subs, s \in steady',
           NEW n \in Nat, Carried(e, s, n)
    PROVE  Carried(e, s, n)'
<1>0. /\ CInv /\ TInv /\ Carrying /\ JobsTravel /\ SlotsInv
      /\ retryFaults \in Nat /\ retryFaults' \in Nat /\ retryFaults <= retryFaults'
  BY JobsTravelStep, FaultsGrow DEF NInv, CInv, HInv
<1>1. Solid /\ HistoryKept /\ JobsKept /\ s \in steady
  BY <1>0, StepSolid DEF CInv, Solid, Kept
<1>2. HasOutcome(e, s) => HasOutcome(e, s)'
  BY <1>1, FactsStay DEF HasOutcome
<1>3. LostToFault(e, s) => LostToFault(e, s)'
  <2> SUFFICES ASSUME LostToFault(e, s) PROVE LostToFault(e, s)'
    OBVIOUS
  <2>1. PICK j \in DOMAIN jobs :
          jobs[j].event = e /\ jobs[j].sub = s /\ jobs[j].state = "failed"
    BY DEF LostToFault
  <2>2. retryFaults' > 0
    BY <1>0 DEF LostToFault
  <2>3. jobs'[j].state = "failed"
    BY <1>0, <2>1 DEF JobsTravel
  <2> QED BY <1>1, <2>1, <2>2, <2>3 DEF LostToFault, JobsKept
<1>4. ASSUME NEW m \in Nat, m >= n, NEW j \in DOMAIN jobs, jobs[j].event = e,
             jobs[j].sub = s, jobs[j].number > m, jobs'[j].state \in {"waiting", "active"}
      PROVE  Carried(e, s, n)'
  <2>1. jobs[j].number > n
    <3>1. jobs[j].number \in Nat
      BY <1>0, NumberTyped
    <3> QED BY <1>4, <3>1
  <2>2. j \in DOMAIN jobs' /\ jobs'[j].event = e /\ jobs'[j].sub = s /\ jobs'[j].number > n
    BY <1>1, <1>4, <2>1 DEF JobsKept
  <2> QED BY <1>4, <2>2 DEF Carried, Live
<1>5. ASSUME NEW j \in DOMAIN jobs, jobs[j].event = e, jobs[j].sub = s,
             jobs[j].number > n, Live(j)
      PROVE  Carried(e, s, n)'
  <2>0. n >= n
    OBVIOUS
  <2>1. CASE jobs'[j].state \in {"waiting", "active"}
    BY <1>4, <1>5, <2>0, <2>1
  <2>2. CASE jobs'[j].state = "failed"
    <3>1. retryFaults' > 0
      BY <1>0, <1>5, <2>2 DEF JobsTravel, Live
    <3> QED BY <1>1, <1>5, <2>2, <3>1 DEF Carried, LostToFault, JobsKept
  <2>3. ASSUME NEW k \in Slots, Complete(k), slot[k].job = j PROVE Carried(e, s, n)'
    <3>1. Carried(e, s, jobs[j].number)
      BY <1>0, <1>1, <1>5, <2>3 DEF Carrying, CarriedOn, Complete, SlotAt
    <3>2. jobs[j].number \in Nat /\ jobs[j].number >= n
      <4>1. jobs[j].number \in Nat
        BY <1>0, NumberTyped
      <4> QED BY <1>5, <4>1
    <3>3. ASSUME NEW i \in DOMAIN jobs, jobs[i].event = e, jobs[i].sub = s,
                 jobs[i].number > jobs[j].number, Live(i)
          PROVE  Carried(e, s, n)'
      <4>1. i # j
        BY <3>2, <3>3
      <4>2. jobs'[i] = jobs[i]
        <5>1. UNCHANGED jobs \/ MoveJob(j, "completed")
          BY <2>3 DEF Complete, FinishJob
        <5> QED BY <1>0, <4>1, <5>1, JobChanged
      <4> QED BY <1>4, <3>2, <3>3, <4>2 DEF Live
    <3> QED BY <1>2, <1>3, <3>1, <3>3 DEF Carried
  <2>4. \/ jobs'[j].state \in {"waiting", "active", "failed"}
        \/ \E k \in Slots : Complete(k) /\ slot[k].job = j
    BY <1>0, <1>5 DEF JobsTravel, Live
  <2> QED BY <2>1, <2>2, <2>3, <2>4
<1> QED BY <1>2, <1>3, <1>5 DEF Carried

\* A processor that comes to its end has carried its pair on.
LEMMA ReturnCarries ==
    ASSUME CInv, steady \subseteq Enabled, Imported, [Next]_vars, NEW k \in Slots, SlotStep(k),
           slot'[k].pc = "return",
           NEW j, NEW e, NEW s, NEW n,
           j = slot[k].job, e = jobs[j].event, s = jobs[j].sub, n = jobs[j].number,
           s \in steady'
    PROVE  Carried(e, s, n)'
<1>0. /\ TInv /\ slot \in [Slots -> SlotType] /\ slot[k] \in SlotType /\ SlotAgrees(slot[k])
      /\ steady' \subseteq steady /\ MAX_ATTEMPTS \in Nat
  BY StepKeeps, ScheduleAssumption
  DEF CInv, HInv, Kept, Agreement, TInv, TypeOK, RetryTypeOK
<1>1. ~SlotAt(k, "idle") => /\ e \in Events /\ s \in Subs /\ n \in 1..MAX_ATTEMPTS /\ n \in Nat
                            /\ e = JobOf(k).event /\ s = JobOf(k).sub /\ n = JobOf(k).number
  BY <1>0, SlotJob DEF JobOf
<1>2. CASE Load(k)
  <2>1. JobOf(k).sub \notin Enabled
    BY <1>0, <1>2 DEF Load, SlotType
  <2> QED BY <1>0, <1>1, <1>2, <2>1 DEF Load, SlotAt
<1>3. CASE IndexNext(k)
  <2>1. slot'[k].pc = AfterIndex(k) /\ slot[k].pc = "index" /\ UNCHANGED attempts
    BY <1>0, <1>3 DEF IndexNext, SlotType, SlotAt
  <2>2. slot[k].success
    BY <2>1 DEF AfterIndex
  <2>3. PICK a : a = slot[k].attempt
    OBVIOUS
  <2>4. /\ a \in DOMAIN attempts /\ attempts[a].status = "success"
        /\ attempts[a].event = e /\ attempts[a].sub = s /\ attempts[a].number = n
    BY <1>0, <2>1, <2>2, <2>3 DEF SlotAgrees, HasRow, Outcome
  <2>5. Attempted(e, s, n, "success")'
    BY <2>1, <2>4 DEF Attempted
  <2> QED BY <1>1, <2>1, <2>5 DEF Carried, HasOutcome, SlotAt
<1>4. CASE Bury(k)
  <2>1. createDeadLetter(e, s, n)
    BY <1>1, <1>4 DEF Bury, SlotAt
  <2>2. DeadLettered(e, s)'
    BY <1>0, <1>1, <1>4, <2>1, LetterWritten DEF Bury, SlotAt
  <2> QED BY <2>2 DEF Carried, HasOutcome
<1>5. CASE RetryAgain(k)
  <2>1. PICK delay \in Nat : TakesEffect(e, s, n + 1, delay)
    BY <1>1, <1>5, AgainAdds DEF Follows, RetryAgain, SlotAt
  <2>2. n \in Nat /\ n + 1 \in Nat /\ n + 1 > n /\ e \in Events /\ s \in Subs
    BY <1>0, <1>1, <1>5 DEF RetryAgain, SlotAt
  <2>3. PICK i \in DOMAIN jobs' : /\ jobs'[i].event = e /\ jobs'[i].sub = s
                                  /\ jobs'[i].number = n + 1 /\ jobs'[i].state = "waiting"
    BY <1>0, <2>1, <2>2, JobQueued
  <2>4. jobs'[i].number > n
    BY <2>2, <2>3
  <2> QED BY <2>3, <2>4 DEF Carried, Live
<1>6. CASE Take(k) \/ CreateNext(k) \/ NextRefused(k) \/ IndexUnbound(k) \/ Complete(k)
  <2>1. CASE Take(k)
    BY <1>0, <2>1 DEF Take, Free
  <2>2. CASE CreateNext(k)
    BY <1>0, <2>2 DEF CreateNext, SlotType
  <2>3. CASE NextRefused(k) \/ IndexUnbound(k) \/ Complete(k)
    BY <1>0, <2>3 DEF NextRefused, IndexUnbound, JobFails, Complete, Free
  <2> QED BY <1>6, <2>1, <2>2, <2>3
<1>7. CASE Redeliver(k)
  BY <1>0, <1>7 DEF Redeliver, SlotType
<1>8. CASE ResolveNext(k)
  <2>1. slot' = [slot EXCEPT ![k].pc = "index"]
    BY <1>8 DEF ResolveNext
  <2> QED BY <1>0, <2>1 DEF SlotType
<1> QED BY <1>2, <1>3, <1>4, <1>5, <1>6, <1>7, <1>8 DEF SlotStep

LEMMA CarryingStep ==
    ASSUME NInv, Imported, [Next]_vars
    PROVE  Carrying'
<1>0. /\ CInv /\ TInv /\ Carrying /\ JobsTravel /\ SlotsInv /\ steady \subseteq Enabled
      /\ retryFaults \in Nat /\ retryFaults' \in Nat /\ retryFaults <= retryFaults'
  BY JobsTravelStep, FaultsGrow DEF NInv, CInv, HInv
<1>1. JobsKept /\ steady' \subseteq steady /\ slot \in [Slots -> SlotType]
  BY <1>0, StepKeeps DEF CInv, HInv, Kept, TInv, TypeOK, RetryTypeOK
<1>2. ASSUME NEW j \in DOMAIN jobs, NEW e, NEW s, NEW n,
             e = jobs[j].event, s = jobs[j].sub, n = jobs[j].number,
             s \in steady' => Carried(e, s, n)'
      PROVE  CarriedOn(j)'
  <2>1. jobs'[j].event = e /\ jobs'[j].sub = s /\ jobs'[j].number = n
    BY <1>1, <1>2 DEF JobsKept
  <2> QED BY <1>2, <2>1 DEF CarriedOn
<1>3. ASSUME NEW j \in DOMAIN jobs, CarriedOn(j) PROVE CarriedOn(j)'
  <2>1. PICK e, s, n : e = jobs[j].event /\ s = jobs[j].sub /\ n = jobs[j].number
    OBVIOUS
  <2>2. e \in Events /\ s \in Subs /\ n \in Nat
    <3>1. jobs[j] \in JobType
      BY <1>0, EntryTyped DEF TInv, TypeOK, TablesTypeOK
    <3> QED BY <2>1, <3>1 DEF JobType
  <2>3. s \in steady' => Carried(e, s, n)'
    BY <1>1, <1>3, <2>1, <2>2, CarriedStays DEF CarriedOn
  <2> QED BY <1>2, <2>1, <2>3
<1>4. ASSUME NEW j \in DOMAIN jobs', jobs'[j].state = "completed" PROVE CarriedOn(j)'
  <2>1. j \in DOMAIN jobs
    BY <1>0, <1>4 DEF JobsTravel
  <2>2. CASE jobs[j].state = "completed"
    BY <1>0, <1>3, <2>1, <2>2 DEF Carrying
  <2>3. ASSUME NEW k \in Slots, Complete(k), slot[k].job = j PROVE CarriedOn(j)'
    BY <1>0, <1>3, <2>1, <2>3 DEF Carrying, Complete, SlotAt
  <2> QED BY <1>0, <1>4, <2>1, <2>2, <2>3 DEF JobsTravel
<1>5. ASSUME NEW j \in DOMAIN jobs', jobs'[j].state = "failed", jobs'[j].sub \in steady'
      PROVE  retryFaults' > 0
  <2>1. j \in DOMAIN jobs /\ jobs[j].sub \in steady'
    BY <1>0, <1>1, <1>5 DEF JobsTravel, JobsKept
  <2>2. CASE jobs[j].state = "failed"
    BY <1>0, <1>1, <2>1, <2>2 DEF Carrying
  <2> QED BY <1>0, <1>5, <2>1, <2>2 DEF JobsTravel
<1>6. ASSUME NEW j \in DOMAIN jobs', jobs'[j].state = "active", j \notin Locked'
      PROVE  retryFaults' > 0
  <2>1. j \in DOMAIN jobs /\ jobs[j].state = "active"
    BY <1>0, <1>6 DEF JobsTravel
  <2>2. CASE j \notin Locked
    BY <1>0, <2>1, <2>2 DEF Carrying
  <2>3. CASE j \in Locked
    BY <1>0, <1>6, <2>1, <2>3, LockedGoesOn
  <2> QED BY <2>2, <2>3
<1>7. ASSUME NEW k \in Slots, slot'[k].pc = "return" PROVE CarriedOn(slot[k].job)'
  <2>1. CASE slot'[k].pc = slot[k].pc /\ slot'[k].job = slot[k].job
    <3>1. PICK j : j = slot[k].job
      OBVIOUS
    <3>2. j \in DOMAIN jobs /\ CarriedOn(j)
      BY <1>0, <1>7, <2>1, <3>1, SlotJob DEF Carrying, SlotAt
    <3>3. CarriedOn(j)'
      BY <1>3, <3>2
    <3> QED BY <2>1, <3>1, <3>3
  <2>2. CASE SlotStep(k) /\ slot'[k].job = slot[k].job /\ ~SlotAt(k, "idle")
    <3>1. PICK j, e, s, n : /\ j = slot[k].job /\ e = jobs[j].event /\ s = jobs[j].sub
                            /\ n = jobs[j].number
      OBVIOUS
    <3>2. j \in DOMAIN jobs
      BY <1>0, <2>2, <3>1, SlotJob
    <3>3. s \in steady' => Carried(e, s, n)'
      BY <1>0, <1>7, <2>2, <3>1, ReturnCarries
    <3>4. CarriedOn(j)'
      BY <1>2, <3>1, <3>2, <3>3
    <3> QED BY <2>2, <3>1, <3>4
  <2>3. \/ slot'[k].pc = slot[k].pc /\ slot'[k].job = slot[k].job
        \/ SlotStep(k) /\ slot'[k].job = slot[k].job /\ ~SlotAt(k, "idle")
    <3>1. \/ slot'[k].pc = slot[k].pc /\ slot'[k].job = slot[k].job
          \/ slot'[k] = Free \/ SlotStep(k)
      <4>1. slot[k] \in SlotType
        BY <1>1
      <4> QED BY <1>0, <4>1, SlotMoves DEF SlotType
    <3>2. slot'[k] # Free
      BY <1>7 DEF Free
    <3>3. ~Take(k)
      BY <1>1, <1>7 DEF Take, Free
    <3>4. ~(NextRefused(k) \/ IndexUnbound(k) \/ Complete(k))
      BY <1>1, <1>7 DEF NextRefused, IndexUnbound, JobFails, Complete, Free
    <3> QED BY <1>0, <3>1, <3>2, <3>3, <3>4, SlotKeepsJob DEF SlotStep
  <2> QED BY <2>1, <2>2, <2>3
<1> QED BY <1>4, <1>5, <1>6, <1>7 DEF Carrying

LEMMA NInvStep == NInv /\ [Next]_vars => NInv'
<1> SUFFICES ASSUME NInv, [Next]_vars PROVE NInv'
  OBVIOUS
<1>1. CInv' /\ SlotsInv' /\ BulkInv'
  BY CInvStep, SlotsStep, BulkStep DEF NInv
<1>2. steady' \subseteq Enabled'
  BY SteadyStays DEF NInv, CInv, HInv
<1>3. Imported' = Imported
  BY DEF Next, vars, retryVars, Imported
<1>4. Imported => Carrying'
  BY CarryingStep
<1> QED BY <1>1, <1>2, <1>3, <1>4 DEF NInv

LEMMA NInvInit == Init => NInv
<1> SUFFICES ASSUME Init PROVE NInv
  OBVIOUS
<1>1. CInv /\ SlotsInv /\ BulkInv
  BY CInvInit, RInvInit DEF RInv
<1>2. steady \subseteq Enabled
  BY DEF Init, TablesInit
<1>3. Carrying
  <2>1. jobs = <<>> /\ slot = [k \in Slots |-> Free]
    BY DEF Init, TablesInit, RetryInit
  <2>2. DOMAIN jobs = {} /\ \A k \in Slots : slot[k].pc = "idle"
    BY <2>1 DEF Free
  <2> QED BY <2>2 DEF Carrying
<1> QED BY <1>1, <1>2, <1>3 DEF NInv

\* While no failure of the retry worker strikes the pair, a job of a steady
\* subscription is over only when the outcome is there or a later job waits or
\* runs, and one that waits or runs will not be dropped (retryWorker.js 14-172).
THEOREM PairsAreCarried == Spec => []NInv
BY NInvInit, NInvStep, PTL DEF Spec

LEMMA CarriedIsNotForgotten == NInv /\ AtLeastOnce => NothingForgotten
<1> SUFFICES ASSUME NInv, AtLeastOnce, Imported, NEW e \in Events, NEW s \in steady,
                    Passed(e) \/ (\E j \in DOMAIN jobs : jobs[j].event = e /\ jobs[j].sub = s)
             PROVE  HasOutcome(e, s) \/ Underway(e, s) \/ LostToFault(e, s)
  BY DEF NothingForgotten
<1>0. TInv /\ Carrying
  BY DEF NInv, CInv, HInv
<1>1. ASSUME NEW j \in DOMAIN jobs, jobs[j].event = e, jobs[j].sub = s
      PROVE  HasOutcome(e, s) \/ Underway(e, s) \/ LostToFault(e, s)
  <2>1. jobs[j] \in JobType
    BY <1>0, EntryTyped DEF TInv, TypeOK, TablesTypeOK
  <2>2. jobs[j].state \in {"waiting", "active", "completed", "failed"}
    BY <2>1 DEF JobType
  <2>3. CASE jobs[j].state \in {"waiting", "active"}
    BY <1>1, <2>3 DEF Underway
  <2>4. CASE jobs[j].state = "completed"
    BY <1>0, <1>1, <2>4 DEF Carrying, CarriedOn, Carried, Underway, Live
  <2>5. CASE jobs[j].state = "failed"
    BY <1>0, <1>1, <2>5 DEF Carrying, LostToFault
  <2> QED BY <2>2, <2>3, <2>4, <2>5
<1>2. CASE Passed(e)
  <2>1. Delivered(e, s)
    BY <1>2 DEF Passed, AtLeastOnce
  <2>2. 1 \in 1..MAX_ATTEMPTS
    BY ScheduleAssumption
  <2>3. CASE Attempted(e, s, 1, "success")
    BY <2>2, <2>3 DEF HasOutcome
  <2>4. CASE RetryAdded(e, s, 2)
    BY <1>1, <2>4 DEF RetryAdded
  <2> QED BY <2>1, <2>3, <2>4 DEF Delivered
<1> QED BY <1>1, <1>2

\* No event is silently dropped (docs/interview-questions.md:468): for a group that
\* starts at the beginning, an event that the offset has passed, or that has a job,
\* has its outcome at each steady subscription or a job on the way to one, but for
\* the jobs that failures of the retry worker ended.
THEOREM NothingIsForgotten == InitialOffset = 0 /\ Spec => []NothingForgotten
BY PairsAreCarried, FanOutIsAtLeastOnce, CarriedIsNotForgotten, PTL
=============================================================================
