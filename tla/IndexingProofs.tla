--------------------------- MODULE IndexingProofs ----------------------------
(***************************************************************************)
(* Theorems about Indexing, for any documents, processes, tries, outages,  *)
(* deaths, lost locks and stops: the types, that the mapping stays what it *)
(* is, and that a document is lost only to an outage, to as many refusals  *)
(* as the job has tries, or to two deaths or lost locks.                   *)
(*                                                                         *)
(* The argument: a job that is active is in the hands of one process or    *)
(* orphaned, and each time it stalls or is orphaned stands for a death or  *)
(* a lost lock of its own; while Elasticsearch never went down, each       *)
(* failed try is a refusal; and a process that runs or closes has seen the *)
(* index exist.                                                            *)
(***************************************************************************)
EXTENDS Indexing, TLAPS

-----------------------------------------------------------------------------
(* The inductive invariant.                                                *)

\* A job in a process's hands is active and in no other's.
OneRunner ==
    /\ \A w \in Indexers : \A d \in Running(w) : job[d].state = "active"
    /\ \A w, v \in Indexers : \A d \in Running(w) : d \in Running(v) => w = v

\* A job that is not over has a try and a stall left.
NotOver ==
    \A d \in Documents :
        /\ job[d].failures + 1 <= Tries \/ job[d].state = "failed"
        /\ job[d].stalls < 2 \/ job[d].state = "failed"
        /\ job[d].refusals <= job[d].failures

\* A process that runs has seen that the index exists.
MappingSeen == \A w \in Indexers : indexer[w].pc \in {"running", "closing"} => mapping # "none"

\* The deaths and lost locks so far, and those that a job has met: the ones its
\* stalls counted, and the last one.
Ended == crashes + raced + lapses

Deaths(d) == IF LockExpires(d) THEN job[d].stalls + 1 ELSE job[d].stalls

OutageKnown == ~up => outages > 0

\* Without an outage a try fails only by a refusal, and each stall has a death or a
\* lost lock of its own.
DeathsCounted ==
    outages = 0 => \A d \in Documents :
                        /\ job[d].failures = job[d].refusals
                        /\ Deaths(d) <= Ended
                        /\ job[d].state = "failed" =>
                             job[d].stalls = 2 \/ job[d].refusals = Tries

IInv == TypeOK /\ OneRunner /\ NotOver /\ MappingSeen /\ OutageKnown /\ DeathsCounted

-----------------------------------------------------------------------------
LEMMA IInvInit == Init => IInv
<1> SUFFICES ASSUME Init PROVE IInv
  OBVIOUS
<1>1. TypeOK
  BY IndexingAssumption DEF Init, TypeOK, JobType, IndexerType, Down
<1>2. OneRunner /\ MappingSeen
  BY DEF Init, OneRunner, MappingSeen, Running, Down
<1>3. NotOver /\ OutageKnown
  BY IndexingAssumption DEF Init, NotOver, OutageKnown
<1>4. DeathsCounted
  <2>1. Ended = 0
    BY DEF Init, Ended
  <2>2. \A d \in Documents : Deaths(d) = 0 /\ job[d].failures = job[d].refusals
    BY DEF Init, Deaths, LockExpires
  <2> QED BY <2>1, <2>2 DEF Init, DeathsCounted
<1> QED BY <1>1, <1>2, <1>3, <1>4 DEF IInv

\* A record of the process changes in its place only, and no job is taken up or
\* put down.
LEMMA PlaceStep ==
    ASSUME IInv, NEW w \in Indexers,
           NEW pc \in {"exists", "create", "running", "closing"},
           indexer' = [indexer EXCEPT ![w].pc = pc], UNCHANGED <<job, up, indexed>>,
           mapping' \in {"none", "ours", "dynamic"},
           pc \in {"running", "closing"} => mapping' # "none",
           mapping # "none" => mapping' # "none",
           UNCHANGED <<outages, crashes, lapses, raced>>, stops' \in Nat
    PROVE  IInv'
<1>0. /\ indexer \in [Indexers -> IndexerType]
      /\ indexer' \in [Indexers -> IndexerType]
  BY DEF IInv, TypeOK, IndexerType
<1>1. TypeOK'
  BY <1>0 DEF IInv, TypeOK
<1>2. \A v \in Indexers : Running(v)' = Running(v)
  BY <1>0 DEF Running, IndexerType
<1>3. OneRunner' /\ NotOver' /\ OutageKnown'
  BY <1>2 DEF IInv, OneRunner, NotOver, OutageKnown
<1>4. MappingSeen'
  BY <1>0 DEF IInv, MappingSeen, IndexerType
<1>5. DeathsCounted'
  <2>1. \A d : LockExpires(d)' <=> LockExpires(d)
    BY <1>2 DEF LockExpires
  <2> QED BY <2>1 DEF IInv, DeathsCounted, Deaths, Ended
<1> QED BY <1>1, <1>3, <1>4, <1>5 DEF IInv

\* A process ends: its jobs are orphaned, and it counts as a death unless
\* Elasticsearch was down or it had none.
LEMMA ExitStep ==
    ASSUME IInv, NEW w \in Indexers, Exit(w),
           UNCHANGED <<job, up, indexed, mapping, outages, stops, lapses>>,
           crashes' \in Nat, raced' \in Nat,
           NEW n \in Nat, NEW k \in Nat, n = Ended, k = Ended',
           n <= k, outages # 0 \/ Running(w) = {} \/ n < k
    PROVE  IInv'
<1>0. /\ indexer \in [Indexers -> IndexerType] /\ job \in [Documents -> JobType]
  BY DEF IInv, TypeOK
<1>1. /\ indexer'[w] = Down
      /\ \A v \in Indexers : v # w => indexer'[v] = indexer[v]
      /\ indexer' \in [Indexers -> IndexerType]
  BY <1>0 DEF Exit, Down, IndexerType
<1>2. TypeOK'
  BY <1>1 DEF IInv, TypeOK
<1>3. Running(w)' = {} /\ \A v \in Indexers : v # w => Running(v)' = Running(v)
  BY <1>1 DEF Running, Down
<1>4. OneRunner' /\ NotOver' /\ OutageKnown'
  BY <1>3 DEF IInv, OneRunner, NotOver, OutageKnown
<1>5. MappingSeen'
  BY <1>1 DEF IInv, MappingSeen, Down
<1>6. DeathsCounted'
  <2> SUFFICES ASSUME outages = 0, NEW d \in Documents
               PROVE  Deaths(d)' <= k
    BY <1>0 DEF IInv, DeathsCounted
  <2>1. PICK i \in Nat : i = job[d].stalls
    BY <1>0 DEF JobType
  <2>2. Deaths(d) <= n
    BY DEF IInv, DeathsCounted
  <2>3. CASE d \in Running(w)
    <3>1. i <= n /\ n < k
      BY <2>1, <2>2, <2>3 DEF Deaths, LockExpires
    <3>2. Deaths(d)' \in {i, i + 1}
      BY <2>1 DEF Deaths
    <3> QED BY <3>1, <3>2
  <2>4. CASE d \notin Running(w)
    <3>1. LockExpires(d)' <=> LockExpires(d)
      BY <1>3, <2>4 DEF LockExpires
    <3>2. PICK j \in Nat : j = Deaths(d)
      BY <2>1 DEF Deaths
    <3>3. Deaths(d)' = j
      BY <3>1, <3>2 DEF Deaths
    <3> QED BY <2>2, <3>2, <3>3
  <2> QED BY <2>3, <2>4
<1> QED BY <1>2, <1>4, <1>5, <1>6 DEF IInv

-----------------------------------------------------------------------------
(* A step of one document's job.                                           *)

\* The job and the process's hands may change for one document only: what the
\* invariant says of the others stays true.
LEMMA OneJobStep ==
    ASSUME IInv, NEW d \in Documents, NEW j \in JobType,
           job' = [job EXCEPT ![d] = j],
           indexer' \in [Indexers -> IndexerType],
           \A v \in Indexers : indexer'[v].pc = indexer[v].pc,
           \A v \in Indexers : \A e \in Documents : e # d =>
               (e \in Running(v)' <=> e \in Running(v)),
           (\E v \in Indexers : d \in Running(v)') => j.state = "active",
           \A u, v \in Indexers : d \in Running(u)' /\ d \in Running(v)' => u = v,
           j.failures + 1 <= Tries \/ j.state = "failed",
           j.stalls < 2 \/ j.state = "failed",
           j.refusals <= j.failures,
           outages = 0 => /\ j.failures = j.refusals
                          /\ Deaths(d)' <= Ended
                          /\ j.state = "failed" => j.stalls = 2 \/ j.refusals = Tries,
           indexed' \subseteq Documents, mapping' \in {"none", "ours", "dynamic"},
           mapping # "none" => mapping' # "none",
           UNCHANGED <<up, counts>>
    PROVE  IInv'
<1>0. /\ indexer \in [Indexers -> IndexerType] /\ job \in [Documents -> JobType]
      /\ Ended \in Nat /\ Ended' = Ended
      /\ UNCHANGED <<outages, crashes, stops, lapses, raced>>
  BY DEF IInv, TypeOK, counts, Ended
<1>1. /\ job'[d] = j /\ \A e \in Documents : e # d => job'[e] = job[e]
      /\ job' \in [Documents -> JobType]
  BY <1>0
<1>2. TypeOK'
  BY <1>0, <1>1 DEF IInv, TypeOK
<1>3. \A v \in Indexers : Running(v) \subseteq Documents /\ Running(v)' \subseteq Documents
  BY <1>0 DEF Running, IndexerType
<1>4. OneRunner'
  BY <1>1, <1>3 DEF IInv, OneRunner
<1>5. NotOver' /\ MappingSeen' /\ OutageKnown'
  BY <1>0, <1>1 DEF IInv, NotOver, MappingSeen, OutageKnown
<1>6. DeathsCounted'
  <2>1. PICK n \in Nat : n = Ended
    BY <1>0
  <2> SUFFICES ASSUME outages = 0, NEW e \in Documents
               PROVE  /\ job'[e].failures = job'[e].refusals /\ Deaths(e)' <= n
                      /\ job'[e].state = "failed" =>
                           job'[e].stalls = 2 \/ job'[e].refusals = Tries
    BY <1>0, <2>1 DEF DeathsCounted
  <2>2. CASE e = d
    BY <1>1, <2>1, <2>2
  <2>3. CASE e # d
    <3>1. LockExpires(e)' <=> LockExpires(e)
      BY <1>1, <2>3 DEF LockExpires
    <3>2. Deaths(e)' = Deaths(e)
      BY <1>1, <2>3, <3>1 DEF Deaths
    <3> QED BY <1>1, <2>1, <2>3, <3>2 DEF IInv, DeathsCounted
  <2> QED BY <2>2, <2>3
<1> QED BY <1>2, <1>4, <1>5, <1>6 DEF IInv

LEMMA EnqueueStep == ASSUME IInv, NEW d \in Documents, Enqueue(d) PROVE IInv'
<1> DEFINE j == [job[d] EXCEPT !.state = "waiting"]
<1>0. /\ job \in [Documents -> JobType] /\ indexer \in [Indexers -> IndexerType]
      /\ job[d] \in JobType /\ job[d].state = "absent"
      /\ UNCHANGED <<indexer, up, mapping, indexed, counts>>
  BY DEF IInv, TypeOK, Enqueue, esVars
<1>1. job' = [job EXCEPT ![d] = j]
  BY DEF Enqueue
<1>2. /\ j \in JobType /\ j.state = "waiting"
      /\ j.failures = job[d].failures /\ j.stalls = job[d].stalls
      /\ j.refusals = job[d].refusals
  BY <1>0 DEF JobType
<1>3. \A v \in Indexers : Running(v)' = Running(v)
  BY <1>0 DEF Running
<1>4. \A v \in Indexers : d \notin Running(v)
  BY <1>0 DEF IInv, OneRunner
<1>5. j.failures + 1 <= Tries /\ j.stalls < 2 /\ j.refusals <= j.failures
  BY <1>0, <1>2 DEF IInv, NotOver
<1>6. Deaths(d)' = job[d].stalls /\ Deaths(d) = job[d].stalls
  BY <1>0, <1>1, <1>2 DEF Deaths, LockExpires
<1>7. outages = 0 => j.failures = j.refusals /\ Deaths(d)' <= Ended
  BY <1>2, <1>6 DEF IInv, DeathsCounted
<1> HIDE DEF j
<1> QED BY <1>0, <1>1, <1>2, <1>3, <1>4, <1>5, <1>7, OneJobStep DEF IInv, TypeOK

LEMMA TakeStep ==
    ASSUME IInv, NEW w \in Indexers, NEW d \in Documents, Take(w, d) PROVE IInv'
<1> DEFINE j == [job[d] EXCEPT !.state = "active"]
<1>0. /\ job \in [Documents -> JobType] /\ indexer \in [Indexers -> IndexerType]
      /\ job[d] \in JobType /\ job[d].state = "waiting"
      /\ UNCHANGED <<up, mapping, indexed, counts>>
  BY DEF IInv, TypeOK, Take, esVars
<1>1. job' = [job EXCEPT ![d] = j]
  BY DEF Take
<1>2. /\ j \in JobType /\ j.state = "active"
      /\ j.failures = job[d].failures /\ j.stalls = job[d].stalls
      /\ j.refusals = job[d].refusals
  BY <1>0 DEF JobType
<1>3. /\ indexer'[w] = [indexer[w] EXCEPT !.trying = @ \cup {d}]
      /\ \A v \in Indexers : v # w => indexer'[v] = indexer[v]
      /\ indexer' \in [Indexers -> IndexerType]
      /\ \A v \in Indexers : indexer'[v].pc = indexer[v].pc
  BY <1>0 DEF Take, IndexerType
<1>4. Running(w)' = Running(w) \cup {d} /\ \A v \in Indexers : v # w => Running(v)' = Running(v)
  BY <1>0, <1>3 DEF Running, IndexerType
<1>5. \A v \in Indexers : d \notin Running(v)
  BY <1>0 DEF IInv, OneRunner
<1>6. j.failures + 1 <= Tries /\ j.stalls < 2 /\ j.refusals <= j.failures
  BY <1>0, <1>2 DEF IInv, NotOver
<1>7. Deaths(d)' = job[d].stalls /\ Deaths(d) = job[d].stalls
  BY <1>0, <1>1, <1>2, <1>4 DEF Deaths, LockExpires
<1>8. outages = 0 => j.failures = j.refusals /\ Deaths(d)' <= Ended
  BY <1>2, <1>7 DEF IInv, DeathsCounted
<1>9. /\ \A v \in Indexers : \A e \in Documents : e # d => (e \in Running(v)' <=> e \in Running(v))
      /\ \A u, v \in Indexers : d \in Running(u)' /\ d \in Running(v)' => u = v
  BY <1>4, <1>5
<1>10. indexed' \subseteq Documents /\ mapping' \in {"none", "ours", "dynamic"}
  BY <1>0 DEF IInv, TypeOK
<1> HIDE DEF j
<1> QED BY <1>0, <1>1, <1>2, <1>3, <1>6, <1>8, <1>9, <1>10, OneJobStep

\* The process only moves the job from one hand to the other.
LEMMA IndexStep ==
    ASSUME IInv, NEW w \in Indexers, NEW d \in Documents, Index(w, d) PROVE IInv'
<1>0. /\ job \in [Documents -> JobType] /\ indexer \in [Indexers -> IndexerType]
      /\ job[d] \in JobType /\ UNCHANGED <<job, up, counts>>
  BY DEF IInv, TypeOK, Index
<1>1. job' = [job EXCEPT ![d] = job[d]]
  BY <1>0
<1>2. /\ indexer'[w] = [indexer[w] EXCEPT !.trying = @ \ {d}, !.stored = @ \cup {d}]
      /\ \A v \in Indexers : v # w => indexer'[v] = indexer[v]
      /\ indexer' \in [Indexers -> IndexerType]
      /\ \A v \in Indexers : indexer'[v].pc = indexer[v].pc
  BY <1>0 DEF Index, IndexerType
<1>3. \A v \in Indexers : Running(v)' = Running(v)
  BY <1>0, <1>2 DEF Running, IndexerType, Index
<1>4. d \in Running(w)
  BY DEF Index, Running
<1>5. job[d].state = "active"
  BY <1>4 DEF IInv, OneRunner
<1>6. \A u, v \in Indexers : d \in Running(u)' /\ d \in Running(v)' => u = v
  BY <1>3 DEF IInv, OneRunner
<1>7. /\ job[d].failures + 1 <= Tries /\ job[d].stalls < 2
      /\ job[d].refusals <= job[d].failures
  BY <1>5 DEF IInv, NotOver
<1>8. Deaths(d)' = Deaths(d)
  BY <1>0, <1>3 DEF Deaths, LockExpires
<1>9. outages = 0 => job[d].failures = job[d].refusals /\ Deaths(d)' <= Ended
  BY <1>8 DEF IInv, DeathsCounted
<1>10. /\ indexed' \subseteq Documents /\ mapping' \in {"none", "ours", "dynamic"}
       /\ mapping # "none" => mapping' # "none"
  BY DEF IInv, TypeOK, Index, Store
<1> QED BY <1>0, <1>1, <1>2, <1>3, <1>5, <1>6, <1>7, <1>9, <1>10, OneJobStep

\* The process puts the job down, as completed or for another try.
LEMMA PutDownStep ==
    ASSUME IInv, NEW w \in Indexers, NEW d \in Running(w), NEW j \in JobType,
           job' = [job EXCEPT ![d] = j],
           PutDown(w, d),
           UNCHANGED <<esVars, counts>>,
           j.stalls = job[d].stalls, j.state # "active",
           j.failures + 1 <= Tries \/ j.state = "failed",
           j.refusals <= j.failures,
           outages = 0 => /\ j.failures = j.refusals
                          /\ j.state = "failed" => j.refusals = Tries
    PROVE  IInv'
<1>0. /\ job \in [Documents -> JobType] /\ indexer \in [Indexers -> IndexerType]
      /\ UNCHANGED <<up, mapping, indexed>>
      /\ indexed \subseteq Documents /\ mapping \in {"none", "ours", "dynamic"}
  BY DEF IInv, TypeOK, esVars
<1>1. d \in Documents
  BY <1>0 DEF Running, IndexerType
<1>2. /\ indexer'[w] = [indexer[w] EXCEPT !.trying = @ \ {d}, !.stored = @ \ {d}]
      /\ \A v \in Indexers : v # w => indexer'[v] = indexer[v]
      /\ indexer' \in [Indexers -> IndexerType]
      /\ \A v \in Indexers : indexer'[v].pc = indexer[v].pc
  BY <1>0 DEF PutDown, IndexerType
<1>3. Running(w)' = Running(w) \ {d} /\ \A v \in Indexers : v # w => Running(v)' = Running(v)
  BY <1>0, <1>2 DEF Running, IndexerType
<1>4. \A v \in Indexers : d \notin Running(v)'
  BY <1>3 DEF IInv, OneRunner
<1>5. job[d].state = "active" /\ job[d].stalls < 2
  BY <1>1 DEF IInv, OneRunner, NotOver
<1>6. Deaths(d)' = job[d].stalls /\ Deaths(d) = job[d].stalls
  BY <1>0, <1>1 DEF Deaths, LockExpires
<1>7. outages = 0 => Deaths(d)' <= Ended
  BY <1>1, <1>6 DEF IInv, DeathsCounted
<1> QED BY <1>0, <1>1, <1>2, <1>3, <1>4, <1>5, <1>7, OneJobStep

LEMMA CompleteStep ==
    ASSUME IInv, NEW w \in Indexers, NEW d \in Documents, Complete(w, d) PROVE IInv'
<1> DEFINE j == [job[d] EXCEPT !.state = "completed"]
<1>0. /\ job \in [Documents -> JobType] /\ indexer \in [Indexers -> IndexerType]
      /\ job[d] \in JobType /\ d \in Running(w)
  BY DEF IInv, TypeOK, Complete, Running
<1>1. job' = [job EXCEPT ![d] = j] /\ UNCHANGED <<esVars, counts>>
  BY DEF Complete
<1>2. /\ j \in JobType /\ j.state = "completed"
      /\ j.failures = job[d].failures /\ j.stalls = job[d].stalls
      /\ j.refusals = job[d].refusals
  BY <1>0 DEF JobType
<1>3. job[d].state = "active"
  BY <1>0 DEF IInv, OneRunner
<1>4. /\ j.failures + 1 <= Tries /\ j.refusals <= j.failures
      /\ outages = 0 => j.failures = j.refusals
  BY <1>2, <1>3 DEF IInv, NotOver, DeathsCounted
<1>5. PutDown(w, d)
  BY DEF Complete
<1> HIDE DEF j
<1> QED BY <1>0, <1>1, <1>2, <1>4, <1>5, PutDownStep

\* A try that fails is a refusal, or shows that there was an outage.
LEMMA TryFailsStep ==
    ASSUME IInv, NEW w \in Indexers, NEW d \in Documents, TryFails(w, d) PROVE IInv'
<1> DEFINE j == [job[d] EXCEPT !.failures = @ + 1,
                               !.refusals = IF up THEN @ + 1 ELSE @,
                               !.state = IF HasTries(d) THEN "waiting" ELSE "failed"]
<1>0. /\ job \in [Documents -> JobType] /\ job[d] \in JobType
      /\ d \in Running(w) /\ job[d].state = "active"
      /\ outages = 0 => up
  BY DEF IInv, TypeOK, TryFails, OneRunner, OutageKnown
<1>1. job' = [job EXCEPT ![d] = j] /\ PutDown(w, d) /\ UNCHANGED <<esVars, counts>>
  BY DEF TryFails
<1>2. PICK f \in Nat, r \in Nat : /\ f = job[d].failures /\ r = job[d].refusals
                                  /\ f + 1 <= Tries /\ r <= f
                                  /\ outages = 0 => f = r
  BY <1>0 DEF IInv, NotOver, DeathsCounted, JobType
<1>3. PICK q \in Nat : /\ q = IF up THEN r + 1 ELSE r
                       /\ q <= f + 1 /\ (outages = 0 => q = f + 1)
  BY <1>0, <1>2
<1>4. PICK s \in {"waiting", "failed"} : s = IF f + 1 < Tries THEN "waiting" ELSE "failed"
  OBVIOUS
<1>5. /\ j \in JobType /\ j.state = s /\ j.failures = f + 1 /\ j.refusals = q
      /\ j.stalls = job[d].stalls
  <2>1. j = [job[d] EXCEPT !.failures = f + 1, !.refusals = q, !.state = s]
    BY <1>2, <1>3, <1>4 DEF HasTries
  <2>2. f + 1 \in 0..Tries /\ q \in 0..Tries
    BY <1>2, <1>3, IndexingAssumption
  <2> HIDE DEF j
  <2> QED BY <1>0, <2>1, <2>2 DEF JobType
<1>6. /\ j.state # "active" /\ j.refusals <= j.failures
      /\ j.failures + 1 <= Tries \/ j.state = "failed"
      /\ outages = 0 => /\ j.failures = j.refusals
                        /\ j.state = "failed" => j.refusals = Tries
  <2> HIDE DEF j
  <2> QED BY <1>2, <1>3, <1>4, <1>5, IndexingAssumption
<1> HIDE DEF j
<1> QED BY <1>0, <1>1, <1>5, <1>6, PutDownStep

\* A stall takes the place of the death or the lost lock it was noticed by.
LEMMA StalledStep == ASSUME IInv, NEW d \in Documents, Stalled(d) PROVE IInv'
<1> DEFINE j == [job[d] EXCEPT !.stalls = @ + 1,
                               !.state = IF StallsAgain(d) THEN "waiting" ELSE "failed"]
<1>0. /\ job \in [Documents -> JobType] /\ job[d] \in JobType
      /\ indexer \in [Indexers -> IndexerType]
      /\ LockExpires(d) /\ job[d].state = "active"
      /\ UNCHANGED <<indexer, up, mapping, indexed, counts>>
      /\ indexed \subseteq Documents /\ mapping \in {"none", "ours", "dynamic"}
  BY DEF IInv, TypeOK, Stalled, LockExpires, esVars
<1>1. job' = [job EXCEPT ![d] = j]
  BY DEF Stalled
<1>2. PICK i \in {0, 1} : i = job[d].stalls
  BY <1>0 DEF IInv, NotOver, JobType
<1>3. /\ j \in JobType /\ j.stalls = i + 1 /\ j.failures = job[d].failures
      /\ j.refusals = job[d].refusals
      /\ j.state = IF i = 0 THEN "waiting" ELSE "failed"
  <2>1. PICK s \in {"waiting", "failed"} : s = IF StallsAgain(d) THEN "waiting" ELSE "failed"
    OBVIOUS
  <2>2. StallsAgain(d) <=> i = 0
    BY <1>2 DEF StallsAgain
  <2>3. j = [job[d] EXCEPT !.stalls = i + 1, !.state = s] /\ i + 1 \in 0..2
    BY <1>2, <2>1
  <2> HIDE DEF j
  <2> QED BY <1>0, <2>1, <2>2, <2>3 DEF JobType
<1>4. \A v \in Indexers : Running(v)' = Running(v) /\ d \notin Running(v)
  BY <1>0 DEF Running, LockExpires
<1>5. job[d].failures + 1 <= Tries /\ job[d].refusals <= job[d].failures
  BY <1>0 DEF IInv, NotOver
<1>6. Deaths(d) = i + 1 /\ Deaths(d)' = i + 1
  BY <1>0, <1>1, <1>2, <1>3 DEF Deaths, LockExpires
<1>7. outages = 0 => /\ j.failures = j.refusals /\ Deaths(d)' <= Ended
                     /\ j.state = "failed" => j.stalls = 2
  BY <1>2, <1>3, <1>6 DEF IInv, DeathsCounted
<1>8. /\ j.failures + 1 <= Tries /\ j.refusals <= j.failures
      /\ j.stalls < 2 \/ j.state = "failed"
  BY <1>2, <1>3, <1>5
<1>9. \A v \in Indexers : indexer'[v].pc = indexer[v].pc
  BY <1>0
<1> HIDE DEF j
<1> QED BY <1>0, <1>1, <1>3, <1>4, <1>7, <1>8, <1>9, OneJobStep

-----------------------------------------------------------------------------
(* A lock that is lost.                                                    *)

LEMMA LoseLockStep ==
    ASSUME IInv, NEW w \in Indexers, NEW d \in Documents, LoseLock(w, d) PROVE IInv'
<1>0. /\ indexer \in [Indexers -> IndexerType] /\ job \in [Documents -> JobType]
      /\ UNCHANGED <<job, up, mapping, indexed, outages, crashes, stops, raced>>
      /\ lapses \in Nat /\ lapses' = lapses + 1 /\ lapses' \in Nat
      /\ Ended \in Nat /\ Ended' = Ended + 1
  BY DEF IInv, TypeOK, LoseLock, esVars, Ended
<1>1. /\ indexer'[w] = [indexer[w] EXCEPT !.trying = @ \ {d}, !.stored = @ \ {d},
                                          !.late = @ \cup {d}]
      /\ \A v \in Indexers : v # w => indexer'[v] = indexer[v]
      /\ indexer' \in [Indexers -> IndexerType]
      /\ \A v \in Indexers : indexer'[v].pc = indexer[v].pc
  BY <1>0 DEF LoseLock, IndexerType
<1>2. Running(w)' = Running(w) \ {d} /\ \A v \in Indexers : v # w => Running(v)' = Running(v)
  BY <1>0, <1>1 DEF Running, IndexerType
<1>3. TypeOK'
  BY <1>0, <1>1 DEF IInv, TypeOK
<1>4. OneRunner' /\ NotOver' /\ OutageKnown' /\ MappingSeen'
  BY <1>0, <1>1, <1>2 DEF IInv, OneRunner, NotOver, OutageKnown, MappingSeen
<1>5. DeathsCounted'
  <2> SUFFICES ASSUME outages = 0, NEW e \in Documents
               PROVE  Deaths(e)' <= Ended'
    BY <1>0 DEF IInv, DeathsCounted
  <2>1. PICK n \in Nat, i \in Nat : n = Ended /\ i = job[e].stalls
    BY <1>0 DEF JobType
  <2>2. Deaths(e) <= n
    BY <2>1 DEF IInv, DeathsCounted
  <2>3. i <= Deaths(e) /\ Deaths(e) \in Nat
    BY <2>1 DEF Deaths
  <2>4. Deaths(e)' \in {i, i + 1}
    BY <1>0, <2>1 DEF Deaths
  <2>5. Deaths(e)' <= n + 1
    BY <2>1, <2>2, <2>3, <2>4
  <2> QED BY <1>0, <2>1, <2>5
<1> QED BY <1>3, <1>4, <1>5 DEF IInv

\* What runs without a lock may store its document, and touches no job.
LEMMA LateStep ==
    ASSUME IInv, NEW w \in Indexers, NEW d \in Documents, Late(w, d) PROVE IInv'
<1>0. /\ indexer \in [Indexers -> IndexerType]
      /\ UNCHANGED <<job, up, outages, crashes, stops, lapses, raced>>
      /\ indexed' \subseteq Documents /\ mapping' \in {"none", "ours", "dynamic"}
      /\ mapping # "none" => mapping' # "none"
  BY DEF IInv, TypeOK, Late, Store, counts
<1>1. /\ indexer' \in [Indexers -> IndexerType]
      /\ \A v \in Indexers : Running(v)' = Running(v) /\ indexer'[v].pc = indexer[v].pc
  BY <1>0 DEF Late, IndexerType, Running
<1>2. TypeOK'
  BY <1>0, <1>1 DEF IInv, TypeOK
<1>3. OneRunner' /\ NotOver' /\ OutageKnown' /\ MappingSeen'
  BY <1>0, <1>1 DEF IInv, OneRunner, NotOver, OutageKnown, MappingSeen
<1>4. DeathsCounted'
  <2>1. \A e : LockExpires(e)' <=> LockExpires(e)
    BY <1>0, <1>1 DEF LockExpires
  <2> QED BY <1>0, <2>1 DEF IInv, DeathsCounted, Deaths, Ended
<1> QED BY <1>2, <1>3, <1>4 DEF IInv

-----------------------------------------------------------------------------
(* The process, Elasticsearch, and the whole step.                         *)

\* A process starts, asks for the index, makes it, and stops.
LEMMA ProcessStep ==
    ASSUME IInv, NEW w \in Indexers,
           Startup(w) \/ Closed(w) \/ Close(w) \/ Crash(w)
    PROVE  IInv'
<1>0. /\ indexer \in [Indexers -> IndexerType] /\ stops \in Nat
      /\ mapping \in {"none", "ours", "dynamic"}
      /\ crashes \in Nat /\ raced \in Nat /\ lapses \in Nat /\ Ended \in Nat
  BY DEF IInv, TypeOK, Ended
<1>1. CASE Start(w)
  <2>1. indexer' = [indexer EXCEPT ![w].pc = "exists"]
    BY <1>1 DEF Start
  <2> QED BY <1>0, <1>1, <2>1, PlaceStep DEF Start, esVars, counts
<1>2. CASE Exists(w) /\ up
  <2>1. PICK pc \in {"create", "running"} :
             /\ indexer' = [indexer EXCEPT ![w].pc = pc]
             /\ pc = "running" => mapping # "none"
    BY <1>2 DEF Exists
  <2> QED BY <1>0, <1>2, <2>1, PlaceStep DEF Exists, esVars, counts
<1>3. CASE Create(w)
  <2>1. indexer' = [indexer EXCEPT ![w].pc = "running"] /\ mapping' = "ours"
    BY <1>3 DEF Create
  <2> QED BY <1>0, <1>3, <2>1, PlaceStep DEF Create, esVars, counts
<1>4. CASE Close(w)
  <2>1. /\ indexer' = [indexer EXCEPT ![w].pc = "closing"] /\ mapping # "none"
        /\ stops' \in Nat
    BY <1>0, <1>4 DEF Close, IInv, MappingSeen
  <2>2. UNCHANGED <<job, up, mapping, indexed, outages, crashes, lapses, raced>>
    BY <1>4 DEF Close, esVars
  <2> QED BY <1>0, <2>1, <2>2, PlaceStep
<1>5. CASE (Exists(w) /\ ~up) \/ CreateFails(w)
  <2>1. /\ Exit(w) /\ outages # 0
        /\ UNCHANGED <<job, up, indexed, mapping, outages, crashes, stops, lapses, raced>>
    BY <1>5 DEF Exists, CreateFails, IInv, OutageKnown, esVars, counts
  <2>2. Ended' = Ended /\ Ended <= Ended'
    BY <1>0, <2>1 DEF Ended
  <2> QED BY <1>0, <2>1, <2>2, ExitStep
<1>6. CASE Closed(w)
  <2>1. /\ Exit(w) /\ Running(w) = {}
        /\ UNCHANGED <<job, up, indexed, mapping, outages, crashes, stops, lapses, raced>>
    BY <1>6 DEF Closed, esVars, counts
  <2>2. Ended' = Ended /\ Ended <= Ended'
    BY <1>0, <2>1 DEF Ended
  <2> QED BY <1>0, <2>1, <2>2, ExitStep
<1>7. CASE CreateRefused(w)
  <2>1. /\ Exit(w) /\ raced' = raced + 1
        /\ UNCHANGED <<job, up, indexed, mapping, outages, crashes, stops, lapses>>
    BY <1>7 DEF CreateRefused, esVars
  <2>2. /\ Ended' \in Nat /\ crashes' \in Nat /\ raced' \in Nat
        /\ Ended < Ended' /\ Ended <= Ended'
    BY <1>0, <2>1 DEF Ended
  <2> QED BY <1>0, <2>1, <2>2, ExitStep
<1>8. CASE Crash(w)
  <2>1. /\ Exit(w) /\ crashes' = crashes + 1
        /\ UNCHANGED <<job, up, indexed, mapping, outages, raced, stops, lapses>>
    BY <1>8 DEF Crash, esVars
  <2>2. /\ Ended' \in Nat /\ crashes' \in Nat /\ raced' \in Nat
        /\ Ended < Ended' /\ Ended <= Ended'
    BY <1>0, <2>1 DEF Ended
  <2> QED BY <1>0, <2>1, <2>2, ExitStep
<1> QED BY <1>1, <1>2, <1>3, <1>4, <1>5, <1>6, <1>7, <1>8 DEF Startup

\* Elasticsearch goes and comes back.
LEMMA OutageStep == ASSUME IInv, Outage \/ Recovery PROVE IInv'
<1>0. /\ UNCHANGED <<job, indexer, mapping, indexed, crashes, stops, lapses, raced>>
      /\ up' \in BOOLEAN /\ outages' \in Nat /\ (~up' => outages' > 0)
      /\ outages' = 0 => outages = 0
  <2>1. outages \in Nat
    BY DEF IInv, TypeOK
  <2>2. CASE Outage
    <3>1. /\ UNCHANGED <<job, indexer, mapping, indexed, crashes, stops, lapses, raced>>
          /\ up' = FALSE /\ outages' = outages + 1
      BY <2>2 DEF Outage
    <3>2. outages' \in Nat /\ outages' > 0
      BY <2>1, <3>1
    <3>3. up' \in BOOLEAN /\ UNCHANGED <<job, indexer, mapping, indexed, crashes, stops, lapses, raced>>
      BY <3>1
    <3>4. outages' = 0 => outages = 0
      BY <3>2
    <3> QED BY <3>2, <3>3, <3>4
  <2>3. CASE Recovery
    <3>1. UNCHANGED <<job, indexer, mapping, indexed, outages, crashes, stops, lapses, raced>> /\ up'
      BY <2>3 DEF Recovery, counts
    <3> QED BY <2>1, <3>1
  <2> QED BY <2>2, <2>3
<1>1. TypeOK' /\ OutageKnown'
  BY <1>0 DEF IInv, TypeOK, OutageKnown
<1>2. OneRunner' /\ NotOver' /\ MappingSeen'
  BY <1>0 DEF IInv, OneRunner, NotOver, MappingSeen, Running
<1>3. DeathsCounted'
  BY <1>0 DEF IInv, DeathsCounted, Deaths, LockExpires, Running, Ended
<1> QED BY <1>1, <1>2, <1>3 DEF IInv

LEMMA IInvStep == IInv /\ [Next]_vars => IInv'
<1> SUFFICES ASSUME IInv, [Next]_vars PROVE IInv'
  OBVIOUS
<1>1. ASSUME NEW w \in Indexers, IndexerStep(w) \/ Close(w) \/ Crash(w) PROVE IInv'
  BY <1>1, ProcessStep, TakeStep, IndexStep, CompleteStep, TryFailsStep, LateStep
     DEF IndexerStep, JobStep
<1>2. ASSUME NEW d \in Documents, Enqueue(d) \/ Stalled(d) PROVE IInv'
  BY <1>2, EnqueueStep, StalledStep
<1>3. CASE UNCHANGED vars
  <2>1. UNCHANGED <<job, indexer, up, mapping, indexed, outages, crashes, stops, lapses, raced>>
    BY <1>3 DEF vars, esVars, counts
  <2>2. TypeOK' /\ OutageKnown' /\ OneRunner' /\ NotOver' /\ MappingSeen'
    BY <2>1 DEF IInv, TypeOK, OutageKnown, OneRunner, NotOver, MappingSeen, Running
  <2>3. DeathsCounted'
    BY <2>1 DEF IInv, DeathsCounted, Deaths, LockExpires, Running, Ended
  <2> QED BY <2>2, <2>3 DEF IInv
<1> QED BY <1>1, <1>2, <1>3, OutageStep, LoseLockStep DEF Next

\* The inductive invariant: who runs a job, what it has left, and which deaths
\* its stalls stand for (indexingWorker.js, BullMQ's stalled checks).
THEOREM IndexingIsSound == Spec => []IInv
<1> QED BY IInvInit, IInvStep, PTL DEF Spec

\* The types (indexQueue.js, indexingWorker.js, deliveryLogsIndex.js).
THEOREM IndexingTypes == Spec => []TypeOK
<1>1. IInv => TypeOK
  BY DEF IInv
<1> QED BY <1>1, IndexingIsSound, PTL

\* A document of the log is lost to an outage, to Elasticsearch refusing every try
\* of its job, or to two deaths or lost locks only (indexQueue.js 9-14,
\* indexingWorker.js 8-37).
THEOREM DocumentsLostForAReason == Spec => []LostForAReason
<1>1. IInv => LostForAReason
  <2> SUFFICES ASSUME IInv, NEW d \in Documents,
                      job[d].state = "failed", ~(outages > 0), job[d].refusals # Tries
               PROVE  Ended > 1
    BY DEF LostForAReason, Ended
  <2>1. outages = 0 /\ Ended \in Nat
    BY DEF IInv, TypeOK, Ended
  <2>2. PICK n \in Nat : n = Ended
    BY <2>1
  <2>3. job[d].stalls = 2 /\ Deaths(d) <= n
    BY <2>1, <2>2 DEF IInv, DeathsCounted
  <2>4. Deaths(d) \in {2, 3}
    BY <2>3 DEF Deaths
  <2> QED BY <2>2, <2>3, <2>4
<1> QED BY <1>1, IndexingIsSound, PTL

\* The mapping stays what it is, and is not the code's own only when a job was
\* run before the index was made sure of (indexingWorker.js 29 and 46).
THEOREM MappingNeverChanges == Spec => MappingStays
<1> DEFINE MappingKept ==
        /\ mapping # "none" => mapping' = mapping
        /\ mapping' = "dynamic" /\ mapping = "none" =>
             \A w \in Indexers : indexer[w].pc \notin {"running", "closing"}
<1>1. IInv /\ [Next]_vars => MappingKept \/ UNCHANGED vars
  <2> SUFFICES ASSUME IInv, Next PROVE MappingKept
    BY DEF vars, esVars
  <2>1. mapping' = "dynamic" /\ mapping = "none" =>
             \A w \in Indexers : indexer[w].pc \notin {"running", "closing"}
    BY DEF IInv, MappingSeen
  <2>2. mapping # "none" => mapping' = mapping
    BY DEF Next, IndexerStep, Startup, JobStep, Start, Exists, Create, CreateRefused,
           CreateFails, Closed, Close, Crash, Take, Index, Store, Complete, TryFails,
           LoseLock, Late, Enqueue, Stalled, Outage, Recovery, esVars
  <2> QED BY <2>1, <2>2
<1> QED BY <1>1, IndexingIsSound, PTL DEF Spec, MappingStays
=============================================================================
