--------------------------- MODULE ParallelForProofs ---------------------------
(***************************************************************************)
(* Proofs about parallel_for on the thread pool, for any number of         *)
(* workers, any calls, any MAX_PARALLELISM and any queue with room for the *)
(* jobs of a call and the other tasks, whether or not the pool is stopped. *)
(*                                                                         *)
(* The invariant says where every job is (with the caller, in the queue,   *)
(* at work, counted off), what the counter still counts, how the ranges of *)
(* the jobs cover what has been cut, and which of them have been           *)
(* processed.  The lemmas go from the sets of jobs to these four parts, a  *)
(* step at a time; what the runs check follows.                            *)
(*                                                                         *)
(* The invariant does not mind tasks that are no jobs: the program has two *)
(* of them in the same pool.                                               *)
(***************************************************************************)
EXTENDS ParallelFor, PoolLemmas

-----------------------------------------------------------------------------
\* The invariant.

\* The jobs that have been given a range, and the one the caller runs itself.
Cut     == {k \in JobId : InCall /\ (k < i \/ (k = i /\ pc # "dividing"))}
Refused == {k \in JobId : k = i /\ pc \in {"inline", "finishing"}}

\* A job is in one place: the queue, one worker, or neither.
JobsSound ==
  /\ QueuedJobs \cap JobsAtWork = {}
  /\ \A v, w \in Worker : job[v] \in JobId /\ job[v] = job[w] => v = w
  /\ ran \subseteq JobsAtWork
  /\ QueuedJobs \cup JobsAtWork \subseteq Cut \ Refused

\* The jobs the caller still has to enqueue or to count off.
Left ==
  IF pc = "out" THEN 0
  ELSE IF pc = "signalling" THEN job_count - i - 1 ELSE job_count - i

CountSound ==
  count = Cardinality(QueuedJobs) + Cardinality(JobsAtWork) + Left

\* Every index has been given to a job.
AllCut == IF pc = "dividing" THEN i = job_count ELSE i + 1 = job_count

CallSound ==
  /\ call \in Calls \cup {[start |-> 0, end |-> 0, grain |-> 1]}
  /\ job_count <= Lower(Cardinality(Worker), MAX_PARALLELISM)
  /\ pc \in {"signalling", "inline", "finishing"} => i < job_count
  /\ InCall =>
       /\ call.start <= current /\ current <= call.end
       /\ AllCut => current = call.end

\* The ranges of the jobs follow one another, and together are what is cut.
Items(k) == jobs[k].start .. jobs[k].end - 1

RangesSound ==
  InCall =>
    /\ \A k \in Cut : /\ call.start <= jobs[k].start /\ jobs[k].start <= jobs[k].end
                      /\ jobs[k].end <= current
    /\ \A j, k \in Cut : j < k => jobs[j].end <= jobs[k].start
    /\ \A x \in call.start .. current - 1 : \E k \in Cut : x \in Items(k)

\* The jobs whose function has not been called yet, among those cut.
Pending ==
  QueuedJobs \cup (JobsAtWork \ ran) \cup {k \in JobId : k = i /\ pc = "inline"}

\* The indexes that have been handed to func in this call, or in the last one.
Handed ==
  IF pc = "out" THEN {x \in Index : x \in call.start .. call.end - 1}
  ELSE {x \in Index : \E k \in Cut \ Pending : x \in Items(k)}

ProcessedSound == \A x \in Index : processed[x] = IF x \in Handed THEN 1 ELSE 0

\* The inductive invariant.
IInv ==
  /\ TypeOK /\ PoolSound
  /\ JobsSound /\ CountSound /\ CallSound /\ RangesSound /\ ProcessedSound

-----------------------------------------------------------------------------
\* The constants, as the assumptions give them.
LEMMA ForConstants ==
  /\ MAX_PARALLELISM \in Nat /\ MAX_PARALLELISM > 0
  /\ JobId \subseteq Task /\ Zero \notin Task /\ Zero \notin JobId
  /\ IsFiniteSet(JobId) /\ \A k \in JobId : k \in Nat
  /\ Cardinality(Worker) \in Nat
  /\ Lower(Cardinality(Worker), MAX_PARALLELISM) \in Nat
  /\ Lower(Cardinality(Worker), MAX_PARALLELISM) <= MAX_PARALLELISM
  /\ \A c \in Calls : c.start \in Nat /\ c.end \in Nat /\ c.grain \in Nat /\ c.grain > 0
<1>1. IsFiniteSet(JobId)
  BY FS_Interval, ParallelForAssumption DEF JobId
<1>2. Cardinality(Worker) \in Nat
  BY FS_CardinalityType, WorkerAssumption
<1>3. QED
  BY <1>1, <1>2, ParallelForAssumption DEF JobId, Lower

\* The jobs in the queue are those it holds.
LEMMA QueuedAre ==
  ASSUME PoolSound
  PROVE  QueuedJobs = Held(Elements(ring)) \cap JobId
<1>1. DOMAIN Elements(ring) = 1 .. ring.size
  BY ElementsLen DEF PoolSound, PoolTypeOK
<1>2. QED
  BY <1>1 DEF QueuedJobs, Held

LEMMA QueuedAreNext ==
  ASSUME PoolSound'
  PROVE  QueuedJobs' = Held(Elements(ring))' \cap JobId
<1>1. ring' \in RingOf(Task) /\ Elements(ring') \in Seq(Task)
  BY DEF PoolSound, PoolTypeOK, Elements
<1>2. DOMAIN Elements(ring') = 1 .. ring'.size
  BY <1>1, ElementsLen
<1>3. Held(Elements(ring))' = Held(Elements(ring'))
  BY DEF Held, Elements
<1>4. QueuedJobs' = {k \in JobId : \E n \in 1 .. ring'.size : Elements(ring')[n] = k}
  BY DEF QueuedJobs, Elements
<1>5. QED
  BY <1>2, <1>3, <1>4 DEF Held

\* Sets of jobs can be counted.
LEMMA JobsCounted ==
  ASSUME NEW S \in SUBSET JobId
  PROVE  IsFiniteSet(S) /\ Cardinality(S) \in Nat
BY FS_Subset, FS_CardinalityType, ForConstants

\* A share of the items left is no more than they are, and the last share is
\* all of them.
LEMMA Share ==
  ASSUME NEW items \in Nat, NEW left \in Nat, left > 0
  PROVE  /\ ChunkSize(items, left) \in 0 .. items
         /\ left = 1 => ChunkSize(items, left) = items
<1> DEFINE sum  == items + left - 1
           size == sum \div left
<1>1. sum \in Nat
  OBVIOUS
<1>2. size \in Nat /\ left * size <= sum
  <2> HIDE DEF sum
  <2>1. QED
    BY <1>1
<1>3. left = 1 => size = items
  BY <1>1
<1> HIDE DEF size
<1>4. size <= items
  <2> SUFFICES ASSUME items + 1 <= size PROVE FALSE
    BY <1>2
  <2>1. left * size = left * (items + 1) + left * (size - (items + 1))
    BY <1>2
  <2>2. left * (size - (items + 1)) >= 0
    BY <1>2
  <2>3. left * (items + 1) = left * items + left
    OBVIOUS
  <2>4. left * items = items + (left - 1) * items /\ (left - 1) * items >= 0
    OBVIOUS
  <2> DEFINE a == left * size
             b == left * (items + 1)
             c == left * (size - (items + 1))
             d == left * items
             e == (left - 1) * items
  <2>5. a \in Int /\ b \in Int /\ c \in Int /\ d \in Int /\ e \in Int
    BY <1>2
  <2> HIDE DEF a, b, c, d, e
  <2>6. /\ a = b + c /\ c >= 0 /\ b = d + left /\ d = items + e /\ e >= 0
        /\ a <= items + left - 1
    BY <1>2, <2>1, <2>2, <2>3, <2>4 DEF a, b, c, d, e, sum
  <2>7. QED
    BY <2>5, <2>6
<1>5. QED
  BY <1>2, <1>3, <1>4 DEF size, ChunkSize

-----------------------------------------------------------------------------
\* The ranges.

\* What the caller's steps need to know of the state they start from.
LEMMA CallerFacts ==
  ASSUME IInv
  PROVE  /\ i \in Nat /\ job_count \in Nat /\ i <= job_count
         /\ job_count <= MAX_PARALLELISM
         /\ current \in Nat /\ call.start \in Nat /\ call.end \in Nat
         /\ jobs \in [JobId -> [start : Nat, end : Nat]]
         /\ \A k \in JobId : jobs[k].start \in Nat /\ jobs[k].end \in Nat
         /\ i < job_count => i \in JobId
         /\ QueuedJobs \subseteq JobId /\ JobsAtWork \subseteq JobId
         /\ Cardinality(QueuedJobs) \in Nat /\ Cardinality(JobsAtWork) \in Nat
<1>1. QueuedJobs \subseteq JobId /\ JobsAtWork \subseteq JobId
  BY DEF QueuedJobs, JobsAtWork
<1>2. Cardinality(QueuedJobs) \in Nat /\ Cardinality(JobsAtWork) \in Nat
  BY <1>1, JobsCounted
<1>3. QED
  BY <1>1, <1>2, ForConstants DEF IInv, TypeOK, JobId

\* No index is in two jobs.
LEMMA ItemsApart ==
  ASSUME IInv, NEW j \in Cut, NEW k \in Cut, j # k
  PROVE  Items(j) \cap Items(k) = {}
<1>1. InCall /\ j \in JobId /\ k \in JobId
  BY DEF Cut
<1>2. /\ j \in Nat /\ k \in Nat
      /\ jobs[j].start \in Nat /\ jobs[j].end \in Nat
      /\ jobs[k].start \in Nat /\ jobs[k].end \in Nat
  BY <1>1, ForConstants, CallerFacts
<1>3. jobs[j].end <= jobs[k].start \/ jobs[k].end <= jobs[j].start
  BY <1>1, <1>2 DEF IInv, RangesSound
<1>4. QED
  BY <1>2, <1>3 DEF Items

\* Cutting a job off the range.
LEMMA CutStep ==
  ASSUME IInv, CutJob, pc' \in {"signalling", "inline"}
  PROVE  /\ i \in JobId /\ i \notin Cut /\ Cut' = Cut \cup {i}
         /\ \A k \in Cut : Items(k)' = Items(k)
         /\ current' \in Nat /\ jobs' \in [JobId -> [start : Nat, end : Nat]]
         /\ CallSound' /\ RangesSound'
<1> DEFINE size == ChunkSize(call.end - current, job_count - i)
<1>1. /\ pc = "dividing" /\ i < job_count
      /\ jobs' = [jobs EXCEPT ![i] = JobRange(current, size)]
      /\ current' = current + size
      /\ UNCHANGED <<call, job_count, i>>
  BY DEF CutJob
<1>2. /\ InCall /\ InCall' /\ i \in JobId
      /\ call.start <= current /\ current <= call.end
      /\ i \in Nat /\ job_count \in Nat /\ current \in Nat
      /\ call.start \in Nat /\ call.end \in Nat
  BY <1>1, CallerFacts DEF InCall, IInv, CallSound
<1>3. /\ size \in 0 .. call.end - current
      /\ job_count - i = 1 => size = call.end - current
  <2>1. /\ call.end - current \in Nat
        /\ job_count - i \in Nat /\ job_count - i > 0
    BY <1>1, <1>2
  <2>2. QED
    BY <2>1, Share
<1> HIDE DEF size
<1>4. i \notin Cut /\ Cut' = Cut \cup {i} /\ \A k \in Cut : k < i
  BY <1>1, <1>2, ForConstants DEF Cut
<1>5. /\ current' \in Nat /\ jobs' \in [JobId -> [start : Nat, end : Nat]]
      /\ jobs'[i] = [start |-> current, end |-> current + size]
      /\ \A k \in Cut : jobs'[k] = jobs[k]
  BY <1>1, <1>2, <1>3, <1>4, CallerFacts DEF JobRange, Cut
<1>6. \A k \in Cut : Items(k)' = Items(k)
  BY <1>5 DEF Items
<1>7. CallSound'
  <2>1. /\ call.start <= current' /\ current' <= call.end
        /\ i + 1 = job_count => current' = call.end
    BY <1>1, <1>2, <1>3
  <2>2. QED
    BY <1>1, <2>1 DEF CallSound, InCall, AllCut, IInv
<1>8. RangesSound'
  <2>1. ASSUME NEW k \in Cut'
        PROVE  /\ call.start <= jobs'[k].start /\ jobs'[k].start <= jobs'[k].end
               /\ jobs'[k].end <= current'
    <3>1. CASE k = i
      BY <1>1, <1>2, <1>3, <1>5, <3>1
    <3>2. CASE k \in Cut
      <4>1. /\ call.start <= jobs[k].start /\ jobs[k].start <= jobs[k].end
            /\ jobs[k].end <= current /\ jobs[k].end \in Nat
        BY <1>2, <3>2, CallerFacts DEF IInv, RangesSound, Cut
      <4>2. QED
        BY <1>1, <1>2, <1>3, <1>5, <3>2, <4>1
    <3>3. QED
      BY <1>4, <2>1, <3>1, <3>2
  <2>2. ASSUME NEW j \in Cut', NEW k \in Cut', j < k
        PROVE  jobs'[j].end <= jobs'[k].start
    <3>0. j \in Nat /\ k \in Nat
      BY ForConstants DEF Cut
    <3>1. CASE j \in Cut /\ k \in Cut
      BY <1>2, <1>5, <2>2, <3>1 DEF IInv, RangesSound
    <3>2. CASE j \in Cut /\ k = i
      BY <1>2, <1>5, <3>2 DEF IInv, RangesSound
    <3>3. CASE j = i /\ k \in Cut
      BY <1>4, <2>2, <3>0, <3>3
    <3>4. CASE j = i /\ k = i
      BY <2>2, <3>0, <3>4
    <3>5. QED
      BY <1>4, <3>1, <3>2, <3>3, <3>4
  <2>3. ASSUME NEW x \in call.start .. current' - 1
        PROVE  \E k \in Cut' : x \in Items(k)'
    <3>1. CASE x < current
      <4>1. PICK k \in Cut : x \in Items(k)
        BY <1>2, <3>1 DEF IInv, RangesSound
      <4>2. QED
        BY <1>4, <1>6, <4>1
    <3>2. CASE current <= x
      <4>1. x \in jobs'[i].start .. jobs'[i].end - 1
        BY <1>1, <1>2, <1>3, <1>5, <3>2
      <4>2. QED
        BY <1>4, <4>1 DEF Items
    <3>3. QED
      BY <1>2, <3>1, <3>2
  <2>4. QED
    BY <1>1, <2>1, <2>2, <2>3 DEF RangesSound
<1>9. QED
  BY <1>2, <1>4, <1>5, <1>6, <1>7, <1>8

\* Going on to the next job.
LEMMA NextJob ==
  ASSUME IInv, pc \in {"signalling", "finishing"}, pc' = "dividing", i' = i + 1,
         UNCHANGED <<call, job_count, current, jobs>>
  PROVE  /\ Cut' = Cut /\ i' \in 0 .. job_count'
         /\ \A k \in Cut : Items(k)' = Items(k)
         /\ CallSound' /\ RangesSound'
<1>1. /\ InCall /\ InCall' /\ i < job_count
      /\ i \in Nat /\ job_count \in Nat
  BY CallerFacts DEF InCall, IInv, CallSound
<1>2. Cut' = Cut
  BY <1>1, ForConstants DEF Cut
<1>3. AllCut' <=> AllCut
  BY <1>1 DEF AllCut
<1>4. CallSound'
  BY <1>1, <1>3 DEF CallSound, IInv
<1>5. \A k : Items(k)' = Items(k)
  BY DEF Items
<1>6. RangesSound'
  BY <1>1, <1>2, <1>5 DEF RangesSound, IInv
<1>7. QED
  BY <1>1, <1>2, <1>4, <1>5, <1>6

-----------------------------------------------------------------------------
\* The indexes.

\* Nothing is handed over when the same jobs have been called.
LEMMA HandedStays ==
  ASSUME IInv, InCall, InCall', Cut' \ Pending' = Cut \ Pending,
         \A k \in Cut : Items(k)' = Items(k), processed' = processed
  PROVE  ProcessedSound'
<1>1. Handed' = Handed
  BY DEF Handed, InCall
<1>2. QED
  BY <1>1 DEF ProcessedSound, IInv

\* A job that is called hands over its indexes, none of which had been.
LEMMA HandedGrows ==
  ASSUME IInv, InCall, InCall', NEW n \in Cut, n \in Pending,
         Cut' = Cut, Pending' = Pending \ {n}, jobs' = jobs,
         Process(jobs[n].start, jobs[n].end)
  PROVE  ProcessedSound' /\ processed' \in [Index -> Nat]
<1>1. \A k : Items(k)' = Items(k)
  BY DEF Items
<1>2. Handed' = Handed \cup {x \in Index : x \in Items(n)}
  BY <1>1 DEF Handed, InCall
<1>3. \A x \in Index : x \in Items(n) => x \notin Handed
  BY ItemsApart DEF Handed, InCall
<1>4. \A x \in Index : processed[x] = IF x \in Handed THEN 1 ELSE 0
  BY DEF IInv, ProcessedSound
<1>5. processed' = [x \in Index |-> processed[x] + IF x \in Items(n) THEN 1 ELSE 0]
  BY DEF Process, Items
<1>6. \A x \in Index : processed'[x] = IF x \in Handed' THEN 1 ELSE 0
  BY <1>2, <1>3, <1>4, <1>5
<1>7. processed' \in [Index -> Nat]
  BY <1>4, <1>5
<1>8. QED
  BY <1>6, <1>7 DEF ProcessedSound

-----------------------------------------------------------------------------
\* The steps.

LEMMA InvInit == Init => IInv
<1> SUFFICES ASSUME Init PROVE IInv
  OBVIOUS
<1> USE DEF Init, CounterInit
<1>1. PoolSound /\ Held(Elements(ring)) = {}
  BY InitSound
<1>2. QueuedJobs = {}
  BY <1>1, QueuedAre
<1>3. JobsAtWork = {}
  BY ForConstants DEF PoolInit, JobsAtWork
<1>4. TypeOK
  <2>1. PoolTypeOK /\ CounterTypeOK
    <3>1. sleeping \in BOOLEAN
      OBVIOUS
    <3>2. count \in Int
      OBVIOUS
    <3>3. QED
      BY <1>1, <3>1, <3>2 DEF PoolSound, CounterTypeOK
  <2>2. /\ call \in [start : Nat, end : Nat, grain : Nat]
        /\ jobs \in [JobId -> [start : Nat, end : Nat]]
        /\ processed \in [Index -> Nat]
    OBVIOUS
  <2>3. job_count \in 0 .. MAX_PARALLELISM /\ i \in 0 .. job_count
    BY ForConstants
  <2>4. QED
    BY <2>1, <2>2, <2>3 DEF TypeOK, PC
<1>5. JobsSound
  BY <1>2, <1>3, ForConstants DEF JobsSound, PoolInit
<1>6. CountSound
  BY <1>2, <1>3, FS_EmptySet DEF CountSound, Left
<1>7. CallSound /\ RangesSound
  BY ForConstants DEF CallSound, RangesSound, InCall
<1>8. ProcessedSound
  BY DEF ProcessedSound, Handed
<1>9. QED
  BY <1>1, <1>4, <1>5, <1>6, <1>7, <1>8 DEF IInv

\* A step that leaves the jobs where they are, and the caller too.
LEMMA JobsStay ==
  ASSUME IInv, PoolSound', QueuedJobs' = QueuedJobs, JobsAtWork' = JobsAtWork,
         \A v, w \in Worker : job'[v] \in JobId /\ job'[v] = job'[w] => v = w,
         sleeping' \in BOOLEAN, stopper' \in {"away", "signalling", "gone"},
         UNCHANGED <<count, callerVars, ran, processed>>
  PROVE  IInv'
<1> USE DEF callerVars
<1>1. TypeOK'
  BY DEF TypeOK, IInv, CounterTypeOK, PoolSound
<1>2. Cut' = Cut /\ Refused' = Refused /\ Left' = Left /\ (InCall' <=> InCall)
  BY DEF Cut, Refused, Left, InCall
<1>3. JobsSound' /\ CountSound'
  BY <1>2 DEF JobsSound, CountSound, IInv
<1>4. CallSound'
  BY <1>2 DEF CallSound, AllCut, IInv
<1>5. RangesSound'
  BY <1>2 DEF RangesSound, Items, IInv
<1>6. Pending' = Pending
  BY DEF Pending
<1>7. Handed' = Handed
  BY <1>2, <1>6 DEF Handed, Items
<1>8. ProcessedSound'
  BY <1>7 DEF ProcessedSound, IInv
<1>9. QED
  BY <1>1, <1>3, <1>4, <1>5, <1>8 DEF IInv

\* In particular one that leaves the queue and the workers' tasks alone.
LEMMA QuietStep ==
  ASSUME IInv, PoolSound', UNCHANGED <<ring, job>>,
         sleeping' \in BOOLEAN, stopper' \in {"away", "signalling", "gone"},
         UNCHANGED <<count, callerVars, ran, processed>>
  PROVE  IInv'
<1>1. QueuedJobs' = QueuedJobs /\ JobsAtWork' = JobsAtWork
  BY DEF QueuedJobs, JobsAtWork, Elements
<1>2. \A v, w \in Worker : job'[v] \in JobId /\ job'[v] = job'[w] => v = w
  BY DEF IInv, JobsSound
<1>3. QED
  BY <1>1, <1>2, JobsStay

\* Outside a call there are no jobs.
LEMMA NoJobsOutside ==
  ASSUME IInv, pc = "out"
  PROVE  QueuedJobs = {} /\ JobsAtWork = {} /\ ran = {} /\ Cut = {}
<1>1. Cut = {}
  BY DEF Cut, InCall
<1>2. QED
  BY <1>1 DEF IInv, JobsSound

LEMMA CallHereStep ==
  ASSUME IInv, NEW c \in Calls, CallHere(c)
  PROVE  IInv'
<1>1. /\ pc = "out" /\ pc' = "out" /\ call' = c
      /\ processed' = [x \in Index |-> IF x \in c.start .. c.end - 1 THEN 1 ELSE 0]
      /\ UNCHANGED <<poolVars, counterVars, job_count, i, current, jobs, ran, stopper>>
  BY DEF CallHere
<1>2. PoolSound' /\ UNCHANGED <<ring, job>>
  BY <1>1, RestKeeps DEF IInv
<1>3. QueuedJobs' = QueuedJobs /\ JobsAtWork' = JobsAtWork
  BY <1>2 DEF QueuedJobs, JobsAtWork, Elements
<1>4. TypeOK'
  BY <1>1, <1>2, ForConstants, ParallelForAssumption
     DEF TypeOK, IInv, CounterTypeOK, PoolSound, counterVars, PC
<1>5. JobsSound' /\ CountSound'
  BY <1>1, <1>2, <1>3, NoJobsOutside
     DEF JobsSound, CountSound, Left, IInv, counterVars
<1>6. CallSound' /\ RangesSound'
  BY <1>1 DEF CallSound, RangesSound, InCall, IInv
<1>7. ProcessedSound'
  BY <1>1 DEF ProcessedSound, Handed
<1>8. QED
  BY <1>2, <1>4, <1>5, <1>6, <1>7 DEF IInv

LEMMA CallParallelStep ==
  ASSUME IInv, NEW c \in Calls, CallParallel(c)
  PROVE  IInv'
<1>1. /\ pc = "out" /\ pc' = "dividing" /\ call' = c /\ c.end > c.start
      /\ JobCount(c) > 1 /\ count' = JobCount(c) /\ sleeping' = FALSE
      /\ job_count' = JobCount(c) /\ i' = 0 /\ current' = c.start
      /\ processed' = [x \in Index |-> 0]
      /\ UNCHANGED <<poolVars, jobs, ran, stopper>>
  BY DEF CallParallel, Begin
<1>2. PoolSound' /\ UNCHANGED <<ring, job>>
  BY <1>1, RestKeeps DEF IInv
<1>3. /\ QueuedJobs' = {} /\ JobsAtWork' = {} /\ ran' = {}
  BY <1>1, <1>2, NoJobsOutside DEF QueuedJobs, JobsAtWork, Elements
<1>4. /\ JobCount(c) \in Nat
      /\ JobCount(c) <= Lower(Cardinality(Worker), MAX_PARALLELISM)
  <2> DEFINE grains == (c.end - c.start + c.grain - 1) \div c.grain
  <2>1. grains \in Nat
    <3>1. c.end - c.start + c.grain - 1 \in Nat /\ c.grain \in Nat /\ c.grain > 0
      BY <1>1, ForConstants
    <3>2. QED
      BY <3>1
  <2> HIDE DEF grains
  <2>2. JobCount(c) = Lower(grains, Lower(Cardinality(Worker), MAX_PARALLELISM))
    BY DEF JobCount, grains
  <2> DEFINE threads == Lower(Cardinality(Worker), MAX_PARALLELISM)
  <2>3. threads \in Nat
    BY ForConstants
  <2> HIDE DEF threads
  <2>4. Lower(grains, threads) \in Nat /\ Lower(grains, threads) <= threads
    BY <2>1, <2>3 DEF Lower
  <2>5. QED
    BY <2>2, <2>4 DEF threads
<1>5. Cut' = {}
  BY <1>1, ForConstants DEF Cut
<1>6. TypeOK'
  <2>1. JobCount(c) \in 0 .. MAX_PARALLELISM
    BY <1>4, ForConstants
  <2>2. c \in [start : Nat, end : Nat, grain : Nat]
    BY ParallelForAssumption
  <2>3. PoolTypeOK' /\ CounterTypeOK'
    <3>1. sleeping' \in BOOLEAN
      BY <1>1
    <3>2. count' \in Int
      BY <1>1, <1>4
    <3>3. QED
      BY <1>2, <3>1, <3>2 DEF PoolSound, CounterTypeOK
  <2>4. processed' \in [Index -> Nat]
    BY <1>1
  <2>5. /\ current' \in Nat /\ i' \in 0 .. job_count'
        /\ job_count' \in 0 .. MAX_PARALLELISM
    BY <1>1, <1>4, <2>1, ForConstants
  <2>6. /\ jobs' \in [JobId -> [start : Nat, end : Nat]] /\ ran' \subseteq JobId
        /\ stopper' \in {"away", "signalling", "gone"}
    BY <1>1 DEF TypeOK, IInv
  <2>7. QED
    BY <1>1, <2>2, <2>3, <2>4, <2>5, <2>6 DEF TypeOK, PC
<1>7. JobsSound'
  BY <1>2, <1>3, <1>5 DEF JobsSound, IInv
<1>8. CountSound'
  BY <1>1, <1>3, <1>4, FS_EmptySet DEF CountSound, Left
<1>9. CallSound'
  BY <1>1, <1>4, ForConstants DEF CallSound, AllCut
<1>10. RangesSound'
  BY <1>1, <1>5, ForConstants DEF RangesSound
<1>11. ProcessedSound'
  BY <1>1, <1>5 DEF ProcessedSound, Handed
<1>12. QED
  BY <1>2, <1>6, <1>7, <1>8, <1>9, <1>10, <1>11 DEF IInv

\* An enqueue moves a job into the queue.
LEMMA EnqueueStep ==
  ASSUME IInv, EnqueueJob
  PROVE  IInv'
<1>1. /\ CutJob /\ Enqueue(i) /\ pc = "dividing" /\ pc' = "signalling"
      /\ i < job_count /\ ~stop
      /\ UNCHANGED <<counterVars, call, job_count, i, ran, processed, stopper>>
  BY DEF EnqueueJob, CutJob, Enqueue
<1>2. /\ i \in JobId /\ i \notin Cut /\ Cut' = Cut \cup {i}
      /\ \A k \in Cut : Items(k)' = Items(k)
      /\ current' \in Nat /\ jobs' \in [JobId -> [start : Nat, end : Nat]]
      /\ CallSound' /\ RangesSound'
  BY <1>1, CutStep
<1>3. i \notin QueuedJobs /\ i \notin JobsAtWork
  BY <1>2 DEF IInv, JobsSound
<1>4. PICK k \in JobId : k = i
  BY <1>2
<1>5. k \in Task /\ k \notin Held(Elements(ring)) /\ Enqueue(k)
  BY <1>1, <1>3, <1>4, QueuedAre, ForConstants DEF IInv
<1>6. /\ PoolSound' /\ UNCHANGED job
      /\ Held(Elements(ring))' = Held(Elements(ring)) \cup {k}
  BY <1>5, EnqueueAdds DEF IInv
<1>7. /\ QueuedJobs' = QueuedJobs \cup {i} /\ JobsAtWork' = JobsAtWork
  BY <1>4, <1>6, QueuedAre, QueuedAreNext DEF IInv, JobsAtWork
<1>8. TypeOK'
  BY <1>1, <1>2, <1>6
     DEF TypeOK, IInv, CounterTypeOK, PoolSound, counterVars, PC
<1>9. JobsSound'
  <2>1. Refused' = {} /\ Refused = {}
    BY <1>1 DEF Refused
  <2>2. (QueuedJobs \cup JobsAtWork \subseteq Cut \ Refused)'
    BY <1>2, <1>7, <2>1 DEF IInv, JobsSound
  <2>3. (QueuedJobs \cap JobsAtWork = {})'
    BY <1>3, <1>7 DEF IInv, JobsSound
  <2>4. QED
    BY <1>1, <1>6, <1>7, <2>2, <2>3 DEF IInv, JobsSound
<1>10. CountSound'
  <2>1. Cardinality(QueuedJobs') = Cardinality(QueuedJobs) + 1
    BY <1>3, <1>7, OneMore, JobsCounted, CallerFacts
  <2>2. Left' = Left - 1 /\ Left \in Nat
    BY <1>1, CallerFacts DEF Left
  <2>3. count' = count
    BY <1>1 DEF counterVars
  <2>4. QED
    BY <1>7, <2>1, <2>2, <2>3, CallerFacts DEF CountSound, IInv
<1>11. ProcessedSound'
  <2>1. Pending' = Pending \cup {i}
    BY <1>1, <1>7 DEF Pending
  <2>2. Cut' \ Pending' = Cut \ Pending
    BY <1>2, <2>1
  <2>3. InCall /\ InCall'
    BY <1>1 DEF InCall
  <2>4. QED
    BY <1>1, <1>2, <2>2, <2>3, HandedStays
<1>12. QED
  BY <1>2, <1>6, <1>8, <1>9, <1>10, <1>11 DEF IInv

\* A refused job stays with the caller.
LEMMA RefuseStep ==
  ASSUME IInv, JobRefused
  PROVE  IInv'
<1>1. /\ CutJob /\ EnqueueRefused /\ pc = "dividing" /\ pc' = "inline"
      /\ i < job_count
      /\ UNCHANGED <<counterVars, call, job_count, i, ran, processed, stopper>>
  BY DEF JobRefused, CutJob
<1>2. /\ i \in JobId /\ i \notin Cut /\ Cut' = Cut \cup {i}
      /\ \A k \in Cut : Items(k)' = Items(k)
      /\ current' \in Nat /\ jobs' \in [JobId -> [start : Nat, end : Nat]]
      /\ CallSound' /\ RangesSound'
  BY <1>1, CutStep
<1>3. PoolSound' /\ UNCHANGED <<ring, job>>
  BY <1>1, RestKeeps DEF IInv
<1>4. QueuedJobs' = QueuedJobs /\ JobsAtWork' = JobsAtWork
  BY <1>3 DEF QueuedJobs, JobsAtWork, Elements
<1>5. TypeOK'
  BY <1>1, <1>2, <1>3
     DEF TypeOK, IInv, CounterTypeOK, PoolSound, counterVars, PC
<1>6. JobsSound'
  <2>1. Refused' = {i} /\ Refused = {}
    BY <1>1, <1>2 DEF Refused
  <2>2. QED
    BY <1>1, <1>2, <1>3, <1>4, <2>1 DEF JobsSound, IInv
<1>7. CountSound'
  BY <1>1, <1>4 DEF CountSound, Left, IInv, counterVars
<1>8. ProcessedSound'
  <2>1. Pending' = Pending \cup {i}
    BY <1>1, <1>2, <1>4 DEF Pending
  <2>2. Cut' \ Pending' = Cut \ Pending
    BY <1>2, <2>1
  <2>3. InCall /\ InCall'
    BY <1>1 DEF InCall
  <2>4. QED
    BY <1>1, <1>2, <2>2, <2>3, HandedStays
<1>9. QED
  BY <1>2, <1>3, <1>5, <1>6, <1>7, <1>8 DEF IInv

LEMMA SignalStep ==
  ASSUME IInv, SignalJob
  PROVE  IInv'
<1>1. /\ SignalOne /\ pc = "signalling" /\ pc' = "dividing" /\ i' = i + 1
      /\ UNCHANGED <<counterVars, call, job_count, current, jobs, ran, processed,
                     stopper>>
  BY DEF SignalJob
<1>2. /\ Cut' = Cut /\ i' \in 0 .. job_count' /\ CallSound' /\ RangesSound'
      /\ \A k \in Cut : Items(k)' = Items(k)
  BY <1>1, NextJob
<1>3. PoolSound' /\ UNCHANGED <<ring, job>>
  BY <1>1, RestKeeps DEF IInv
<1>4. QueuedJobs' = QueuedJobs /\ JobsAtWork' = JobsAtWork
  BY <1>3 DEF QueuedJobs, JobsAtWork, Elements
<1>5. TypeOK'
  BY <1>1, <1>2, <1>3
     DEF TypeOK, IInv, CounterTypeOK, PoolSound, counterVars, PC
<1>6. JobsSound'
  <2>1. Refused' = {} /\ Refused = {}
    BY <1>1 DEF Refused
  <2>2. QED
    BY <1>1, <1>2, <1>3, <1>4, <2>1 DEF JobsSound, IInv
<1>7. CountSound'
  BY <1>1, <1>4, CallerFacts DEF CountSound, Left, IInv, counterVars
<1>8. ProcessedSound'
  <2>1. Pending' = Pending
    BY <1>1, <1>4 DEF Pending
  <2>2. InCall /\ InCall'
    BY <1>1 DEF InCall
  <2>3. QED
    BY <1>1, <1>2, <2>1, <2>2, HandedStays
<1>9. QED
  BY <1>2, <1>3, <1>5, <1>6, <1>7, <1>8 DEF IInv

LEMMA RunRefusedStep ==
  ASSUME IInv, RunRefused
  PROVE  IInv'
<1>1. /\ pc = "inline" /\ pc' = "finishing"
      /\ Process(jobs[i].start, jobs[i].end)
      /\ UNCHANGED <<poolVars, counterVars, call, job_count, i, current, jobs, ran,
                     stopper>>
  BY DEF RunRefused
<1>2. /\ InCall /\ InCall' /\ i < job_count /\ i \in JobId
  BY <1>1, CallerFacts DEF InCall, IInv, CallSound
<1>3. Cut' = Cut /\ Refused' = Refused /\ i \in Cut /\ i \in Refused
  BY <1>1, <1>2 DEF Cut, Refused
<1>4. PoolSound' /\ UNCHANGED <<ring, job>>
  BY <1>1, RestKeeps DEF IInv
<1>5. QueuedJobs' = QueuedJobs /\ JobsAtWork' = JobsAtWork
  BY <1>4 DEF QueuedJobs, JobsAtWork, Elements
<1>6. ProcessedSound' /\ processed' \in [Index -> Nat]
  <2>1. PICK n \in Cut : n = i
    BY <1>3
  <2>2. n \in Pending /\ Pending' = Pending \ {n}
    BY <1>1, <1>2, <1>3, <1>5, <2>1 DEF Pending, IInv, JobsSound
  <2>3. Process(jobs[n].start, jobs[n].end)
    BY <1>1, <2>1
  <2>4. QED
    BY <1>1, <1>2, <1>3, <2>2, <2>3, HandedGrows
<1>7. TypeOK'
  BY <1>1, <1>4, <1>6
     DEF TypeOK, IInv, CounterTypeOK, PoolSound, counterVars, PC
<1>8. JobsSound'
  BY <1>1, <1>3, <1>4, <1>5 DEF JobsSound, IInv
<1>9. CountSound'
  BY <1>1, <1>5 DEF CountSound, Left, IInv, counterVars
<1>10. CallSound' /\ RangesSound'
  BY <1>1, <1>2, <1>3 DEF CallSound, RangesSound, AllCut, Items, IInv
<1>11. QED
  BY <1>4, <1>6, <1>7, <1>8, <1>9, <1>10 DEF IInv

LEMMA FinishRefusedStep ==
  ASSUME IInv, FinishRefused
  PROVE  IInv'
<1>1. /\ pc = "finishing" /\ pc' = "dividing" /\ i' = i + 1
      /\ count > 0 /\ count' = count - 1 /\ sleeping' = (sleeping /\ count' > 0)
      /\ UNCHANGED <<poolVars, call, job_count, current, jobs, ran, processed,
                     stopper>>
  BY DEF FinishRefused, FinishOne
<1>2. /\ Cut' = Cut /\ i' \in 0 .. job_count' /\ CallSound' /\ RangesSound'
      /\ \A k \in Cut : Items(k)' = Items(k)
  BY <1>1, NextJob
<1>3. PoolSound' /\ UNCHANGED <<ring, job>>
  BY <1>1, RestKeeps DEF IInv
<1>4. QueuedJobs' = QueuedJobs /\ JobsAtWork' = JobsAtWork
  BY <1>3 DEF QueuedJobs, JobsAtWork, Elements
<1>5. TypeOK'
  <2>1. sleeping' \in BOOLEAN
    BY <1>1
  <2>2. count' \in Int
    BY <1>1 DEF IInv, TypeOK, CounterTypeOK
  <2>3. QED
    BY <1>1, <1>2, <1>3, <2>1, <2>2 DEF TypeOK, IInv, CounterTypeOK, PoolSound, PC
<1>6. JobsSound'
  <2>1. Refused' = {}
    BY <1>1 DEF Refused
  <2>2. QED
    BY <1>1, <1>2, <1>3, <1>4, <2>1 DEF JobsSound, IInv
<1>7. CountSound'
  BY <1>1, <1>4, CallerFacts DEF CountSound, Left, IInv
<1>8. ProcessedSound'
  <2>1. Pending' = Pending
    BY <1>1, <1>4 DEF Pending
  <2>2. InCall /\ InCall'
    BY <1>1 DEF InCall
  <2>3. QED
    BY <1>1, <1>2, <2>1, <2>2, HandedStays
<1>9. QED
  BY <1>2, <1>3, <1>5, <1>6, <1>7, <1>8 DEF IInv

\* The caller returns when the counter has counted every job off.
LEMMA ReturnStep ==
  ASSUME IInv, CallReturn
  PROVE  IInv'
<1>1. /\ pc = "dividing" /\ pc' = "out" /\ i = job_count /\ count <= 0
      /\ UNCHANGED <<poolVars, counterVars, call, job_count, i, current, jobs, ran,
                     processed, stopper>>
  BY DEF CallReturn, WaitEnds
<1>2. QueuedJobs = {} /\ JobsAtWork = {} /\ ran = {} /\ count = 0
  <2>1. /\ count = Cardinality(QueuedJobs) + Cardinality(JobsAtWork)
        /\ Cardinality(QueuedJobs) \in Nat /\ Cardinality(JobsAtWork) \in Nat
    BY <1>1, CallerFacts DEF CountSound, Left, IInv
  <2>2. Cardinality(QueuedJobs) = 0 /\ Cardinality(JobsAtWork) = 0 /\ count = 0
    BY <1>1, <2>1
  <2>3. IsFiniteSet(QueuedJobs) /\ IsFiniteSet(JobsAtWork)
    BY JobsCounted, CallerFacts
  <2>4. QueuedJobs = {} /\ JobsAtWork = {}
    BY <2>2, <2>3, FS_EmptySet
  <2>5. QED
    BY <2>2, <2>4 DEF IInv, JobsSound
<1>3. PoolSound' /\ UNCHANGED <<ring, job>>
  BY <1>1, RestKeeps DEF IInv
<1>4. QueuedJobs' = {} /\ JobsAtWork' = {}
  BY <1>2, <1>3 DEF QueuedJobs, JobsAtWork, Elements
<1>5. TypeOK'
  BY <1>1, <1>3 DEF TypeOK, IInv, CounterTypeOK, PoolSound, counterVars, PC
<1>6. JobsSound'
  BY <1>1, <1>2, <1>3, <1>4 DEF JobsSound, IInv
<1>7. CountSound'
  BY <1>1, <1>2, <1>4, FS_EmptySet DEF CountSound, Left, counterVars
<1>8. CallSound' /\ RangesSound'
  BY <1>1 DEF CallSound, RangesSound, InCall, IInv
<1>9. ProcessedSound'
  <2>1. InCall /\ current = call.end
    BY <1>1 DEF InCall, AllCut, CallSound, IInv
  <2>2. Pending = {}
    BY <1>1, <1>2 DEF Pending
  <2>3. ASSUME NEW x \in Index
        PROVE  x \in call.start .. call.end - 1 <=> \E k \in Cut : x \in Items(k)
    <3>1. ASSUME x \in call.start .. call.end - 1
          PROVE  \E k \in Cut : x \in Items(k)
      BY <2>1, <3>1 DEF RangesSound, IInv
    <3>2. ASSUME NEW k \in Cut, x \in Items(k)
          PROVE  x \in call.start .. call.end - 1
      <4>1. /\ call.start <= jobs[k].start /\ jobs[k].end <= current
            /\ k \in JobId
        BY <2>1 DEF RangesSound, IInv, Cut
      <4>2. /\ jobs[k].start \in Nat /\ jobs[k].end \in Nat
            /\ call.start \in Nat /\ call.end \in Nat
        BY <4>1, CallerFacts
      <4>3. QED
        BY <2>1, <3>2, <4>1, <4>2 DEF Items
    <3>3. QED
      BY <3>1, <3>2
  <2>4. Handed' = Handed
    BY <1>1, <2>2, <2>3 DEF Handed
  <2>5. QED
    BY <1>1, <2>4 DEF ProcessedSound, IInv
<1>10. QED
  BY <1>3, <1>5, <1>6, <1>7, <1>8, <1>9 DEF IInv

\* A worker takes a job out of the queue, or a task that is none.
LEMMA TakeStep ==
  ASSUME IInv, NEW w \in Worker, Take(w), UNCHANGED <<counterVars, forVars>>
  PROVE  IInv'
<1>1. /\ PoolSound' /\ job[w] = Zero
      /\ \E t \in Held(Elements(ring)) :
           /\ t \in Task /\ job' = [job EXCEPT ![w] = t]
           /\ Held(Elements(ring))' = Held(Elements(ring)) \ {t}
  BY TakeMoves, ForConstants DEF IInv
<1>2. PICK t \in Held(Elements(ring)) :
        /\ t \in Task /\ job' = [job EXCEPT ![w] = t]
        /\ Held(Elements(ring))' = Held(Elements(ring)) \ {t}
  BY <1>1
<1>3. job \in [Worker -> Task \cup {Zero}] /\ Zero \notin JobId
  BY ForConstants DEF IInv, TypeOK, PoolTypeOK
<1>4. QueuedJobs' = QueuedJobs \ {t}
  BY <1>1, <1>2, QueuedAre, QueuedAreNext DEF IInv
<1>5. /\ sleeping' \in BOOLEAN /\ stopper' \in {"away", "signalling", "gone"}
      /\ UNCHANGED <<count, callerVars, ran, processed>>
  BY DEF counterVars, forVars, IInv, TypeOK, CounterTypeOK
<1>6. CASE t \notin JobId
  <2>1. QueuedJobs' = QueuedJobs
    BY <1>4, <1>6 DEF QueuedJobs
  <2>2. JobsAtWork' = JobsAtWork
    BY <1>1, <1>2, <1>3, <1>6 DEF JobsAtWork
  <2>3. \A u, v \in Worker : job'[u] \in JobId /\ job'[u] = job'[v] => u = v
    BY <1>2, <1>3, <1>6 DEF IInv, JobsSound
  <2>4. QED
    BY <1>1, <1>5, <2>1, <2>2, <2>3, JobsStay
<1>7. CASE t \in JobId
  <2>1. t \in QueuedJobs /\ t \notin JobsAtWork /\ t \notin ran
    <3>1. t \in QueuedJobs
      BY <1>7, QueuedAre DEF IInv
    <3>2. QED
      BY <3>1 DEF IInv, JobsSound
  <2>2. JobsAtWork' = JobsAtWork \cup {t}
    BY <1>1, <1>2, <1>3, <1>7 DEF JobsAtWork
  <2>3. \A u, v \in Worker : job'[u] \in JobId /\ job'[u] = job'[v] => u = v
    BY <1>2, <1>3, <1>7, <2>1 DEF IInv, JobsSound, JobsAtWork
  <2>4. /\ Cut' = Cut /\ Refused' = Refused /\ Left' = Left
        /\ (InCall' <=> InCall) /\ Pending' = Pending
    <3>1. Cut' = Cut /\ Refused' = Refused /\ Left' = Left /\ (InCall' <=> InCall)
      BY <1>5 DEF Cut, Refused, Left, InCall, callerVars
    <3>2. Pending' = Pending
      BY <1>4, <1>5, <2>1, <2>2 DEF Pending, callerVars
    <3>3. QED
      BY <3>1, <3>2
  <2>5. TypeOK'
    BY <1>1, <1>5 DEF TypeOK, IInv, CounterTypeOK, PoolSound, callerVars
  <2>6. JobsSound'
    BY <1>4, <1>5, <2>1, <2>2, <2>3, <2>4 DEF JobsSound, IInv
  <2>7. CountSound'
    <3>1. IsFiniteSet(QueuedJobs) /\ IsFiniteSet(JobsAtWork)
      BY JobsCounted, CallerFacts
    <3>2. /\ Cardinality(QueuedJobs') = Cardinality(QueuedJobs) - 1
          /\ Cardinality(JobsAtWork') = Cardinality(JobsAtWork) + 1
      BY <1>4, <2>1, <2>2, <3>1, OneMore, OneLess
    <3>3. Left \in Int
      BY CallerFacts DEF Left
    <3>4. QED
      BY <1>5, <2>4, <3>2, <3>3, CallerFacts DEF CountSound, IInv
  <2>8. CallSound' /\ RangesSound'
    BY <1>5, <2>4 DEF CallSound, RangesSound, AllCut, Items, IInv, callerVars
  <2>9. ProcessedSound'
    BY <1>5, <2>4 DEF ProcessedSound, Handed, Items, IInv, callerVars
  <2>10. QED
    BY <1>1, <2>5, <2>6, <2>7, <2>8, <2>9 DEF IInv
<1>8. QED
  BY <1>6, <1>7

\* A worker calls the function of its job.
LEMMA RunStep ==
  ASSUME IInv, NEW w \in Worker, WorkerRuns(w)
  PROVE  IInv'
<1>1. /\ job[w] \in JobId /\ job[w] \notin ran
      /\ Process(jobs[job[w]].start, jobs[job[w]].end)
      /\ ran' = ran \cup {job[w]}
      /\ UNCHANGED <<poolVars, counterVars, callerVars, stopper>>
  BY DEF WorkerRuns
<1>2. PICK n \in JobId : n = job[w]
  BY <1>1
<1>3. n \in JobsAtWork /\ n \in Pending /\ n \notin QueuedJobs
  BY <1>1, <1>2 DEF JobsAtWork, Pending, IInv, JobsSound
<1>4. n \in Cut /\ n \notin Refused
  BY <1>3 DEF IInv, JobsSound
<1>5. InCall
  BY <1>4 DEF Cut
<1>6. PoolSound' /\ UNCHANGED <<ring, job>>
  BY <1>1, RestKeeps DEF IInv
<1>7. QueuedJobs' = QueuedJobs /\ JobsAtWork' = JobsAtWork
  BY <1>6 DEF QueuedJobs, JobsAtWork, Elements
<1>8. /\ Cut' = Cut /\ Refused' = Refused /\ Left' = Left /\ InCall'
      /\ jobs' = jobs
  BY <1>1, <1>5 DEF Cut, Refused, Left, InCall, callerVars
<1>9. Pending' = Pending \ {n}
  <2>1. ~(n = i /\ pc = "inline")
    BY <1>2, <1>4 DEF Refused
  <2>2. QED
    BY <1>1, <1>2, <1>3, <1>7, <2>1 DEF Pending, callerVars
<1>10. ProcessedSound' /\ processed' \in [Index -> Nat]
  <2>1. Process(jobs[n].start, jobs[n].end)
    BY <1>1, <1>2
  <2>2. QED
    BY <1>3, <1>4, <1>5, <1>8, <1>9, <2>1, HandedGrows
<1>11. TypeOK'
  BY <1>1, <1>6, <1>10
     DEF TypeOK, IInv, CounterTypeOK, PoolSound, counterVars, callerVars
<1>12. JobsSound'
  BY <1>1, <1>2, <1>3, <1>6, <1>7, <1>8 DEF JobsSound, IInv
<1>13. CountSound'
  BY <1>1, <1>7, <1>8 DEF CountSound, IInv, counterVars
<1>14. CallSound' /\ RangesSound'
  BY <1>1, <1>8 DEF CallSound, RangesSound, InCall, AllCut, Items, IInv, callerVars
<1>15. QED
  BY <1>6, <1>10, <1>11, <1>12, <1>13, <1>14 DEF IInv

\* A worker counts its job off, and has none.
LEMMA FinishStep ==
  ASSUME IInv, NEW w \in Worker, WorkerFinishes(w)
  PROVE  IInv'
<1>1. /\ job[w] \in ran /\ Return(w) /\ ran' = ran \ {job[w]}
      /\ count > 0 /\ count' = count - 1 /\ sleeping' = (sleeping /\ count' > 0)
      /\ UNCHANGED <<callerVars, processed, stopper>>
  BY DEF WorkerFinishes, FinishOne
<1>2. PoolSound' /\ UNCHANGED ring /\ job' = [job EXCEPT ![w] = Zero]
  BY <1>1, ReturnFrees DEF IInv
<1>3. job \in [Worker -> Task \cup {Zero}] /\ Zero \notin JobId
  BY ForConstants DEF IInv, TypeOK, PoolTypeOK
<1>4. PICK n \in JobId : n = job[w]
  BY <1>1, CallerFacts DEF IInv, JobsSound
<1>5. n \in JobsAtWork /\ n \in ran
  BY <1>1, <1>4 DEF JobsAtWork
<1>6. QueuedJobs' = QueuedJobs
  BY <1>2 DEF QueuedJobs, Elements
<1>7. JobsAtWork' = JobsAtWork \ {n}
  BY <1>2, <1>3, <1>4 DEF JobsAtWork, IInv, JobsSound
<1>8. /\ Cut' = Cut /\ Refused' = Refused /\ Left' = Left /\ (InCall' <=> InCall)
  BY <1>1 DEF Cut, Refused, Left, InCall, callerVars
<1>9. Pending' = Pending
  BY <1>1, <1>4, <1>5, <1>6, <1>7 DEF Pending, callerVars
<1>10. TypeOK'
  <2>1. sleeping' \in BOOLEAN
    BY <1>1
  <2>2. count' \in Int
    BY <1>1 DEF IInv, TypeOK, CounterTypeOK
  <2>3. QED
    BY <1>1, <1>2, <2>1, <2>2
       DEF TypeOK, IInv, CounterTypeOK, PoolSound, callerVars
<1>11. JobsSound'
  <2>1. \A u, v \in Worker : job'[u] \in JobId /\ job'[u] = job'[v] => u = v
    BY <1>2, <1>3 DEF IInv, JobsSound
  <2>2. QED
    BY <1>1, <1>4, <1>6, <1>7, <1>8, <2>1 DEF JobsSound, IInv
<1>12. CountSound'
  <2>1. Cardinality(JobsAtWork') = Cardinality(JobsAtWork) - 1
    BY <1>5, <1>7, OneLess, JobsCounted, CallerFacts
  <2>2. Left \in Int
    BY CallerFacts DEF Left
  <2>3. QED
    BY <1>1, <1>6, <1>8, <2>1, <2>2, CallerFacts DEF CountSound, IInv
<1>13. CallSound' /\ RangesSound'
  BY <1>1, <1>8 DEF CallSound, RangesSound, AllCut, Items, IInv, callerVars
<1>14. ProcessedSound'
  BY <1>1, <1>8, <1>9 DEF ProcessedSound, Handed, Items, IInv, callerVars
<1>15. QED
  BY <1>2, <1>10, <1>11, <1>12, <1>13, <1>14 DEF IInv

-----------------------------------------------------------------------------
\* The invariant, and what follows from it.

LEMMA CallerInv == IInv /\ CallerStep => IInv'
<1> SUFFICES ASSUME IInv, CallerStep PROVE IInv'
  OBVIOUS
<1>1. CASE \E c \in Calls : CallHere(c) \/ CallParallel(c)
  BY <1>1, CallHereStep, CallParallelStep
<1>2. CASE EnqueueJob \/ JobRefused \/ SignalJob
  BY <1>2, EnqueueStep, RefuseStep, SignalStep
<1>3. CASE RunRefused \/ FinishRefused
  BY <1>3, RunRefusedStep, FinishRefusedStep
<1>4. CASE WaitForJobs \/ WakeForNothing
  <2>1. /\ UNCHANGED <<poolVars, forVars>>
        /\ count' = count /\ sleeping' \in BOOLEAN
    BY <1>4 DEF WaitForJobs, WakeForNothing, WaitSleeps, WaitWakes
  <2>2. PoolSound' /\ UNCHANGED <<ring, job>>
    BY <2>1, RestKeeps DEF IInv
  <2>3. QED
    BY <2>1, <2>2, QuietStep DEF forVars, IInv, TypeOK
<1>5. CASE CallReturn
  BY <1>5, ReturnStep
<1>6. QED
  BY <1>1, <1>2, <1>3, <1>4, <1>5 DEF CallerStep

LEMMA WorkerInv == IInv /\ WorkerStep => IInv'
<1> SUFFICES ASSUME IInv, WorkerStep PROVE IInv'
  OBVIOUS
<1>1. PICK w \in Worker :
        \/ WorkerTakes(w) \/ WorkerWaits(w) \/ WorkerWakes(w)
        \/ WorkerRuns(w) \/ WorkerFinishes(w)
  BY DEF WorkerStep
<1>2. CASE WorkerTakes(w)
  BY <1>2, TakeStep DEF WorkerTakes
<1>3. CASE WorkerWaits(w) \/ WorkerWakes(w)
  <2>1. /\ Sleep(w) \/ Exit(w) \/ WakeSpuriously(w)
        /\ UNCHANGED <<counterVars, forVars>>
    BY <1>3 DEF WorkerWaits, WorkerWakes
  <2>2. PoolSound' /\ UNCHANGED <<ring, job>>
    BY <2>1, RestKeeps DEF IInv
  <2>3. QED
    BY <2>1, <2>2, QuietStep DEF forVars, counterVars, IInv, TypeOK, CounterTypeOK
<1>4. CASE WorkerRuns(w)
  BY <1>4, RunStep
<1>5. CASE WorkerFinishes(w)
  BY <1>5, FinishStep
<1>6. QED
  BY <1>1, <1>2, <1>3, <1>4, <1>5

LEMMA StopInv == IInv /\ (StopPool \/ StopSignals) => IInv'
<1> SUFFICES ASSUME IInv, StopPool \/ StopSignals PROVE IInv'
  OBVIOUS
<1>1. /\ SetStop \/ SignalAll
      /\ stopper' \in {"away", "signalling", "gone"}
      /\ UNCHANGED <<counterVars, callerVars, ran, processed>>
  BY DEF StopPool, StopSignals
<1>2. PoolSound' /\ UNCHANGED <<ring, job>>
  BY <1>1, RestKeeps DEF IInv
<1>3. QED
  BY <1>1, <1>2, QuietStep DEF counterVars, IInv, TypeOK, CounterTypeOK

LEMMA InvStutter == IInv /\ UNCHANGED vars => IInv'
<1> SUFFICES ASSUME IInv, UNCHANGED vars PROVE IInv'
  OBVIOUS
<1>1. PoolSound' /\ UNCHANGED <<ring, job>>
  BY RestKeeps DEF IInv, vars
<1>2. QED
  BY <1>1, QuietStep DEF vars, counterVars, forVars, IInv, TypeOK, CounterTypeOK

\* The inductive invariant of parallel_for: every job is in one place, the
\* counter counts those not yet counted off, and the ranges of the jobs cover
\* what is cut, each index once (parallel_for.c, job_counter.c, thread_pool.c).
THEOREM ParallelForInvariant == Spec => []IInv
<1>1. IInv /\ [Next]_vars => IInv'
  BY CallerInv, WorkerInv, StopInv, InvStutter DEF Next
<1>2. QED
  BY <1>1, InvInit, PTL DEF Spec

\* No index is handed to func twice, and when parallel_for returns all those of
\* its range have been, and no other: with the pool running, stopped before the
\* call or in the middle of it.
THEOREM IndexesOnce == Spec => []EachIndexOnce
<1>1. IInv => EachIndexOnce
  BY DEF IInv, ProcessedSound, Handed, EachIndexOnce
<1>2. QED
  BY <1>1, ParallelForInvariant, PTL

\* The counter is the number of jobs not yet counted off (job_counter.c).
THEOREM CounterCounts == Spec => []CounterIsOutstanding
<1>1. IInv => CounterIsOutstanding
  <2> SUFFICES ASSUME IInv, InCall
               PROVE  count = Cardinality(QueuedJobs) + Cardinality(JobsAtWork)
                        + (job_count - i) - (IF pc = "signalling" THEN 1 ELSE 0)
    BY DEF CounterIsOutstanding
  <2>1. pc # "out"
    BY DEF InCall
  <2>2. QED
    BY <2>1, CallerFacts DEF IInv, CountSound, Left
<1>2. QED
  BY <1>1, ParallelForInvariant, PTL

\* When parallel_for has returned, and its jobs and its counter are gone from the
\* stack, no worker has one of them and the queue holds none.
THEOREM NoJobDangles == Spec => []NoDanglingJob
<1>1. IInv => NoDanglingJob
  BY NoJobsOutside DEF NoDanglingJob
<1>2. QED
  BY <1>1, ParallelForInvariant, PTL

\* There is room in the queue for another job.
LEMMA RoomForJob ==
  ASSUME IInv, pc = "dividing", i < job_count
  PROVE  ~FullRing(ring)
<1> DEFINE held   == Held(Elements(ring))
           others == Task \ JobId
           most   == Lower(Cardinality(Worker), MAX_PARALLELISM)
<1>1. /\ ring \in RingOf(Task) /\ Elements(ring) \in Seq(Task)
      /\ Distinct(Elements(ring))
  BY DEF IInv, PoolSound, PoolTypeOK
<1>2. /\ Cardinality(held) = ring.size /\ held \subseteq Task
  <2>1. Cardinality(held) = Len(Elements(ring)) /\ Len(Elements(ring)) = ring.size
    BY <1>1, HeldCount, ElementsLen
  <2>2. held \subseteq Task
    BY <1>1, ElementOfSeq, LenProperties DEF Held
  <2>3. QED
    BY <2>1, <2>2
<1>3. held \subseteq QueuedJobs \cup others
  BY <1>2, QueuedAre DEF IInv
<1>4. /\ IsFiniteSet(QueuedJobs) /\ Cardinality(QueuedJobs) \in Nat
      /\ Cardinality(QueuedJobs) <= i
  <2>1. QueuedJobs \subseteq 0 .. i - 1
    BY CallerFacts, ForConstants DEF IInv, JobsSound, Cut
  <2>2. IsFiniteSet(0 .. i - 1) /\ Cardinality(0 .. i - 1) = i
    <3>1. i \in Nat
      BY CallerFacts
    <3>2. QED
      BY <3>1, FS_Interval
  <2>3. QED
    BY <2>1, <2>2, FS_Subset, FS_CardinalityType
<1>5. /\ IsFiniteSet(others) /\ Cardinality(others) \in Nat
      /\ most + Cardinality(others) <= QueueCapacity
  BY ParallelForAssumption, FS_CardinalityType
<1>6. ring.size <= Cardinality(QueuedJobs) + Cardinality(others)
  <2>1. /\ IsFiniteSet(QueuedJobs \cup others)
        /\ Cardinality(QueuedJobs \cup others)
             <= Cardinality(QueuedJobs) + Cardinality(others)
    <3>1. /\ IsFiniteSet(QueuedJobs \cap others)
          /\ Cardinality(QueuedJobs \cap others) \in Nat
      BY <1>4, FS_Intersection, FS_CardinalityType
    <3>2. /\ IsFiniteSet(QueuedJobs \cup others)
          /\ Cardinality(QueuedJobs \cup others)
               = Cardinality(QueuedJobs) + Cardinality(others)
                   - Cardinality(QueuedJobs \cap others)
      BY <1>4, <1>5, FS_Union
    <3>3. QED
      BY <1>4, <1>5, <3>1, <3>2
  <2>2. /\ Cardinality(held) <= Cardinality(QueuedJobs \cup others)
        /\ Cardinality(QueuedJobs \cup others) \in Nat
    BY <1>3, <2>1, FS_Subset, FS_CardinalityType
  <2>3. ring.size \in Nat
    BY <1>1, RingFields
  <2>4. QED
    BY <1>2, <1>4, <1>5, <2>1, <2>2, <2>3
<1>7. i < most
  BY CallerFacts, ForConstants DEF IInv, CallSound
<1>8. ring.size \in Nat /\ i \in Nat /\ most \in Nat /\ QueueCapacity \in Nat
  BY <1>1, RingFields, CallerFacts, ForConstants, CapacityIs
<1> HIDE DEF most, others
<1>9. QED
  BY <1>4, <1>5, <1>6, <1>7, <1>8 DEF FullRing

LEMMA AssertionsFollow == IInv => AssertionsHold
<1> SUFFICES ASSUME IInv PROVE AssertionsHold
  OBVIOUS
<1>1. ASSUME pc = "finishing" PROVE count > 0
  BY <1>1, CallerFacts DEF IInv, CountSound, CallSound, Left
<1>2. ASSUME NEW w \in Worker, job[w] \in ran PROVE count > 0
  <2>1. job[w] \in JobsAtWork
    BY <1>2 DEF IInv, JobsSound
  <2>2. Cardinality(JobsAtWork) > 0
    BY <2>1, JobsCounted, CallerFacts, FS_EmptySet
  <2>3. pc # "out"
    BY <2>1, NoJobsOutside
  <2>4. Left >= 0 /\ Left \in Int
    BY <2>3, CallerFacts DEF Left, IInv, CallSound
  <2>5. QED
    BY <2>2, <2>4, CallerFacts DEF IInv, CountSound
<1>3. QED
  BY <1>1, <1>2, RoomForJob DEF AssertionsHold

\* The assertions hold wherever they are evaluated: push_fixed_queue never meets
\* a full queue, and job_counter_finish_one never a count of zero.
THEOREM AssertionsNeverFail == Spec => []AssertionsHold
BY AssertionsFollow, ParallelForInvariant, PTL
=============================================================================
