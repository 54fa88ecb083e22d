---------------------------- MODULE ParallelFor -----------------------------
(***************************************************************************)
(* parallel_for of src/src/parallel/parallel_for.c on top of the thread    *)
(* pool and the job counter.  One thread, the caller, cuts the range into  *)
(* jobs that live on its stack together with the counter, enqueues them,   *)
(* and waits; the workers run them.  Somebody may stop the pool meanwhile: *)
(* the jobs refused from then on are run by the caller itself.             *)
(***************************************************************************)
EXTENDS ThreadPool, JobCounter

CONSTANTS
  Calls,            \* the calls to be made: [start, end, grain]
  MAX_PARALLELISM,  \* 64 in the code
  MayStop           \* whether the pool may be stopped while it is used

JobId == 0 .. MAX_PARALLELISM - 1

Lower(a, b) == IF a < b THEN a ELSE b

\* The ring has room for the jobs of one call and for every other task once:
\* setup makes it 1024 long, for 64 jobs and two services.  No task is zero.
ASSUME ParallelForAssumption ==
  /\ MAX_PARALLELISM \in Nat \ {0}
  /\ MayStop \in BOOLEAN
  /\ JobId \subseteq Task /\ Zero \notin Task
  /\ IsFiniteSet(Task \ JobId)
  /\ Lower(Cardinality(Worker), MAX_PARALLELISM) + Cardinality(Task \ JobId)
       <= QueueCapacity
  /\ Calls \subseteq [start : Nat, end : Nat, grain : Nat \ {0}]

VARIABLES
  pc,         \* where the caller is
  call,       \* the arguments of its call
  job_count,  \* the number of jobs the range is cut into
  i,          \* the loop variable
  current,    \* the first index not yet given to a job
  jobs,       \* the ranges of the jobs, on the caller's stack
  ran,        \* jobs whose function has returned, the counter not yet told
  processed,  \* how often func has been given an index
  stopper     \* the thread that stops the pool: "away", "signalling", "gone"

callerVars == <<pc, call, job_count, i, current, jobs>>
forVars    == <<callerVars, ran, processed, stopper>>
vars       == <<poolVars, counterVars, forVars>>

PC == {"out", "dividing", "signalling", "inline", "finishing"}

Index == UNION {c.start .. c.end - 1 : c \in Calls}

\* Mutant: as many jobs as there are grains.
JobCountUnbounded(c) == (c.end - c.start + c.grain - 1) \div c.grain

\* The number of chunks: one per grain, and no more than there are threads.
JobCount(c) ==
  Lower((c.end - c.start + c.grain - 1) \div c.grain,
        Lower(Cardinality(Worker), MAX_PARALLELISM))

\* An equal share of the items left, rounded up.
ChunkSize(items, left) == (items + left - 1) \div left

\* Mutant: the end of a job is taken for the last index it contains.
JobRangeInclusive(first, size) == [start |-> first, end |-> first + size + 1]

JobRange(first, size) == [start |-> first, end |-> first + size]

Init ==
  /\ PoolInit /\ CounterInit
  /\ pc = "out"
  /\ call = [start |-> 0, end |-> 0, grain |-> 1]
  /\ job_count = 0 /\ i = 0 /\ current = 0
  /\ jobs = [k \in JobId |-> [start |-> 0, end |-> 0]]
  /\ ran = {}
  /\ processed = [x \in Index |-> 0]
  /\ stopper = "away"

\* func(data, first, last): every index of the range is handed over once more.
Process(first, last) ==
  processed' = [x \in Index |->
                  processed[x] + IF x \in first .. last - 1 THEN 1 ELSE 0]

-----------------------------------------------------------------------------
\* A call with nothing to do returns, one with a single job is run on the spot.
CallHere(c) ==
  /\ pc = "out"
  /\ c.end <= c.start \/ JobCount(c) <= 1
  /\ call' = c
  /\ processed' = [x \in Index |-> IF x \in c.start .. c.end - 1 THEN 1 ELSE 0]
  /\ UNCHANGED <<poolVars, counterVars, pc, job_count, i, current, jobs, ran,
                 stopper>>

\* A call that is worth cutting up: the counter starts at the number of jobs.
CallParallel(c) ==
  /\ pc = "out"
  /\ c.end > c.start /\ JobCount(c) > 1
  /\ call' = c
  /\ Begin(JobCount(c))
  /\ job_count' = JobCount(c) /\ i' = 0 /\ current' = c.start
  /\ pc' = "dividing"
  /\ processed' = [x \in Index |-> 0]
  /\ UNCHANGED <<poolVars, jobs, ran, stopper>>

\* The body of the loop up to the enqueue.  When the queue is full the
\* assertion of push_fixed_queue ends the program: see AssertionsHold.
CutJob ==
  LET size == ChunkSize(call.end - current, job_count - i)
  IN  /\ pc = "dividing" /\ i < job_count
      /\ jobs' = [jobs EXCEPT ![i] = JobRange(current, size)]
      /\ current' = current + size
      /\ UNCHANGED <<counterVars, call, job_count, i, ran, processed, stopper>>

EnqueueJob == CutJob /\ Enqueue(i) /\ pc' = "signalling"

JobRefused == CutJob /\ EnqueueRefused /\ pc' = "inline"

SignalJob ==
  /\ pc = "signalling"
  /\ SignalOne
  /\ pc' = "dividing" /\ i' = i + 1
  /\ UNCHANGED <<counterVars, call, job_count, current, jobs, ran, processed,
                 stopper>>

\* A refused job: parallel_for_job_counted_func called by the caller itself.
RunRefused ==
  /\ pc = "inline"
  /\ Process(jobs[i].start, jobs[i].end)
  /\ pc' = "finishing"
  /\ UNCHANGED <<poolVars, counterVars, call, job_count, i, current, jobs, ran,
                 stopper>>

FinishRefused ==
  /\ pc = "finishing"
  /\ FinishOne
  /\ pc' = "dividing" /\ i' = i + 1
  /\ UNCHANGED <<poolVars, call, job_count, current, jobs, ran, processed,
                 stopper>>

\* job_counter_wait after the loop, and the return.
WaitForJobs ==
  /\ pc = "dividing" /\ i = job_count
  /\ WaitSleeps
  /\ UNCHANGED <<poolVars, forVars>>

CallReturn ==
  /\ pc = "dividing" /\ i = job_count
  /\ WaitEnds
  /\ pc' = "out"
  /\ UNCHANGED <<poolVars, call, job_count, i, current, jobs, ran, processed,
                 stopper>>

WakeForNothing == WaitWakes /\ UNCHANGED <<poolVars, forVars>>

-----------------------------------------------------------------------------
WorkerTakes(w) == Take(w) /\ UNCHANGED <<counterVars, forVars>>

WorkerWaits(w) ==
  /\ Sleep(w) \/ Exit(w)
  /\ UNCHANGED <<counterVars, forVars>>

WorkerWakes(w) == WakeSpuriously(w) /\ UNCHANGED <<counterVars, forVars>>

\* parallel_for_job_counted_func on a worker: first the function ...
WorkerRuns(w) ==
  /\ worker[w] = "running" /\ job[w] \in JobId \ ran
  /\ Process(jobs[job[w]].start, jobs[job[w]].end)
  /\ ran' = ran \cup {job[w]}
  /\ UNCHANGED <<poolVars, counterVars, callerVars, stopper>>

\* ... then the counter.  job[w] and the counter are not used any more.
WorkerFinishes(w) ==
  /\ job[w] \in ran
  /\ FinishOne
  /\ ran' = ran \ {job[w]}
  /\ Return(w)
  /\ UNCHANGED <<callerVars, processed, stopper>>

-----------------------------------------------------------------------------
\* Another thread is in stop_thread_pool.
StopPool ==
  /\ MayStop /\ stopper = "away"
  /\ SetStop
  /\ stopper' = "signalling"
  /\ UNCHANGED <<counterVars, callerVars, ran, processed>>

StopSignals ==
  /\ stopper = "signalling"
  /\ SignalAll
  /\ stopper' = "gone"
  /\ UNCHANGED <<counterVars, callerVars, ran, processed>>

-----------------------------------------------------------------------------
CallerStep ==
  \/ \E c \in Calls : CallHere(c) \/ CallParallel(c)
  \/ EnqueueJob \/ JobRefused \/ SignalJob
  \/ RunRefused \/ FinishRefused
  \/ WaitForJobs \/ CallReturn \/ WakeForNothing

WorkerStep ==
  \E w \in Worker :
    \/ WorkerTakes(w) \/ WorkerWaits(w) \/ WorkerWakes(w)
    \/ WorkerRuns(w) \/ WorkerFinishes(w)

Next == CallerStep \/ WorkerStep \/ StopPool \/ StopSignals

Spec == Init /\ [][Next]_vars

\* Threads are scheduled and get a mutex in the end, and the function applied
\* to a range returns.  Nobody has to call or to stop, and nobody is owed a
\* spurious wakeup.
Fairness ==
  /\ WF_vars(EnqueueJob \/ JobRefused \/ SignalJob)
  /\ WF_vars(RunRefused \/ FinishRefused)
  /\ WF_vars(WaitForJobs \/ CallReturn)
  /\ \A w \in Worker : /\ WF_vars(WorkerTakes(w))
                       /\ WF_vars(WorkerWaits(w))
                       /\ WF_vars(WorkerRuns(w) \/ WorkerFinishes(w))
  /\ WF_vars(StopSignals)

FairSpec == Spec /\ Fairness

-----------------------------------------------------------------------------
\* Every variable holds a value of its type.
TypeOK ==
  /\ PoolTypeOK /\ CounterTypeOK
  /\ pc \in PC
  /\ call \in [start : Nat, end : Nat, grain : Nat]
  /\ job_count \in 0 .. MAX_PARALLELISM /\ i \in 0 .. job_count
  /\ current \in Nat
  /\ jobs \in [JobId -> [start : Nat, end : Nat]]
  /\ ran \subseteq JobId
  /\ processed \in [Index -> Nat]
  /\ stopper \in {"away", "signalling", "gone"}

InCall == pc \in {"dividing", "signalling", "inline", "finishing"}

\* The jobs in the queue, in order, and those on a worker.
QueuedJobs == {k \in JobId : \E n \in 1 .. ring.size : Elements(ring)[n] = k}
JobsAtWork == {k \in JobId : \E w \in Worker : job[w] = k}

\* No index is handed to func twice, by whatever thread, and when the call
\* returns every index of its range has been handed over, and no other.
EachIndexOnce ==
  /\ \A x \in Index : processed[x] <= 1
  /\ pc = "out" =>
       \A x \in Index :
         processed[x] = IF x \in call.start .. call.end - 1 THEN 1 ELSE 0

\* The counter is the number of jobs not yet counted off: enqueued, at work,
\* with the caller or still to be cut.  It never runs ahead, so the assertion
\* of job_counter_finish_one holds, nor behind, so the caller is woken.
CounterIsOutstanding ==
  InCall =>
    count = Cardinality(QueuedJobs) + Cardinality(JobsAtWork)
              + (job_count - i) - (IF pc = "signalling" THEN 1 ELSE 0)

\* After the return no thread holds a pointer to the caller's stack, where the
\* jobs and the counter were.
NoDanglingJob == pc = "out" => QueuedJobs = {} /\ JobsAtWork = {}

\* The two assertions on the way hold wherever they are evaluated: the queue
\* is not full at a push, and the counter is above zero at a count-off.
AssertionsHold ==
  /\ pc = "dividing" /\ i < job_count /\ ~stop => ~FullRing(ring)
  /\ pc = "finishing" \/ (\E w \in Worker : job[w] \in ran) => count > 0

\* Every call returns, even when the pool is stopped half-way.
CallReturns == InCall ~> pc = "out"
=============================================================================
