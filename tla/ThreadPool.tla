----------------------------- MODULE ThreadPool -----------------------------
(***************************************************************************)
(* The state of src/src/parallel/thread_pool.c and the steps its functions *)
(* are made of.  PoolLifecycle and ParallelFor compose the steps with the  *)
(* threads that call the pool.                                             *)
(*                                                                         *)
(* Every access to the queue and to stop is made under the pool's mutex,   *)
(* so a critical section is one step: SleepConditionVariableCS releases    *)
(* the mutex and falls asleep atomically, and a woken worker locks again   *)
(* and repeats the test.  The signals are sent after the mutex has been    *)
(* released, and are steps of their own.                                   *)
(***************************************************************************)
EXTENDS FixedQueue, FiniteSets

CONSTANTS
  Worker,         \* the threads of the pool
  Task,           \* what is enqueued: a function with its data
  MaxWaitObjects  \* MAXIMUM_WAIT_OBJECTS of WaitForMultipleObjects

\* setup asserts that there is a processor, so there is a worker.
ASSUME WorkerAssumption == IsFiniteSet(Worker) /\ Worker # {}

VARIABLES
  ring,    \* p->queue
  stop,    \* p->stop
  worker,  \* where each worker is in its loop
  job      \* the task a worker has taken

poolVars == <<ring, stop, worker, job>>

WorkerState == {"locking", "asleep", "running", "exited"}

Asleep  == {w \in Worker : worker[w] = "asleep"}
Locking == {w \in Worker : worker[w] = "locking"}

PoolTypeOK ==
  /\ ring \in RingOf(Task)
  /\ stop \in BOOLEAN
  /\ worker \in [Worker -> WorkerState]
  /\ job \in [Worker -> Task \cup {Zero}]

\* init_thread_pool, with all its threads created.
PoolInit ==
  /\ ring = InitRing
  /\ stop = FALSE
  /\ worker = [w \in Worker |-> "locking"]
  /\ job = [w \in Worker |-> Zero]

-----------------------------------------------------------------------------
\* Mutant: a worker falls asleep without looking at stop.
SleepDeaf(w) ==
  /\ worker[w] = "locking"
  /\ EmptyRing(ring)
  /\ worker' = [worker EXCEPT ![w] = "asleep"]
  /\ UNCHANGED <<ring, stop, job>>

\* One round of worker_thread under the mutex: sleep, leave or take a task.
Sleep(w) ==
  /\ worker[w] = "locking"
  /\ ~stop /\ EmptyRing(ring)
  /\ worker' = [worker EXCEPT ![w] = "asleep"]
  /\ UNCHANGED <<ring, stop, job>>

\* Mutant: a stopped pool is left without looking at its queue.
ExitAtOnce(w) ==
  /\ worker[w] = "locking"
  /\ stop
  /\ worker' = [worker EXCEPT ![w] = "exited"]
  /\ UNCHANGED <<ring, stop, job>>

Exit(w) ==
  /\ worker[w] = "locking"
  /\ stop /\ EmptyRing(ring)
  /\ worker' = [worker EXCEPT ![w] = "exited"]
  /\ UNCHANGED <<ring, stop, job>>

\* Mutant: the task is read and not taken out of the queue.
TakeCopy(w) ==
  /\ worker[w] = "locking"
  /\ ~EmptyRing(ring)
  /\ job' = [job EXCEPT ![w] = Front(ring)]
  /\ worker' = [worker EXCEPT ![w] = "running"]
  /\ UNCHANGED <<ring, stop>>

Take(w) ==
  /\ worker[w] = "locking"
  /\ ~EmptyRing(ring)
  /\ job' = [job EXCEPT ![w] = Front(ring)]
  /\ ring' = Pop(ring)
  /\ worker' = [worker EXCEPT ![w] = "running"]
  /\ UNCHANGED stop

\* task.func(task.data) has returned.
Return(w) ==
  /\ worker[w] = "running"
  /\ worker' = [worker EXCEPT ![w] = "locking"]
  /\ job' = [job EXCEPT ![w] = Zero]
  /\ UNCHANGED <<ring, stop>>

\* A condition variable may wake a sleeper for no reason.
WakeSpuriously(w) ==
  /\ worker[w] = "asleep"
  /\ worker' = [worker EXCEPT ![w] = "locking"]
  /\ UNCHANGED <<ring, stop, job>>

-----------------------------------------------------------------------------
\* enqueue_thread_pool under the mutex, when the pool still runs.  On a full
\* queue the assertion of push_fixed_queue ends the program, so whoever calls
\* has to know that there is room ...
Enqueue(t) ==
  /\ ~stop
  /\ ~FullRing(ring)
  /\ ring' = Push(ring, t)
  /\ UNCHANGED <<stop, worker, job>>

\* ... and when it has been stopped: the call returns false.
EnqueueRefused ==
  /\ stop
  /\ UNCHANGED poolVars

\* Mutant: the signal is lost although somebody sleeps.
SignalNone == UNCHANGED poolVars

\* cv_signal_one wakes one sleeper, if there is one.
SignalOne ==
  /\ IF Asleep = {}
       THEN UNCHANGED worker
       ELSE \E w \in Asleep : worker' = [worker EXCEPT ![w] = "locking"]
  /\ UNCHANGED <<ring, stop, job>>

\* cv_signal_all wakes every sleeper.
SignalAll ==
  /\ worker' = [w \in Worker |->
                  IF worker[w] = "asleep" THEN "locking" ELSE worker[w]]
  /\ UNCHANGED <<ring, stop, job>>

\* stop_thread_pool under the mutex.
SetStop ==
  /\ stop' = TRUE
  /\ UNCHANGED <<ring, worker, job>>

\* WaitForMultipleObjects, whose result stop_thread_pool ignores: it waits for
\* every thread, or fails at once when it is given too many of them.
WaitReturns ==
  \/ Cardinality(Worker) > MaxWaitObjects
  \/ \A w \in Worker : worker[w] = "exited"
=============================================================================
