--------------------------- MODULE PoolLifecycle ----------------------------
(***************************************************************************)
(* A thread pool in the hands of several callers and one owner: callers    *)
(* enqueue tasks at any time, the owner stops the pool whenever it likes,  *)
(* while calls are in progress too, and destroys it once no caller is left *)
(* inside (the pool is the caller's to keep until then).                   *)
(*                                                                         *)
(* Tasks return, as those of parallel_for do; App has the ones that don't. *)
(***************************************************************************)
EXTENDS ThreadPool

CONSTANT
  Caller  \* the threads that call enqueue_thread_pool

\* A pool that WaitForMultipleObjects can wait for: nothing in the code sees to it.
ASSUME PoolAssumption ==
  /\ IsFiniteSet(Caller)
  /\ MaxWaitObjects \in Nat /\ Cardinality(Worker) <= MaxWaitObjects

VARIABLES
  caller,    \* "out", or "signalling" between unlock and cv_signal_one
  owner,     \* how far the owner is in stop_thread_pool, destroy_thread_pool
  freed,     \* the queue, the mutex and the condition variable are gone
  accepted,  \* tasks an enqueue returned, or will return, true for
  refused,   \* tasks an enqueue returned false for
  done,      \* tasks that have run to their end
  started    \* the task taken last

clientVars == <<caller, owner, freed, accepted, refused, done, started>>
vars == <<poolVars, clientVars>>

OwnerState == {"away", "signalling", "waiting", "stopped", "destroyed"}

Init ==
  /\ PoolInit
  /\ caller = [c \in Caller |-> "out"]
  /\ owner = "away"
  /\ freed = FALSE
  /\ accepted = {} /\ refused = {} /\ done = {}
  /\ started = Zero

-----------------------------------------------------------------------------
\* A caller enqueues a task nobody has enqueued before.
CallerEnqueues(c, t) ==
  /\ caller[c] = "out" /\ ~freed
  /\ t \notin accepted \cup refused
  /\ Enqueue(t)
  /\ caller' = [caller EXCEPT ![c] = "signalling"]
  /\ accepted' = accepted \cup {t}
  /\ UNCHANGED <<owner, freed, refused, done, started>>

CallerRefused(c, t) ==
  /\ caller[c] = "out" /\ ~freed
  /\ t \notin accepted \cup refused
  /\ EnqueueRefused
  /\ refused' = refused \cup {t}
  /\ UNCHANGED <<caller, owner, freed, accepted, done, started>>

CallerSignals(c) ==
  /\ caller[c] = "signalling"
  /\ SignalOne
  /\ caller' = [caller EXCEPT ![c] = "out"]
  /\ UNCHANGED <<owner, freed, accepted, refused, done, started>>

-----------------------------------------------------------------------------
WorkerTakes(w) ==
  /\ Take(w)
  /\ started' = Front(ring)
  /\ UNCHANGED <<caller, owner, freed, accepted, refused, done>>

WorkerFinishes(w) ==
  /\ Return(w)
  /\ done' = done \cup {job[w]}
  /\ UNCHANGED <<caller, owner, freed, accepted, refused, started>>

WorkerWaits(w) ==
  /\ Sleep(w) \/ Exit(w) \/ WakeSpuriously(w)
  /\ UNCHANGED clientVars

-----------------------------------------------------------------------------
\* stop_thread_pool.
OwnerStops ==
  /\ owner = "away"
  /\ SetStop
  /\ owner' = "signalling"
  /\ UNCHANGED <<caller, freed, accepted, refused, done, started>>

OwnerSignals ==
  /\ owner = "signalling"
  /\ SignalAll
  /\ owner' = "waiting"
  /\ UNCHANGED <<caller, freed, accepted, refused, done, started>>

\* Mutant: stop_thread_pool does not wait for its threads.
OwnerJoinsNobody ==
  /\ owner = "waiting"
  /\ owner' = "stopped"
  /\ UNCHANGED <<poolVars, caller, freed, accepted, refused, done, started>>

OwnerJoins ==
  /\ owner = "waiting"
  /\ WaitReturns
  /\ owner' = "stopped"
  /\ UNCHANGED <<poolVars, caller, freed, accepted, refused, done, started>>

\* destroy_thread_pool after stop_thread_pool.
OwnerDestroys ==
  /\ owner = "stopped"
  /\ \A c \in Caller : caller[c] = "out"
  /\ owner' = "destroyed"
  /\ freed' = TRUE
  /\ UNCHANGED <<poolVars, caller, accepted, refused, done, started>>

\* The pool is gone: the only state nothing follows.
Terminated == freed /\ UNCHANGED vars

-----------------------------------------------------------------------------
Next ==
  \/ \E c \in Caller :
       \/ \E t \in Task : CallerEnqueues(c, t) \/ CallerRefused(c, t)
       \/ CallerSignals(c)
  \/ \E w \in Worker : WorkerTakes(w) \/ WorkerFinishes(w) \/ WorkerWaits(w)
  \/ OwnerStops \/ OwnerSignals \/ OwnerJoins \/ OwnerDestroys
  \/ Terminated

Spec == Init /\ [][Next]_vars

\* Threads are scheduled and get the mutex in the end, tasks return, a call
\* once begun goes on.  Nobody has to enqueue, stop or destroy, and nobody is
\* woken spuriously by right.
Fairness ==
  /\ \A w \in Worker : /\ WF_vars(WorkerTakes(w))
                       /\ WF_vars(WorkerFinishes(w))
                       /\ WF_vars((Sleep(w) \/ Exit(w)) /\ UNCHANGED clientVars)
  /\ \A c \in Caller : WF_vars(CallerSignals(c))
  /\ WF_vars(OwnerSignals) /\ WF_vars(OwnerJoins)

FairSpec == Spec /\ Fairness

-----------------------------------------------------------------------------
\* Every variable holds a value of its type.
TypeOK ==
  /\ PoolTypeOK
  /\ caller \in [Caller -> {"out", "signalling"}]
  /\ owner \in OwnerState
  /\ freed \in BOOLEAN
  /\ accepted \subseteq Task /\ refused \subseteq Task /\ done \subseteq Task
  /\ started \in Task \cup {Zero}

Queued     == Elements(ring)
Running    == {w \in Worker : worker[w] = "running"}
Waiting    == {Queued[i] : i \in DOMAIN Queued}
InHand     == {job[w] : w \in Running}
Signalling == {c \in Caller : caller[c] = "signalling"}

\* An accepted task is in exactly one place: once in the queue, with one
\* worker, or done.  It is not lost, copied or run twice, whatever the order
\* in which callers, workers and the owner get the mutex.
EachTaskInOnePlace ==
  /\ \A i, k \in DOMAIN Queued : Queued[i] = Queued[k] => i = k
  /\ \A v, w \in Running : job[v] = job[w] => v = w
  /\ accepted = Waiting \cup InHand \cup done
  /\ Waiting \cap InHand = {} /\ (Waiting \cup InHand) \cap done = {}
  /\ accepted \cap refused = {}

\* While some worker sleeps, every task in the queue has a worker on its way
\* to it or a signal still to be sent: no wakeup is lost between the unlock of
\* enqueue_thread_pool and its signal, and no task waits behind an idle pool.
WakeupsCoverQueue ==
  Asleep # {} =>
    ring.size <= Cardinality(Locking) + Cardinality(Signalling)

\* Once stop_thread_pool has signalled, no worker sleeps, or ever will again,
\* so the wait for the threads can end.
NobodySleepsThroughStop ==
  owner \in {"waiting", "stopped", "destroyed"} => Asleep = {}

\* When the queue, the mutex and the condition variable are freed, every
\* worker has left its loop and the queue is empty: needs a pool small enough
\* for WaitForMultipleObjects to wait for.
NoUseAfterFree ==
  freed => /\ \A w \in Worker : worker[w] = "exited"
           /\ EmptyRing(ring)
           /\ done = accepted

\* How the two functions of the owner follow each other, and what is left of the
\* pool after each of their steps.
StopOrder ==
  /\ stop <=> owner # "away"
  /\ freed <=> owner = "destroyed"
  /\ owner \in {"stopped", "destroyed"} => \A w \in Worker : worker[w] = "exited"
  /\ \A w \in Worker : worker[w] = "exited" => stop /\ EmptyRing(ring)

\* The inductive invariant.
IInv ==
  /\ TypeOK /\ RingSound(ring)
  /\ Queued \in Seq(Task) /\ \A w \in Running : job[w] \in Task
  /\ EachTaskInOnePlace /\ WakeupsCoverQueue
  /\ StopOrder /\ NobodySleepsThroughStop

\* The pool hands tasks out in the order their enqueues got the mutex: the
\* circular buffer under its mutex is a bounded queue.
TaskQueue == INSTANCE BoundedQueue
               WITH Item <- Task, Nothing <- Zero, Capacity <- QueueCapacity,
                    queue <- Queued, delivered <- started

TasksInOrder == TaskQueue!Spec

\* A task whose enqueue returned true is run to its end, even if the pool is
\* stopped in the meantime: the workers drain the queue before they leave.
AcceptedIsDone == \A t \in Task : t \in accepted ~> t \in done

\* stop_thread_pool returns.
StopReturns == owner = "signalling" ~> owner = "stopped"
=============================================================================
