----------------------------- MODULE PoolProofs -------------------------------
(***************************************************************************)
(* Proofs about the thread pool of PoolLifecycle, for any number of        *)
(* workers, callers and tasks and any capacity of the queue, as long as    *)
(* WaitForMultipleObjects can wait for the workers.                        *)
(*                                                                         *)
(* The invariant comes first, step by step, then what follows from it: the *)
(* pool is a bounded queue of tasks.  PoolLemmas has what is true of the   *)
(* circular buffer and its elements.                                       *)
(***************************************************************************)
EXTENDS PoolLifecycle, PoolLemmas

-----------------------------------------------------------------------------
\* The tasks.

\* EachTaskInOnePlace, with the two operators above.
LEMMA OnePlace ==
  EachTaskInOnePlace <=>
    /\ Distinct(Queued)
    /\ \A v, w \in Running : job[v] = job[w] => v = w
    /\ accepted = Held(Queued) \cup InHand \cup done
    /\ Held(Queued) \cap InHand = {} /\ (Held(Queued) \cup InHand) \cap done = {}
    /\ accepted \cap refused = {}
BY DEF EachTaskInOnePlace, Distinct, Held, Waiting

\* A step that moves no task.
Quiet ==
  /\ UNCHANGED <<ring, job, accepted, refused, done, started>>
  /\ Running' = Running

\* What a step can do to a task.
LEMMA StepKinds ==
  ASSUME TypeOK, [Next]_vars
  PROVE  \/ \E c \in Caller, t \in Task : CallerEnqueues(c, t)
         \/ \E c \in Caller, t \in Task : CallerRefused(c, t)
         \/ \E w \in Worker : WorkerTakes(w)
         \/ \E w \in Worker : WorkerFinishes(w)
         \/ Quiet
<1>1. CASE \E c \in Caller : CallerSignals(c)
  <2>1. Running' = Running
    BY <1>1 DEF CallerSignals, SignalOne, Asleep, Running, TypeOK, PoolTypeOK
  <2>2. QED
    BY <1>1, <2>1 DEF CallerSignals, SignalOne, Quiet
<1>2. CASE \E w \in Worker : WorkerWaits(w)
  <2>1. Running' = Running
    BY <1>2 DEF WorkerWaits, Sleep, Exit, WakeSpuriously, Running, TypeOK, PoolTypeOK
  <2>2. QED
    BY <1>2, <2>1 DEF WorkerWaits, Sleep, Exit, WakeSpuriously, clientVars, Quiet
<1>3. CASE OwnerStops
  BY <1>3 DEF OwnerStops, SetStop, Running, Quiet
<1>4. CASE OwnerSignals
  <2>1. Running' = Running
    BY <1>4 DEF OwnerSignals, SignalAll, Running, TypeOK, PoolTypeOK
  <2>2. QED
    BY <1>4, <2>1 DEF OwnerSignals, SignalAll, Quiet
<1>5. CASE OwnerJoins
  BY <1>5 DEF OwnerJoins, poolVars, Running, Quiet
<1>6. CASE OwnerDestroys
  BY <1>6 DEF OwnerDestroys, poolVars, Running, Quiet
<1>7. CASE Terminated \/ UNCHANGED vars
  BY <1>7 DEF Terminated, vars, poolVars, clientVars, Running, Quiet
<1>8. QED
  BY <1>1, <1>2, <1>3, <1>4, <1>5, <1>6, <1>7 DEF Next

\* The tasks of a sound pool, as the lemmas want them.
TasksOK ==
  /\ TypeOK /\ RingSound(ring)
  /\ Queued \in Seq(Task) /\ \A w \in Running : job[w] \in Task
  /\ EachTaskInOnePlace

LEMMA TypeStep ==
  ASSUME TasksOK, [Next]_vars
  PROVE  TypeOK'
<1> USE DEF TasksOK, TypeOK, PoolTypeOK, OwnerState, WorkerState
<1>1. ASSUME NEW c \in Caller, NEW t \in Task, CallerEnqueues(c, t)
      PROVE  TypeOK'
  <2>1. ring' \in RingOf(Task)
    BY <1>1, PushAppends DEF CallerEnqueues, Enqueue, Queued
  <2>2. QED
    BY <1>1, <2>1 DEF CallerEnqueues, Enqueue
<1>2. ASSUME NEW c \in Caller, NEW t \in Task, CallerRefused(c, t)
      PROVE  TypeOK'
  BY <1>2 DEF CallerRefused, EnqueueRefused, poolVars
<1>3. ASSUME NEW c \in Caller, CallerSignals(c)
      PROVE  TypeOK'
  BY <1>3 DEF CallerSignals, SignalOne, Asleep
<1>4. ASSUME NEW w \in Worker, WorkerTakes(w)
      PROVE  TypeOK'
  <2>1. ring' \in RingOf(Task) /\ Front(ring) \in Task
    BY <1>4, PopTakesFirst, HeadTailProperties DEF WorkerTakes, Take, Queued
  <2>2. QED
    BY <1>4, <2>1 DEF WorkerTakes, Take
<1>5. ASSUME NEW w \in Worker, WorkerFinishes(w)
      PROVE  TypeOK'
  BY <1>5 DEF WorkerFinishes, Return, Running
<1>6. ASSUME NEW w \in Worker, WorkerWaits(w)
      PROVE  TypeOK'
  BY <1>6 DEF WorkerWaits, Sleep, Exit, WakeSpuriously, clientVars
<1>7. CASE OwnerStops
  BY <1>7 DEF OwnerStops, SetStop
<1>8. CASE OwnerSignals
  BY <1>8 DEF OwnerSignals, SignalAll
<1>9. CASE OwnerJoins
  BY <1>9 DEF OwnerJoins, poolVars
<1>10. CASE OwnerDestroys
  BY <1>10 DEF OwnerDestroys, poolVars
<1>11. CASE Terminated \/ UNCHANGED vars
  BY <1>11 DEF Terminated, vars, poolVars, clientVars
<1>12. QED
  BY <1>1, <1>2, <1>3, <1>4, <1>5, <1>6, <1>7, <1>8, <1>9, <1>10, <1>11 DEF Next

\* An enqueue puts a task where it was not.
LEMMA EnqueueStep ==
  ASSUME TasksOK, NEW c \in Caller, NEW t \in Task, CallerEnqueues(c, t)
  PROVE  /\ RingSound(ring)' /\ Queued' = Append(Queued, t)
         /\ Queued' \in Seq(Task) /\ \A w \in Running' : job'[w] \in Task
         /\ EachTaskInOnePlace'
<1>1. /\ ~FullRing(ring) /\ ring' = Push(ring, t)
      /\ UNCHANGED <<worker, job, refused, done>>
      /\ accepted' = accepted \cup {t} /\ t \notin accepted /\ t \notin refused
  BY DEF CallerEnqueues, Enqueue
<1>2. /\ RingSound(ring') /\ Elements(ring') = Append(Elements(ring), t)
  BY <1>1, PushAppends DEF TasksOK, TypeOK, PoolTypeOK, Queued
<1>3. RingSound(ring)' /\ Queued' = Append(Queued, t)
  BY <1>2 DEF Queued, RingSound
<1>4. Queued' \in Seq(Task)
  BY <1>3, AppendProperties DEF TasksOK
<1>5. Running' = Running /\ InHand' = InHand
  BY <1>1 DEF Running, InHand
<1>6. EachTaskInOnePlace'
  <2>1. t \notin Held(Queued) /\ t \notin InHand /\ t \notin done
    BY <1>1, OnePlace DEF TasksOK
  <2>2. Held(Queued)' = Held(Queued) \cup {t} /\ Distinct(Queued)'
    BY <1>3, <2>1, AppendHolds, OnePlace DEF TasksOK, Held, Distinct
  <2>3. /\ (\A v, w \in Running : job[v] = job[w] => v = w)'
        /\ (accepted = Held(Queued) \cup InHand \cup done)'
        /\ (Held(Queued) \cap InHand = {})'
        /\ ((Held(Queued) \cup InHand) \cap done = {})'
        /\ (accepted \cap refused = {})'
    BY <1>1, <1>5, <2>1, <2>2, OnePlace DEF TasksOK
  <2>4. QED
    BY <2>2, <2>3 DEF EachTaskInOnePlace, Distinct, Held, Waiting
<1>7. QED
  BY <1>1, <1>3, <1>4, <1>5, <1>6 DEF TasksOK

\* A worker that takes a task takes it from the queue.
LEMMA TakeStep ==
  ASSUME TasksOK, NEW w \in Worker, WorkerTakes(w)
  PROVE  /\ RingSound(ring)' /\ Queued # <<>>
         /\ Queued' = Tail(Queued) /\ started' = Head(Queued)
         /\ Queued' \in Seq(Task) /\ \A v \in Running' : job'[v] \in Task
         /\ EachTaskInOnePlace'
<1>1. /\ worker[w] = "locking" /\ ~EmptyRing(ring) /\ ring' = Pop(ring)
      /\ job' = [job EXCEPT ![w] = Front(ring)]
      /\ worker' = [worker EXCEPT ![w] = "running"]
      /\ started' = Front(ring) /\ UNCHANGED <<accepted, refused, done>>
  BY DEF WorkerTakes, Take
<1>2. /\ RingSound(ring') /\ Elements(ring') = Tail(Elements(ring))
      /\ Elements(ring) # <<>> /\ Front(ring) = Head(Elements(ring))
  BY <1>1, PopTakesFirst DEF TasksOK, TypeOK, PoolTypeOK, Queued
<1> DEFINE t == Head(Queued)
<1>3. /\ RingSound(ring)' /\ Queued # <<>> /\ Queued' = Tail(Queued)
      /\ Front(ring) = t
  BY <1>2 DEF Queued, RingSound
<1>4. Queued' \in Seq(Task) /\ t \in Task
  BY <1>3, HeadTailProperties DEF TasksOK
<1>5. /\ t \in Held(Queued)
      /\ Held(Queued)' = Held(Queued) \ {t} /\ Distinct(Queued)'
  <2>1. Queued \in Seq(Task) /\ Queued # <<>> /\ Distinct(Queued)
    BY <1>3, OnePlace DEF TasksOK
  <2>2. /\ t \in Held(Queued)
        /\ Held(Tail(Queued)) = Held(Queued) \ {t} /\ Distinct(Tail(Queued))
    BY <2>1, TailHolds
  <2>3. Held(Queued)' = Held(Tail(Queued)) /\ (Distinct(Queued)' <=> Distinct(Tail(Queued)))
    BY <1>3 DEF Held, Distinct
  <2>4. QED
    BY <2>2, <2>3
<1>6. /\ w \notin Running /\ Running' = Running \cup {w}
      /\ job'[w] = t /\ \A v \in Running : job'[v] = job[v]
  BY <1>1, <1>3 DEF TasksOK, TypeOK, PoolTypeOK, Running
<1>7. InHand' = InHand \cup {t} /\ t \notin InHand
  <2>1. t \notin InHand
    BY <1>5, OnePlace DEF TasksOK
  <2>2. QED
    BY <1>6, <2>1 DEF InHand
<1>8. EachTaskInOnePlace'
  <2>1. (\A u, v \in Running : job[u] = job[v] => u = v)'
    BY <1>6, <1>7, OnePlace DEF TasksOK, InHand
  <2>2. /\ (accepted = Held(Queued) \cup InHand \cup done)'
        /\ (Held(Queued) \cap InHand = {})'
        /\ ((Held(Queued) \cup InHand) \cap done = {})'
        /\ (accepted \cap refused = {})'
    BY <1>1, <1>5, <1>7, OnePlace DEF TasksOK
  <2>3. QED
    BY <1>5, <2>1, <2>2 DEF EachTaskInOnePlace, Distinct, Held, Waiting
<1>9. QED
  BY <1>1, <1>3, <1>4, <1>6, <1>8 DEF TasksOK

\* A task that has run is done, and in nobody's hands.
LEMMA FinishStep ==
  ASSUME TasksOK, NEW w \in Worker, WorkerFinishes(w)
  PROVE  /\ RingSound(ring)' /\ UNCHANGED <<ring, Queued, started>>
         /\ \A v \in Running' : job'[v] \in Task
         /\ EachTaskInOnePlace'
<1>1. /\ worker[w] = "running" /\ worker' = [worker EXCEPT ![w] = "locking"]
      /\ job' = [job EXCEPT ![w] = Zero] /\ done' = done \cup {job[w]}
      /\ UNCHANGED <<ring, started, accepted, refused>>
  BY DEF WorkerFinishes, Return
<1>2. RingSound(ring)' /\ UNCHANGED Queued
  BY <1>1 DEF RingSound, Queued, TasksOK
<1>3. /\ w \in Running /\ Running' = Running \ {w}
      /\ \A v \in Running' : job'[v] = job[v]
  BY <1>1 DEF TasksOK, TypeOK, PoolTypeOK, Running
<1>4. InHand' = InHand \ {job[w]} /\ job[w] \in InHand
  BY <1>3, OnePlace DEF InHand, TasksOK
<1>5. EachTaskInOnePlace'
  <2>1. Held(Queued)' = Held(Queued) /\ Distinct(Queued)'
    BY <1>2, OnePlace DEF Held, Distinct, TasksOK
  <2>2. (\A u, v \in Running : job[u] = job[v] => u = v)'
    BY <1>3, OnePlace DEF TasksOK
  <2>3. /\ (accepted = Held(Queued) \cup InHand \cup done)'
        /\ (Held(Queued) \cap InHand = {})'
        /\ ((Held(Queued) \cup InHand) \cap done = {})'
        /\ (accepted \cap refused = {})'
    BY <1>1, <1>4, <2>1, OnePlace DEF TasksOK
  <2>4. QED
    BY <2>1, <2>2, <2>3 DEF EachTaskInOnePlace, Distinct, Held, Waiting
<1>6. QED
  BY <1>1, <1>2, <1>3, <1>5 DEF TasksOK

\* Nothing else moves a task; one that is refused has not been accepted.
LEMMA RestStep ==
  ASSUME TasksOK,
         Quiet \/ \E c \in Caller, t \in Task : CallerRefused(c, t)
  PROVE  /\ RingSound(ring)' /\ UNCHANGED <<ring, Queued, started>>
         /\ \A v \in Running' : job'[v] \in Task
         /\ EachTaskInOnePlace'
<1>1. /\ UNCHANGED <<ring, job, accepted, done, started>> /\ Running' = Running
      /\ \A t \in refused' : t \in refused \/ t \notin accepted
  BY DEF Quiet, CallerRefused, EnqueueRefused, poolVars, Running
<1>2. RingSound(ring)' /\ UNCHANGED Queued /\ UNCHANGED InHand
  BY <1>1 DEF RingSound, Queued, TasksOK, InHand
<1>3. EachTaskInOnePlace'
  BY <1>1, <1>2 DEF TasksOK, EachTaskInOnePlace, Waiting
<1>4. QED
  BY <1>1, <1>2, <1>3 DEF TasksOK

LEMMA TasksStep ==
  ASSUME TasksOK, [Next]_vars
  PROVE  TasksOK'
<1>1. TypeOK'
  BY TypeStep
<1>2. /\ RingSound(ring)' /\ Queued' \in Seq(Task)
      /\ \A w \in Running' : job'[w] \in Task
      /\ EachTaskInOnePlace'
  <2>1. CASE \E c \in Caller, t \in Task : CallerEnqueues(c, t)
    BY <2>1, EnqueueStep
  <2>2. CASE \E w \in Worker : WorkerTakes(w)
    BY <2>2, TakeStep
  <2>3. CASE \E w \in Worker : WorkerFinishes(w)
    BY <2>3, FinishStep DEF TasksOK
  <2>4. CASE Quiet \/ \E c \in Caller, t \in Task : CallerRefused(c, t)
    BY <2>4, RestStep DEF TasksOK
  <2>5. QED
    BY <2>1, <2>2, <2>3, <2>4, StepKinds DEF TasksOK
<1>3. QED
  BY <1>1, <1>2 DEF TasksOK

-----------------------------------------------------------------------------
\* Wakeups.

LEMMA Counts ==
  /\ IsFiniteSet(Locking) /\ IsFiniteSet(Signalling)
  /\ Cardinality(Locking) \in Nat /\ Cardinality(Signalling) \in Nat
<1>1. IsFiniteSet(Locking) /\ IsFiniteSet(Signalling)
  <2>1. Locking \subseteq Worker /\ Signalling \subseteq Caller
    BY DEF Locking, Signalling
  <2>2. QED
    BY <2>1, FS_Subset, WorkerAssumption, PoolAssumption
<1>2. QED
  BY <1>1, FS_CardinalityType

LEMMA WakeupsStep ==
  ASSUME TasksOK, WakeupsCoverQueue, [Next]_vars
  PROVE  WakeupsCoverQueue'
<1> USE DEF WakeupsCoverQueue
<1>0. /\ ring.size \in Nat /\ TasksOK /\ TypeOK /\ PoolTypeOK
      /\ IsFiniteSet(Locking) /\ IsFiniteSet(Signalling)
      /\ Cardinality(Locking) \in Nat /\ Cardinality(Signalling) \in Nat
  BY RingFields, Counts DEF TasksOK, TypeOK, PoolTypeOK
<1>1. ASSUME NEW c \in Caller, NEW t \in Task, CallerEnqueues(c, t)
      PROVE  WakeupsCoverQueue'
  <2>1. /\ Asleep' = Asleep /\ Locking' = Locking
        /\ c \notin Signalling /\ Signalling' = Signalling \cup {c}
    BY <1>0, <1>1 DEF CallerEnqueues, Enqueue, Asleep, Locking, Signalling, TypeOK
  <2>2. ring'.size = ring.size + 1
    BY <1>1, PushAppends
       DEF CallerEnqueues, Enqueue, TasksOK, TypeOK, PoolTypeOK, Queued
  <2>3. Cardinality(Signalling') = Cardinality(Signalling) + 1
    BY <1>0, <2>1, OneMore
  <2>4. QED
    BY <1>0, <2>1, <2>2, <2>3
<1>2. ASSUME NEW c \in Caller, NEW t \in Task, CallerRefused(c, t)
      PROVE  WakeupsCoverQueue'
  BY <1>2
     DEF CallerRefused, EnqueueRefused, poolVars, Asleep, Locking, Signalling
<1>3. ASSUME NEW c \in Caller, CallerSignals(c)
      PROVE  WakeupsCoverQueue'
  <2>1. /\ c \in Signalling /\ Signalling' = Signalling \ {c} /\ ring' = ring
    BY <1>0, <1>3 DEF CallerSignals, SignalOne, Signalling, TypeOK
  <2>2. CASE Asleep = {}
    BY <1>3, <2>2 DEF CallerSignals, SignalOne, Asleep
  <2>3. CASE Asleep # {}
    <3>1. PICK w \in Asleep : worker' = [worker EXCEPT ![w] = "locking"]
      BY <1>3, <2>3 DEF CallerSignals, SignalOne
    <3>2. w \notin Locking /\ Locking' = Locking \cup {w}
      BY <1>0, <3>1 DEF Asleep, Locking, PoolTypeOK
    <3>3. /\ Cardinality(Locking') = Cardinality(Locking) + 1
          /\ Cardinality(Signalling') = Cardinality(Signalling) - 1
      BY <1>0, <2>1, <3>2, OneMore, OneLess
    <3>4. QED
      BY <1>0, <2>1, <2>3, <3>3
  <2>4. QED
    BY <2>2, <2>3
<1>4. ASSUME NEW w \in Worker, WorkerTakes(w)
      PROVE  WakeupsCoverQueue'
  <2>1. /\ Asleep' = Asleep /\ Signalling' = Signalling
        /\ w \in Locking /\ Locking' = Locking \ {w}
    BY <1>0, <1>4 DEF WorkerTakes, Take, Asleep, Locking, Signalling, PoolTypeOK
  <2>2. ring'.size = ring.size - 1
    BY <1>4, PopTakesFirst DEF WorkerTakes, Take, TasksOK, TypeOK, PoolTypeOK, Queued
  <2>3. Cardinality(Locking') = Cardinality(Locking) - 1
    BY <1>0, <2>1, OneLess
  <2>4. QED
    BY <1>0, <2>1, <2>2, <2>3
<1>5. ASSUME NEW w \in Worker, WorkerFinishes(w)
      PROVE  WakeupsCoverQueue'
  <2>1. /\ Asleep' = Asleep /\ Signalling' = Signalling /\ ring' = ring
        /\ w \notin Locking /\ Locking' = Locking \cup {w}
    BY <1>0, <1>5 DEF WorkerFinishes, Return, Asleep, Locking, Signalling, PoolTypeOK
  <2>2. Cardinality(Locking') = Cardinality(Locking) + 1
    BY <1>0, <2>1, OneMore
  <2>3. QED
    BY <1>0, <2>1, <2>2
<1>6. ASSUME NEW w \in Worker, Sleep(w) \/ Exit(w), UNCHANGED clientVars
      PROVE  WakeupsCoverQueue'
  <2>1. ring'.size = 0
    BY <1>6 DEF Sleep, Exit, EmptyRing
  <2>2. Cardinality(Locking)' \in Nat /\ Cardinality(Signalling)' \in Nat
    <3>1. Locking' \subseteq Worker /\ Signalling' \subseteq Caller
      BY DEF Locking, Signalling
    <3>2. IsFiniteSet(Locking') /\ IsFiniteSet(Signalling')
      BY <3>1, FS_Subset, WorkerAssumption, PoolAssumption
    <3>3. QED
      BY <3>2, FS_CardinalityType
  <2>3. QED
    BY <2>1, <2>2
<1>7. ASSUME NEW w \in Worker, WakeSpuriously(w), UNCHANGED clientVars
      PROVE  WakeupsCoverQueue'
  <2>1. /\ Asleep' \subseteq Asleep /\ Signalling' = Signalling /\ ring' = ring
        /\ w \notin Locking /\ Locking' = Locking \cup {w}
    BY <1>0, <1>7
       DEF WakeSpuriously, clientVars, Asleep, Locking, Signalling, PoolTypeOK
  <2>2. Cardinality(Locking') = Cardinality(Locking) + 1
    BY <1>0, <2>1, OneMore
  <2>3. QED
    BY <1>0, <2>1, <2>2
<1>8. CASE OwnerSignals
  BY <1>0, <1>8 DEF OwnerSignals, SignalAll, Asleep, PoolTypeOK
<1>9. CASE OwnerStops
  BY <1>9 DEF OwnerStops, SetStop, Asleep, Locking, Signalling
<1>10. CASE OwnerJoins \/ OwnerDestroys
  BY <1>10 DEF OwnerJoins, OwnerDestroys, poolVars, Asleep, Locking, Signalling
<1>11. CASE Terminated \/ UNCHANGED vars
  BY <1>11
     DEF Terminated, vars, poolVars, clientVars, Asleep, Locking, Signalling
<1>12. QED
  BY <1>1, <1>2, <1>3, <1>4, <1>5, <1>6, <1>7, <1>8, <1>9, <1>10, <1>11
     DEF Next, WorkerWaits

-----------------------------------------------------------------------------
\* Stopping.

\* The wait for the threads ends when they have all gone.
LEMMA WaitWaits ==
  ASSUME WaitReturns
  PROVE  \A w \in Worker : worker[w] = "exited"
<1>1. Cardinality(Worker) \in Nat
  BY FS_CardinalityType, WorkerAssumption
<1>2. QED
  BY <1>1, PoolAssumption DEF WaitReturns

LEMMA StopStep ==
  ASSUME TasksOK, StopOrder, NobodySleepsThroughStop, [Next]_vars
  PROVE  StopOrder' /\ NobodySleepsThroughStop'
<1> USE DEF StopOrder, NobodySleepsThroughStop, Asleep
<1>0. TypeOK /\ PoolTypeOK
  BY DEF TasksOK, TypeOK
<1>1. ASSUME NEW c \in Caller, NEW t \in Task, CallerEnqueues(c, t)
      PROVE  StopOrder' /\ NobodySleepsThroughStop'
  BY <1>0, <1>1 DEF CallerEnqueues, Enqueue
<1>2. ASSUME NEW c \in Caller, NEW t \in Task, CallerRefused(c, t)
      PROVE  StopOrder' /\ NobodySleepsThroughStop'
  BY <1>2 DEF CallerRefused, EnqueueRefused, poolVars
<1>3. ASSUME NEW c \in Caller, CallerSignals(c)
      PROVE  StopOrder' /\ NobodySleepsThroughStop'
  BY <1>0, <1>3 DEF CallerSignals, SignalOne, PoolTypeOK
<1>4. ASSUME NEW w \in Worker, WorkerTakes(w)
      PROVE  StopOrder' /\ NobodySleepsThroughStop'
  BY <1>0, <1>4 DEF WorkerTakes, Take, PoolTypeOK
<1>5. ASSUME NEW w \in Worker, WorkerFinishes(w)
      PROVE  StopOrder' /\ NobodySleepsThroughStop'
  BY <1>0, <1>5 DEF WorkerFinishes, Return, PoolTypeOK
<1>6. ASSUME NEW w \in Worker, WorkerWaits(w)
      PROVE  StopOrder' /\ NobodySleepsThroughStop'
  BY <1>0, <1>6 DEF WorkerWaits, Sleep, Exit, WakeSpuriously, clientVars, PoolTypeOK
<1>7. CASE OwnerStops
  BY <1>0, <1>7 DEF OwnerStops, SetStop, TypeOK, OwnerState
<1>8. CASE OwnerSignals
  BY <1>0, <1>8 DEF OwnerSignals, SignalAll, PoolTypeOK
<1>9. CASE OwnerJoins
  BY <1>0, <1>9, WaitWaits DEF OwnerJoins, poolVars
<1>10. CASE OwnerDestroys
  BY <1>0, <1>10 DEF OwnerDestroys, poolVars
<1>11. CASE Terminated \/ UNCHANGED vars
  BY <1>11 DEF Terminated, vars, poolVars, clientVars
<1>12. QED
  BY <1>1, <1>2, <1>3, <1>4, <1>5, <1>6, <1>7, <1>8, <1>9, <1>10, <1>11 DEF Next

-----------------------------------------------------------------------------
\* The invariant, and what follows from it.

LEMMA InvInit == Init => IInv
<1> SUFFICES ASSUME Init PROVE IInv
  OBVIOUS
<1> USE DEF Init, PoolInit
<1>1. ring \in RingOf(Task) /\ ring.size = 0 /\ ring.head = 0 /\ ring.tail = 0
  BY CapacityIs DEF InitRing, RingOf
<1>2. TypeOK
  BY <1>1 DEF TypeOK, PoolTypeOK, OwnerState, WorkerState
<1>3. RingSound(ring)
  BY <1>1, CapacityIs, Stays DEF RingSound
<1>4. Queued = <<>> /\ Queued \in Seq(Task)
  BY <1>1 DEF Queued, Elements
<1>5. Running = {} /\ InHand = {} /\ Asleep = {}
  BY DEF Running, InHand, Asleep
<1>6. Waiting = {}
  BY <1>4 DEF Waiting
<1>7. EachTaskInOnePlace
  BY <1>4, <1>5, <1>6 DEF EachTaskInOnePlace
<1>8. WakeupsCoverQueue /\ NobodySleepsThroughStop /\ StopOrder
  BY <1>5 DEF WakeupsCoverQueue, NobodySleepsThroughStop, StopOrder
<1>9. QED
  BY <1>2, <1>3, <1>4, <1>5, <1>7, <1>8 DEF IInv

LEMMA InvStep == IInv /\ [Next]_vars => IInv'
<1> SUFFICES ASSUME IInv, [Next]_vars PROVE IInv'
  OBVIOUS
<1>1. TasksOK /\ WakeupsCoverQueue /\ StopOrder /\ NobodySleepsThroughStop
  BY DEF IInv, TasksOK
<1>2. TasksOK' /\ WakeupsCoverQueue' /\ StopOrder' /\ NobodySleepsThroughStop'
  BY <1>1, TasksStep, WakeupsStep, StopStep
<1>3. QED
  BY <1>2 DEF IInv, TasksOK

\* The inductive invariant of the pool: the circular buffer is sound, every
\* accepted task is in one place, wakeups cover the queue, and a stop leaves
\* nobody behind (thread_pool.c).
THEOREM PoolInvariant == Spec => []IInv
BY InvInit, InvStep, PTL DEF Spec

\* An accepted task is in exactly one place, whatever the order in which callers,
\* workers and the owner get the mutex.
THEOREM TasksAreKept == Spec => []EachTaskInOnePlace
BY PoolInvariant, PTL DEF IInv

\* While some worker sleeps every queued task has a worker or a signal on its
\* way: enqueue_thread_pool may signal after it has unlocked.
THEOREM WakeupsAreKept == Spec => []WakeupsCoverQueue
BY PoolInvariant, PTL DEF IInv

\* Once stop_thread_pool has signalled no worker sleeps any more.
THEOREM NobodyIsLeftAsleep == Spec => []NobodySleepsThroughStop
BY PoolInvariant, PTL DEF IInv

\* destroy_thread_pool frees nothing that a worker still uses, and no task that
\* was accepted is left undone.
THEOREM FreedUnused == Spec => []NoUseAfterFree
<1>1. IInv => NoUseAfterFree
  <2> SUFFICES ASSUME IInv, freed PROVE
        /\ \A w \in Worker : worker[w] = "exited"
        /\ EmptyRing(ring)
        /\ done = accepted
    BY DEF NoUseAfterFree
  <2>1. \A w \in Worker : worker[w] = "exited"
    BY DEF IInv, StopOrder
  <2>2. EmptyRing(ring)
    BY <2>1, WorkerAssumption DEF IInv, StopOrder
  <2>3. Running = {} /\ InHand = {}
    BY <2>1 DEF Running, InHand
  <2>4. Waiting = {}
    <3>1. DOMAIN Queued = 1 .. 0
      BY <2>2 DEF EmptyRing, Queued, Elements
    <3>2. QED
      BY <3>1 DEF Waiting
  <2>5. done = accepted
    BY <2>3, <2>4 DEF IInv, EachTaskInOnePlace
  <2>6. QED
    BY <2>1, <2>2, <2>5
<1>2. QED
  BY <1>1, PoolInvariant, PTL

-----------------------------------------------------------------------------
\* The refinement.

LEMMA QueueInit == Init => TaskQueue!Init
<1> SUFFICES ASSUME Init PROVE TaskQueue!Init
  OBVIOUS
<1>1. Queued = <<>>
  BY DEF Init, PoolInit, InitRing, Queued, Elements
<1>2. QED
  BY <1>1 DEF Init, TaskQueue!Init

LEMMA QueueStep == IInv /\ [Next]_vars => [TaskQueue!Next]_(TaskQueue!vars)
<1> SUFFICES ASSUME IInv, [Next]_vars PROVE [TaskQueue!Next]_(TaskQueue!vars)
  OBVIOUS
<1>0. TasksOK
  BY DEF IInv, TasksOK
<1>1. ASSUME NEW c \in Caller, NEW t \in Task, CallerEnqueues(c, t)
      PROVE  TaskQueue!Next
  <2>1. Queued' = Append(Queued, t) /\ started' = started
    BY <1>0, <1>1, EnqueueStep DEF CallerEnqueues
  <2>2. Len(Queued) < QueueCapacity
    <3>1. Len(Queued) = ring.size
      BY <1>0, ElementsLen DEF TasksOK, TypeOK, PoolTypeOK, Queued
    <3>2. ring.size < QueueCapacity
      BY <1>0, <1>1, RingFields, CapacityIs
         DEF CallerEnqueues, Enqueue, FullRing, TasksOK, TypeOK, PoolTypeOK
    <3>3. QED
      BY <3>1, <3>2
  <2>3. TaskQueue!Put(t)
    BY <2>1, <2>2 DEF TaskQueue!Put
  <2>4. QED
    BY <2>3 DEF TaskQueue!Next
<1>2. ASSUME NEW w \in Worker, WorkerTakes(w)
      PROVE  TaskQueue!Next
  BY <1>0, <1>2, TakeStep DEF TaskQueue!Next, TaskQueue!Take
<1>3. ASSUME NEW w \in Worker, WorkerFinishes(w)
      PROVE  UNCHANGED TaskQueue!vars
  BY <1>0, <1>3, FinishStep DEF TaskQueue!vars
<1>4. ASSUME Quiet \/ \E c \in Caller, t \in Task : CallerRefused(c, t)
      PROVE  UNCHANGED TaskQueue!vars
  BY <1>0, <1>4, RestStep DEF TaskQueue!vars
<1>5. QED
  BY <1>0, <1>1, <1>2, <1>3, <1>4, StepKinds DEF TasksOK

\* The pool implements the atomic bounded queue: its circular buffer hands tasks
\* out in the order their enqueues got the mutex, each once.
THEOREM PoolRefinement == Spec => TasksInOrder
BY QueueInit, QueueStep, PoolInvariant, PTL
   DEF Spec, TasksInOrder, TaskQueue!Spec
=============================================================================
