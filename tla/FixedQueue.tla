----------------------------- MODULE FixedQueue -----------------------------
(***************************************************************************)
(* The circular buffer of src/src/base/fixed_queue.c, which holds the      *)
(* tasks of the thread pool.  It is a plain data structure: whoever uses   *)
(* it holds the mutex of the pool, so its operations are functions on its  *)
(* value.                                                                  *)
(***************************************************************************)
EXTENDS Naturals, Sequences

CONSTANTS
  QueueCapacity,  \* capacity
  Zero            \* what a slot holds before it is first written

ASSUME QueueCapacityAssumption == QueueCapacity \in Nat \ {0}

RingOf(S) ==
  [buffer : [0 .. QueueCapacity - 1 -> S \cup {Zero}],
   size   : 0 .. QueueCapacity,
   head   : 0 .. QueueCapacity - 1,
   tail   : 0 .. QueueCapacity - 1]

InitRing ==
  [buffer |-> [s \in 0 .. QueueCapacity - 1 |-> Zero],
   size |-> 0, head |-> 0, tail |-> 0]

EmptyRing(q) == q.size = 0
FullRing(q)  == q.size = QueueCapacity

Advance(i) == (i + 1) % QueueCapacity

\* The part of push_fixed_queue after its test; a push on a full ring does
\* not come back (its assertion aborts the program), so the callers test.
Push(q, e) ==
  [buffer |-> [q.buffer EXCEPT ![q.head] = e], size |-> q.size + 1,
   head |-> Advance(q.head), tail |-> q.tail]

\* Mutant: the element is looked up after the tail has moved on.
FrontAfter(q) == q.buffer[Advance(q.tail)]

\* pop_fixed_queue returns a pointer into the buffer, read before the mutex
\* is released, and takes the element out.
Front(q) == q.buffer[q.tail]
Pop(q)   ==
  [buffer |-> q.buffer, size |-> q.size - 1,
   head |-> q.head, tail |-> Advance(q.tail)]

\* The elements, oldest first.
Elements(q) ==
  [i \in 1 .. q.size |-> q.buffer[(q.tail + i - 1) % QueueCapacity]]

\* Three numbers for two facts: where the elements begin and how many there are
\* gives where they end.
RingSound(q) == q.head = (q.tail + q.size) % QueueCapacity
=============================================================================
