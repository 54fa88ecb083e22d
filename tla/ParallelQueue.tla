--------------------------- MODULE ParallelQueue ----------------------------
(***************************************************************************)
(* The lock-free single-producer single-consumer ring of                   *)
(* src/src/parallel/parallel_queue.c.  The server thread produces, the     *)
(* main thread consumes (in simulate).                                     *)
(*                                                                         *)
(* The offsets are 64-bit counters that wrap (Modulus stands for 2^64) and *)
(* are masked to find a slot.  An operation is not atomic: it loads the    *)
(* other side's offset, copies the item one word at a time in any order    *)
(* (memcpy), and only then publishes its own offset.                       *)
(*                                                                         *)
(* A load of the other side's offset need not return the newest value: it  *)
(* returns any value stored since the one the thread saw last (coherence). *)
(* The acquire/release pairing is what makes the words of a published slot *)
(* visible to the thread that saw the offset, and lets the words of the    *)
(* buffer be modelled as a single memory.                                  *)
(***************************************************************************)
EXTENDS Integers, Sequences

CONSTANTS
  Item,      \* what the producer may be asked to enqueue
  Words,     \* the words an item occupies in memory
  Blank,     \* a word nobody wrote: VirtualAlloc zeroes the buffer
  Capacity,  \* number of slots, a power of two
  Modulus    \* 2^64, the number of values of an offset

\* A power of two divides 2^64, so masking an offset is taking it modulo
\* Capacity, and that stays so when the offset wraps.
ASSUME CapacityAssumption ==
  /\ Capacity \in Nat \ {0}
  /\ Modulus \in Nat
  /\ Capacity < Modulus
  /\ Modulus % Capacity = 0

ASSUME ItemAssumption == Blank \notin Item

VARIABLES
  buffer,           \* the slots, word by word
  producer_offset,  \* next slot to fill; only the producer stores it
  consumer_offset,  \* next slot to empty; only the consumer stores it
  seen_consumer,    \* newest consumer_offset the producer has loaded
  seen_producer,    \* newest producer_offset the consumer has loaded
  producing,        \* the producer is between its check and its publication
  item,             \* the argument of its call
  stored,           \* the words of it already in the slot
  consuming,        \* the consumer is between its check and its publication
  out,              \* the caller's memory the item is copied to
  fetched,          \* the words of it already copied
  delivered         \* what out held when a consume last returned true

producerVars == <<producer_offset, seen_consumer, producing, item, stored>>
consumerVars ==
  <<consumer_offset, seen_producer, consuming, out, fetched, delivered>>
vars == <<buffer, producerVars, consumerVars>>

-----------------------------------------------------------------------------
Offset == 0 .. Modulus - 1
Slot   == 0 .. Capacity - 1
Word   == Item \cup {Blank}

Whole(m)  == [w \in Words |-> m]
WholeItem == {Whole(m) : m \in Item}

\* Unsigned arithmetic: the offset d after o, and how far b is ahead of a.
Plus(o, d) == (o + d) % Modulus
Ahead(a, b) == (b - a) % Modulus

\* offset & q->mask
SlotOf(o) == o % Capacity

\* What a load may return when the thread saw `seen` before and `now` is the
\* value stored last.
Visible(seen, now) == {Plus(seen, d) : d \in 0 .. Ahead(seen, now)}

\* Mutants: the full test lets one item too many in; the empty test takes one
\* item for none.
FullLate(c) == Ahead(c, producer_offset) > Capacity
EmptyEarly(p) == Ahead(consumer_offset, p) <= 1

\* The two tests, on the value just loaded.
Full(c)  == Ahead(c, producer_offset) = Capacity
Empty(p) == consumer_offset = p

-----------------------------------------------------------------------------
Init ==
  /\ buffer = [s \in Slot |-> Whole(Blank)]
  /\ producer_offset = 0 /\ consumer_offset = 0
  /\ seen_consumer = 0 /\ seen_producer = 0
  /\ producing = FALSE /\ item = Blank /\ stored = {}
  /\ consuming = FALSE /\ fetched = {}
  /\ out = Whole(Blank) /\ delivered = Whole(Blank)

\* produce_parallel_queue up to its check: it refuses the item ...
ProduceRefuse(c) ==
  /\ ~producing
  /\ Full(c)
  /\ seen_consumer' = c
  /\ UNCHANGED <<buffer, consumerVars, producer_offset, producing, item, stored>>

\* ... or goes on to fill the slot.
ProduceBegin(c, m) ==
  /\ ~producing
  /\ ~Full(c)
  /\ seen_consumer' = c
  /\ producing' = TRUE /\ item' = m /\ stored' = {}
  /\ UNCHANGED <<buffer, consumerVars, producer_offset>>

\* One word of the memcpy into the slot.
ProduceWord(w) ==
  /\ producing
  /\ w \notin stored
  /\ buffer' = [buffer EXCEPT ![SlotOf(producer_offset)][w] = item]
  /\ stored' = stored \cup {w}
  /\ UNCHANGED <<consumerVars, producer_offset, seen_consumer, producing, item>>

\* Mutant: the store of the offset is reordered before the copy.
PublishEarly ==
  /\ producing
  /\ stored # {}
  /\ producer_offset' = Plus(producer_offset, 1)
  /\ producing' = FALSE
  /\ UNCHANGED <<buffer, consumerVars, seen_consumer, item, stored>>

\* The release store; the call returns true.
ProducePublish ==
  /\ producing
  /\ stored = Words
  /\ producer_offset' = Plus(producer_offset, 1)
  /\ producing' = FALSE
  /\ UNCHANGED <<buffer, consumerVars, seen_consumer, item, stored>>

-----------------------------------------------------------------------------
ConsumeRefuse(p) ==
  /\ ~consuming
  /\ Empty(p)
  /\ seen_producer' = p
  /\ UNCHANGED <<buffer, producerVars, consumer_offset, consuming, out,
                 fetched, delivered>>

ConsumeBegin(p) ==
  /\ ~consuming
  /\ ~Empty(p)
  /\ seen_producer' = p
  /\ consuming' = TRUE /\ fetched' = {}
  /\ UNCHANGED <<buffer, producerVars, consumer_offset, out, delivered>>

ConsumeWord(w) ==
  /\ consuming
  /\ w \notin fetched
  /\ out' = [out EXCEPT ![w] = buffer[SlotOf(consumer_offset)][w]]
  /\ fetched' = fetched \cup {w}
  /\ UNCHANGED <<buffer, producerVars, consumer_offset, seen_producer,
                 consuming, delivered>>

\* The release store; the call returns true and the caller reads out.
ConsumePublish ==
  /\ consuming
  /\ fetched = Words
  /\ consumer_offset' = Plus(consumer_offset, 1)
  /\ consuming' = FALSE
  /\ delivered' = out
  /\ UNCHANGED <<buffer, producerVars, seen_producer, out, fetched>>

-----------------------------------------------------------------------------
Produce ==
  \/ \E c \in Visible(seen_consumer, consumer_offset) :
       ProduceRefuse(c) \/ \E m \in Item : ProduceBegin(c, m)
  \/ \E w \in Words : ProduceWord(w)
  \/ ProducePublish

Consume ==
  \/ \E p \in Visible(seen_producer, producer_offset) :
       ConsumeRefuse(p) \/ ConsumeBegin(p)
  \/ \E w \in Words : ConsumeWord(w)
  \/ ConsumePublish

Next == Produce \/ Consume

Spec == Init /\ [][Next]_vars

\* The main loop calls simulate again and again and a store becomes visible
\* after a finite time, so the consumer does not for ever miss a published
\* item; a call once begun runs to its end.  Nobody has to call produce.
Fairness ==
  /\ WF_vars(ConsumeBegin(producer_offset))
  /\ WF_vars(\E w \in Words : ConsumeWord(w))
  /\ WF_vars(ConsumePublish)
  /\ WF_vars(\E w \in Words : ProduceWord(w))
  /\ WF_vars(ProducePublish)

FairSpec == Spec /\ Fairness

-----------------------------------------------------------------------------
\* Every variable holds a value of its type: offsets stay in 64 bits, words
\* are items or the zeroes of the fresh buffer.
TypeOK ==
  /\ buffer \in [Slot -> [Words -> Word]]
  /\ producer_offset \in Offset /\ consumer_offset \in Offset
  /\ seen_consumer \in Offset /\ seen_producer \in Offset
  /\ producing \in BOOLEAN /\ item \in Word /\ stored \subseteq Words
  /\ consuming \in BOOLEAN /\ fetched \subseteq Words
  /\ out \in [Words -> Word]
  /\ delivered \in [Words -> Word]

Used == Ahead(consumer_offset, producer_offset)

\* The items between the two offsets, oldest first.
Contents ==
  [i \in 1 .. Used |-> buffer[SlotOf(Plus(consumer_offset, i - 1))]]

\* The cursors: what a thread has seen lags behind what is stored, never by
\* more than the ring, and a thread that passed its check still has the room,
\* or the item, it saw.
CursorsOK ==
  /\ Ahead(seen_consumer, producer_offset) =
       Ahead(seen_consumer, consumer_offset) + Used
  /\ Ahead(seen_consumer, producer_offset) <= Capacity
  /\ Ahead(consumer_offset, seen_producer) <= Used
  /\ producing => Ahead(seen_consumer, producer_offset) < Capacity
  /\ consuming => consumer_offset # seen_producer

\* The data: every published slot holds one whole item, and the half-done
\* copies agree with their source.
DataOK ==
  /\ \A d \in 0 .. Used - 1 :
       buffer[SlotOf(Plus(consumer_offset, d))] \in WholeItem
  /\ producing =>
       /\ item \in Item
       /\ \A w \in stored : buffer[SlotOf(producer_offset)][w] = item
  /\ consuming =>
       \A w \in fetched : out[w] = buffer[SlotOf(consumer_offset)][w]

\* The inductive invariant: the ring never holds more than Capacity items,
\* stale views err on the safe side, and no published item is damaged.
IInv == TypeOK /\ CursorsOK /\ DataOK

\* No data race on a slot: while the producer writes a slot and the consumer
\* reads one, they are different slots, however stale the offsets each of the
\* two decided on.
NoSlotRace ==
  producing /\ consuming => SlotOf(producer_offset) # SlotOf(consumer_offset)

\* The ring implements the atomic bounded queue: what a consume returns is
\* the oldest item produced and not yet consumed, whole, and a produce that
\* succeeds never exceeds the capacity.
Queue == INSTANCE BoundedQueue
           WITH Item <- WholeItem, Nothing <- Whole(Blank), queue <- Contents

ImplementsQueue == Queue!Spec

\* An item accepted by produce is delivered after finitely many polls, even
\* though every single poll may work with a stale offset.
AcceptedIsDelivered ==
  \A m \in Item :
    (\E i \in 1 .. Capacity : i <= Used /\ Contents[i] = Whole(m))
      ~> (delivered = Whole(m))
=============================================================================
