------------------------ MODULE ParallelQueueProofs -------------------------
(***************************************************************************)
(* Proofs about the lock-free ring of ParallelQueue, for every capacity    *)
(* that divides the range of the offsets, every item size and every set of *)
(* items.                                                                  *)
(*                                                                         *)
(* Unsigned arithmetic is first reduced to linear arithmetic with a case   *)
(* split (AheadCases, PlusCases); the facts about distances that the       *)
(* invariant needs follow, and a last group of lemmas says which slots are *)
(* different.                                                              *)
(*                                                                         *)
(* The cached ring comes last.  A call of it is a call of ParallelQueue    *)
(* that happens to work with an older offset, so its steps are steps of    *)
(* ParallelQueue (StepIsRingStep), whose lemmas apply; only the dropped    *)
(* reservations are new.                                                   *)
(***************************************************************************)
EXTENDS CachedParallelQueue, SequenceTheorems, TLAPS

-----------------------------------------------------------------------------
\* The constants, as the assumption gives them.
LEMMA Sizes ==
  /\ Capacity \in Nat /\ Capacity > 0
  /\ Modulus \in Nat /\ Capacity < Modulus
  /\ Modulus % Capacity = 0
BY CapacityAssumption

\* Euclid: what % and \div mean.
LEMMA Euclid ==
  ASSUME NEW n \in Nat, n > 0, NEW a \in Int
  PROVE  /\ (a \div n) \in Int
         /\ a = n * (a \div n) + (a % n)
         /\ (a % n) \in 0 .. n - 1
OBVIOUS

\* An argument within one modulus of the range is reduced by at most one
\* addition or subtraction.
LEMMA ModSmall ==
  ASSUME NEW n \in Nat, n > 0, NEW a \in 0 .. n - 1
  PROVE  a % n = a
OBVIOUS

LEMMA ModOver ==
  ASSUME NEW n \in Nat, n > 0, NEW a \in Int, n <= a, a < n + n
  PROVE  a % n = a - n
OBVIOUS

LEMMA ModNeg ==
  ASSUME NEW n \in Nat, n > 0, NEW a \in -n .. -1
  PROVE  a % n = a + n
OBVIOUS

\* No multiple of n lies strictly between 0 and n.
LEMMA NoMultiple ==
  ASSUME NEW n \in Nat, n > 0, NEW q \in Int, 0 < n * q, n * q < n
  PROVE  FALSE
<1>1. CASE q <= 0
  BY <1>1
<1>2. CASE q >= 1
  BY <1>2
<1>3. QED
  BY <1>1, <1>2

\* Numbers with the same residue are no less than n apart, and neither are
\* they after a multiple m of n is added to their difference.
LEMMA SameResidue ==
  ASSUME NEW n \in Nat, n > 0, NEW a \in Int, NEW b \in Int, NEW m \in Int,
         a % n = b % n, m % n = 0
  PROVE  /\ ~(0 < b - a /\ b - a < n)
         /\ ~(0 < b - a + m /\ b - a + m < n)
<1>1. PICK x \in Int, y \in Int, z \in Int, r \in Int :
        a = n * x + r /\ b = n * y + r /\ m = n * z
  <2>1. /\ (a \div n) \in Int /\ (b \div n) \in Int /\ (m \div n) \in Int
        /\ (a % n) \in Int
        /\ a = n * (a \div n) + (a % n)
        /\ b = n * (b \div n) + (a % n)
        /\ m = n * (m \div n)
    BY Euclid
  <2>2. QED
    BY <2>1
<1>2. b - a = n * (y - x) /\ b - a + m = n * (y - x + z)
  BY <1>1
<1>3. (y - x) \in Int /\ (y - x + z) \in Int
  OBVIOUS
<1>4. QED
  BY <1>2, <1>3, NoMultiple

\* The distance from one offset to another, without %.
LEMMA AheadCases ==
  ASSUME NEW a \in Offset, NEW b \in Offset
  PROVE  Ahead(a, b) = IF a <= b THEN b - a ELSE b - a + Modulus
<1>1. CASE a <= b
  <2>1. b - a \in 0 .. Modulus - 1
    BY <1>1, Sizes DEF Offset
  <2>2. QED
    BY <1>1, <2>1, ModSmall, Sizes DEF Ahead
<1>2. CASE b < a
  <2>1. b - a \in -Modulus .. -1
    BY <1>2, Sizes DEF Offset
  <2>2. QED
    BY <1>2, <2>1, ModNeg, Sizes DEF Ahead, Offset
<1>3. QED
  BY <1>1, <1>2 DEF Offset

\* The sum of an offset and a distance, without %.
LEMMA PlusCases ==
  ASSUME NEW o \in Offset, NEW d \in Offset
  PROVE  /\ Plus(o, d) = IF o + d < Modulus THEN o + d ELSE o + d - Modulus
         /\ Plus(o, d) \in Offset
<1>1. CASE o + d < Modulus
  <2>1. o + d \in 0 .. Modulus - 1
    BY <1>1, Sizes DEF Offset
  <2>2. QED
    BY <1>1, <2>1, ModSmall, Sizes DEF Plus, Offset
<1>2. CASE o + d >= Modulus
  <2>1. o + d \in Int /\ Modulus <= o + d /\ o + d < Modulus + Modulus
    BY <1>2, Sizes DEF Offset
  <2>2. (o + d) % Modulus = o + d - Modulus
    <3> DEFINE sum == o + d
    <3>1. sum \in Int /\ Modulus <= sum /\ sum < Modulus + Modulus
      BY <2>1
    <3> HIDE DEF sum
    <3>2. sum % Modulus = sum - Modulus
      BY <3>1, ModOver, Sizes
    <3>3. QED
      BY <3>1, <3>2, Sizes DEF sum, Offset
  <2>3. QED
    BY <1>2, <2>1, <2>2, Sizes DEF Plus, Offset
<1>3. QED
  BY <1>1, <1>2, Sizes DEF Offset

-----------------------------------------------------------------------------
\* A distance is an offset, and 0 only between equal offsets.
LEMMA AheadRange ==
  ASSUME NEW a \in Offset, NEW b \in Offset
  PROVE  /\ Ahead(a, b) \in Offset
         /\ Ahead(a, b) = 0 <=> a = b
BY AheadCases, Sizes DEF Offset

LEMMA OneIsOffset == 0 \in Offset /\ 1 \in Offset
BY Sizes DEF Offset

\* Moving the far end on by one.
LEMMA AheadNext ==
  ASSUME NEW a \in Offset, NEW b \in Offset, Ahead(a, b) < Modulus - 1
  PROVE  /\ Plus(b, 1) \in Offset
         /\ Ahead(a, Plus(b, 1)) = Ahead(a, b) + 1
<1>1. Plus(b, 1) = IF b + 1 < Modulus THEN b + 1 ELSE b + 1 - Modulus
  BY PlusCases, OneIsOffset
<1>2. Plus(b, 1) \in Offset
  BY PlusCases, OneIsOffset
<1>3. Ahead(a, Plus(b, 1)) = IF a <= Plus(b, 1) THEN Plus(b, 1) - a
                             ELSE Plus(b, 1) - a + Modulus
  BY <1>2, AheadCases
<1>4. Ahead(a, b) = IF a <= b THEN b - a ELSE b - a + Modulus
  BY AheadCases
<1>5. QED
  BY <1>1, <1>2, <1>3, <1>4, Sizes DEF Offset

\* Moving the near end on by d, not past the far end.
LEMMA AheadLess ==
  ASSUME NEW a \in Offset, NEW b \in Offset, NEW d \in 0 .. Ahead(a, b)
  PROVE  /\ Plus(a, d) \in Offset
         /\ Ahead(Plus(a, d), b) = Ahead(a, b) - d
<1>1. d \in Offset /\ Ahead(a, b) \in Offset
  BY AheadRange, Sizes DEF Offset
<1>2. /\ Plus(a, d) = IF a + d < Modulus THEN a + d ELSE a + d - Modulus
      /\ Plus(a, d) \in Offset
  BY <1>1, PlusCases
<1>3. Ahead(Plus(a, d), b) = IF Plus(a, d) <= b THEN b - Plus(a, d)
                             ELSE b - Plus(a, d) + Modulus
  BY <1>2, AheadCases
<1>4. Ahead(a, b) = IF a <= b THEN b - a ELSE b - a + Modulus
  BY AheadCases
<1>5. QED
  BY <1>1, <1>2, <1>3, <1>4, Sizes DEF Offset

\* What lies d after s, and not past b, is d further from a than s is, when s
\* is between a and b.
LEMMA AheadWithin ==
  ASSUME NEW a \in Offset, NEW s \in Offset, NEW b \in Offset,
         Ahead(a, s) <= Ahead(a, b), NEW d \in 0 .. Ahead(s, b)
  PROVE  /\ Plus(s, d) \in Offset
         /\ Ahead(a, Plus(s, d)) = Ahead(a, s) + d
         /\ Ahead(a, Plus(s, d)) <= Ahead(a, b)
<1>1. d \in Offset /\ Ahead(s, b) \in Offset
  BY AheadRange, Sizes DEF Offset
<1>2. /\ Plus(s, d) = IF s + d < Modulus THEN s + d ELSE s + d - Modulus
      /\ Plus(s, d) \in Offset
  BY <1>1, PlusCases
<1>3. Ahead(a, Plus(s, d)) = IF a <= Plus(s, d) THEN Plus(s, d) - a
                             ELSE Plus(s, d) - a + Modulus
  BY <1>2, AheadCases
<1>4. /\ Ahead(a, b) = IF a <= b THEN b - a ELSE b - a + Modulus
      /\ Ahead(a, s) = IF a <= s THEN s - a ELSE s - a + Modulus
      /\ Ahead(s, b) = IF s <= b THEN b - s ELSE b - s + Modulus
  BY AheadCases
<1>5. QED
  BY <1>1, <1>2, <1>3, <1>4, Sizes DEF Offset

\* The offset d after a is at distance d from it.
LEMMA AheadPlus ==
  ASSUME NEW a \in Offset, NEW d \in Offset
  PROVE  /\ Plus(a, d) \in Offset
         /\ Ahead(a, Plus(a, d)) = d
<1>1. /\ Plus(a, d) = IF a + d < Modulus THEN a + d ELSE a + d - Modulus
      /\ Plus(a, d) \in Offset
  BY PlusCases
<1>2. Ahead(a, Plus(a, d)) = IF a <= Plus(a, d) THEN Plus(a, d) - a
                             ELSE Plus(a, d) - a + Modulus
  BY <1>1, AheadCases
<1>3. QED
  BY <1>1, <1>2, Sizes DEF Offset

-----------------------------------------------------------------------------
LEMMA SlotRange == ASSUME NEW o \in Offset PROVE SlotOf(o) \in Slot
BY Sizes, Euclid DEF SlotOf, Slot, Offset

\* Two offsets less than a ring apart mask to different slots, across the
\* wrap of the counters too: this is what needs Capacity to divide Modulus.
LEMMA SlotsDiffer ==
  ASSUME NEW a \in Offset, NEW b \in Offset,
         0 < Ahead(a, b), Ahead(a, b) < Capacity
  PROVE  SlotOf(a) # SlotOf(b)
<1> SUFFICES ASSUME a % Capacity = b % Capacity PROVE FALSE
  BY DEF SlotOf
<1>1. /\ ~(0 < b - a /\ b - a < Capacity)
      /\ ~(0 < b - a + Modulus /\ b - a + Modulus < Capacity)
  BY SameResidue, Sizes DEF Offset
<1>2. Ahead(a, b) = b - a \/ Ahead(a, b) = b - a + Modulus
  BY AheadCases
<1>3. QED
  BY <1>1, <1>2

-----------------------------------------------------------------------------
\* Stepping first by one and then by d is stepping by d + 1.
LEMMA PlusPlus ==
  ASSUME NEW a \in Offset, NEW d \in Offset, d + 1 \in Offset
  PROVE  Plus(Plus(a, 1), d) = Plus(a, d + 1)
<1>1. /\ Plus(a, 1) \in Offset
      /\ Plus(a, 1) = IF a + 1 < Modulus THEN a + 1 ELSE a + 1 - Modulus
  BY PlusCases, OneIsOffset
<1>2. Plus(Plus(a, 1), d) = IF Plus(a, 1) + d < Modulus THEN Plus(a, 1) + d
                            ELSE Plus(a, 1) + d - Modulus
  BY <1>1, PlusCases
<1>3. Plus(a, d + 1) = IF a + (d + 1) < Modulus THEN a + (d + 1)
                       ELSE a + (d + 1) - Modulus
  BY PlusCases
<1>4. QED
  BY <1>1, <1>2, <1>3, Sizes DEF Offset

\* Stepping to where the far end is.
LEMMA PlusAhead ==
  ASSUME NEW a \in Offset, NEW b \in Offset
  PROVE  /\ Plus(a, Ahead(a, b)) = b
         /\ Plus(a, 0) = a
<1>1. /\ Ahead(a, b) \in Offset
      /\ Ahead(a, b) = IF a <= b THEN b - a ELSE b - a + Modulus
  BY AheadRange, AheadCases
<1>2. Plus(a, Ahead(a, b)) = IF a + Ahead(a, b) < Modulus THEN a + Ahead(a, b)
                             ELSE a + Ahead(a, b) - Modulus
  BY <1>1, PlusCases
<1>3. Plus(a, 0) = IF a + 0 < Modulus THEN a + 0 ELSE a + 0 - Modulus
  BY OneIsOffset, PlusCases
<1>4. QED
  BY <1>1, <1>2, <1>3, Sizes DEF Offset

-----------------------------------------------------------------------------
\* Every variable keeps its type in every step.
LEMMA TypeStep == TypeOK /\ [Next]_vars => TypeOK'
<1> SUFFICES ASSUME TypeOK, [Next]_vars PROVE TypeOK'
  OBVIOUS
<1>1. ASSUME NEW c \in Visible(seen_consumer, consumer_offset)
      PROVE  c \in Offset
  <2>1. PICK d \in 0 .. Ahead(seen_consumer, consumer_offset) :
          c = Plus(seen_consumer, d)
    BY <1>1 DEF Visible
  <2>2. QED
    BY <2>1, AheadLess DEF TypeOK
<1>2. ASSUME NEW p \in Visible(seen_producer, producer_offset)
      PROVE  p \in Offset
  <2>1. PICK d \in 0 .. Ahead(seen_producer, producer_offset) :
          p = Plus(seen_producer, d)
    BY <1>2 DEF Visible
  <2>2. QED
    BY <2>1, AheadLess DEF TypeOK
<1>3. Plus(producer_offset, 1) \in Offset /\ Plus(consumer_offset, 1) \in Offset
  BY PlusCases, OneIsOffset DEF TypeOK
<1>4. SlotOf(producer_offset) \in Slot /\ SlotOf(consumer_offset) \in Slot
  BY SlotRange DEF TypeOK
<1>5. ASSUME NEW c \in Visible(seen_consumer, consumer_offset),
             ProduceRefuse(c) \/ \E m \in Item : ProduceBegin(c, m)
      PROVE  TypeOK'
  BY <1>1, <1>5
  DEF TypeOK, ProduceRefuse, ProduceBegin, consumerVars, Word
<1>6. ASSUME NEW w \in Words, ProduceWord(w) PROVE TypeOK'
  BY <1>4, <1>6 DEF TypeOK, ProduceWord, consumerVars
<1>7. CASE ProducePublish
  BY <1>3, <1>7 DEF TypeOK, ProducePublish, consumerVars
<1>8. ASSUME NEW p \in Visible(seen_producer, producer_offset),
             ConsumeRefuse(p) \/ ConsumeBegin(p)
      PROVE  TypeOK'
  BY <1>2, <1>8 DEF TypeOK, ConsumeRefuse, ConsumeBegin, producerVars
<1>9. ASSUME NEW w \in Words, ConsumeWord(w) PROVE TypeOK'
  BY <1>4, <1>9 DEF TypeOK, ConsumeWord, producerVars
<1>10. CASE ConsumePublish
  BY <1>3, <1>10 DEF TypeOK, ConsumePublish, producerVars
<1>11. CASE UNCHANGED vars
  BY <1>11 DEF TypeOK, vars, producerVars, consumerVars
<1>12. QED
  BY <1>5, <1>6, <1>7, <1>8, <1>9, <1>10, <1>11 DEF Next, Produce, Consume

\* Offsets stay in their 64 bits and words are items or zeroes.
THEOREM TypeCorrect == Spec => []TypeOK
<1>1. Init => TypeOK
  BY OneIsOffset DEF Init, TypeOK, Whole, Word
<1>2. QED
  BY <1>1, TypeStep, PTL DEF Spec

-----------------------------------------------------------------------------
\* What the cursors say about the number of items in the ring.
LEMMA Room ==
  ASSUME TypeOK, CursorsOK
  PROVE  /\ Used \in Offset /\ Used \in Nat /\ Used <= Capacity
         /\ Ahead(seen_consumer, consumer_offset) \in Nat
         /\ Ahead(seen_consumer, producer_offset) \in Nat
         /\ Ahead(consumer_offset, seen_producer) \in Nat
         /\ producing => Used < Capacity
         /\ consuming => Used > 0
<1>1. /\ Used \in Offset
      /\ Ahead(seen_consumer, consumer_offset) \in Offset
      /\ Ahead(seen_consumer, producer_offset) \in Offset
      /\ Ahead(consumer_offset, seen_producer) \in Offset
      /\ Ahead(consumer_offset, seen_producer) = 0
           <=> consumer_offset = seen_producer
  BY AheadRange DEF TypeOK, Used
<1>2. QED
  BY <1>1, Sizes DEF CursorsOK, Offset

\* A published slot is not the slot being filled.
LEMMA PublishedApart ==
  ASSUME TypeOK, Used < Capacity, NEW d \in 0 .. Used - 1
  PROVE  /\ Plus(consumer_offset, d) \in Offset
         /\ SlotOf(Plus(consumer_offset, d)) # SlotOf(producer_offset)
<1>1. Used \in Nat
  BY AheadRange, Sizes DEF TypeOK, Used, Offset
<1>2. /\ Plus(consumer_offset, d) \in Offset
      /\ Ahead(Plus(consumer_offset, d), producer_offset) = Used - d
  BY <1>1, AheadLess DEF TypeOK, Used
<1>3. QED
  BY <1>1, <1>2, SlotsDiffer, Sizes DEF TypeOK

\* The producer learns of progress of the consumer: the distances shrink alike.
LEMMA SeeConsumer ==
  ASSUME TypeOK, CursorsOK, NEW c \in Visible(seen_consumer, consumer_offset)
  PROVE  /\ c \in Offset
         /\ Ahead(c, producer_offset) = Ahead(c, consumer_offset) + Used
         /\ Ahead(c, producer_offset) <= Capacity
<1>1. PICK d \in 0 .. Ahead(seen_consumer, consumer_offset) :
        c = Plus(seen_consumer, d)
  BY DEF Visible
<1>2. /\ c \in Offset
      /\ Ahead(c, consumer_offset) = Ahead(seen_consumer, consumer_offset) - d
  BY <1>1, AheadLess DEF TypeOK
<1>3. d \in 0 .. Ahead(seen_consumer, producer_offset)
  BY Room DEF CursorsOK
<1>4. Ahead(c, producer_offset) = Ahead(seen_consumer, producer_offset) - d
  BY <1>1, <1>3, AheadLess DEF TypeOK
<1>5. QED
  BY <1>2, <1>3, <1>4, Room, Sizes DEF CursorsOK

\* The consumer learns of progress of the producer: still inside the ring.
LEMMA SeeProducer ==
  ASSUME TypeOK, CursorsOK, NEW p \in Visible(seen_producer, producer_offset)
  PROVE  /\ p \in Offset
         /\ Ahead(consumer_offset, p) <= Used
<1>1. PICK d \in 0 .. Ahead(seen_producer, producer_offset) :
        p = Plus(seen_producer, d)
  BY DEF Visible
<1>2. Ahead(consumer_offset, seen_producer)
        <= Ahead(consumer_offset, producer_offset)
  BY DEF CursorsOK, Used
<1>3. QED
  BY <1>1, <1>2, AheadWithin DEF TypeOK, Used

-----------------------------------------------------------------------------
\* The cursor part of the invariant, action by action.
LEMMA CursorStep == TypeOK /\ CursorsOK /\ [Next]_vars => CursorsOK'
<1> SUFFICES ASSUME TypeOK, CursorsOK, [Next]_vars PROVE CursorsOK'
  OBVIOUS
<1>1. ASSUME NEW c \in Visible(seen_consumer, consumer_offset),
             ProduceRefuse(c)
      PROVE  CursorsOK'
  BY <1>1, SeeConsumer DEF ProduceRefuse, consumerVars, CursorsOK, Used
<1>2. ASSUME NEW c \in Visible(seen_consumer, consumer_offset),
             NEW m \in Item, ProduceBegin(c, m)
      PROVE  CursorsOK'
  <2>1. Ahead(c, producer_offset) < Capacity
    <3>1. Ahead(c, producer_offset) \in Offset
      BY SeeConsumer, AheadRange DEF TypeOK
    <3>2. QED
      BY <1>2, <3>1, SeeConsumer, Sizes DEF ProduceBegin, Full, Offset
  <2>2. QED
    BY <1>2, <2>1, SeeConsumer
    DEF ProduceBegin, consumerVars, CursorsOK, Used
<1>3. ASSUME NEW w \in Words, ProduceWord(w) PROVE CursorsOK'
  BY <1>3 DEF ProduceWord, consumerVars, CursorsOK, Used
<1>4. CASE ProducePublish
  <2>1. /\ Ahead(seen_consumer, producer_offset) < Modulus - 1
        /\ Used < Modulus - 1
    BY <1>4, Room, Sizes DEF ProducePublish, CursorsOK
  <2>2. /\ Ahead(seen_consumer, Plus(producer_offset, 1))
             = Ahead(seen_consumer, producer_offset) + 1
        /\ Ahead(consumer_offset, Plus(producer_offset, 1)) = Used + 1
    BY <2>1, AheadNext DEF TypeOK, Used
  <2>3. QED
    BY <1>4, <2>2, Room, Sizes
    DEF ProducePublish, consumerVars, CursorsOK, Used
<1>5. ASSUME NEW p \in Visible(seen_producer, producer_offset),
             ConsumeRefuse(p)
      PROVE  CursorsOK'
  BY <1>5, SeeProducer DEF ConsumeRefuse, producerVars, CursorsOK, Used
<1>6. ASSUME NEW p \in Visible(seen_producer, producer_offset),
             ConsumeBegin(p)
      PROVE  CursorsOK'
  BY <1>6, SeeProducer DEF ConsumeBegin, Empty, producerVars, CursorsOK, Used
<1>7. ASSUME NEW w \in Words, ConsumeWord(w) PROVE CursorsOK'
  BY <1>7 DEF ConsumeWord, producerVars, CursorsOK, Used
<1>8. CASE ConsumePublish
  <2>1. Used > 0 /\ Ahead(consumer_offset, seen_producer) > 0
    <3>1. consumer_offset # seen_producer
      BY <1>8 DEF ConsumePublish, CursorsOK
    <3>2. QED
      BY <1>8, <3>1, Room, AheadRange DEF ConsumePublish, TypeOK
  <2>2. /\ Ahead(Plus(consumer_offset, 1), producer_offset) = Used - 1
        /\ Ahead(Plus(consumer_offset, 1), seen_producer)
             = Ahead(consumer_offset, seen_producer) - 1
    BY <2>1, AheadLess, Room DEF TypeOK, Used
  <2>3. Ahead(seen_consumer, consumer_offset) < Modulus - 1
    BY <2>1, Room, Sizes DEF CursorsOK
  <2>4. Ahead(seen_consumer, Plus(consumer_offset, 1))
          = Ahead(seen_consumer, consumer_offset) + 1
    BY <2>3, AheadNext DEF TypeOK
  <2>5. QED
    BY <1>8, <2>1, <2>2, <2>4, Room
    DEF ConsumePublish, producerVars, CursorsOK, Used
<1>9. CASE UNCHANGED vars
  BY <1>9 DEF vars, producerVars, consumerVars, CursorsOK, Used
<1>10. QED
  BY <1>1, <1>2, <1>3, <1>4, <1>5, <1>6, <1>7, <1>8, <1>9
  DEF Next, Produce, Consume

-----------------------------------------------------------------------------
\* The data part of the invariant, action by action.
LEMMA DataStep ==
  TypeOK /\ CursorsOK /\ DataOK /\ [Next]_vars => DataOK'
<1> SUFFICES ASSUME TypeOK, CursorsOK, DataOK, [Next]_vars PROVE DataOK'
  OBVIOUS
<1>1. ASSUME NEW c, ProduceRefuse(c) PROVE DataOK'
  BY <1>1 DEF ProduceRefuse, consumerVars, DataOK, Used
<1>2. ASSUME NEW c, NEW m \in Item, ProduceBegin(c, m) PROVE DataOK'
  BY <1>2 DEF ProduceBegin, consumerVars, DataOK, Used
<1>3. ASSUME NEW w \in Words, ProduceWord(w) PROVE DataOK'
  <2>1. /\ SlotOf(producer_offset) \in Slot /\ producing
        /\ buffer' = [buffer EXCEPT ![SlotOf(producer_offset)][w] = item]
        /\ stored' = stored \cup {w}
        /\ UNCHANGED <<consumerVars, producer_offset, producing, item>>
    BY <1>3, SlotRange DEF ProduceWord, TypeOK
  <2>2. \A s \in Slot : s # SlotOf(producer_offset) => buffer'[s] = buffer[s]
    BY <2>1 DEF TypeOK
  <2>3. Used' = Used
    BY <2>1 DEF consumerVars, Used
  <2>4. ASSUME NEW d \in 0 .. Used - 1
        PROVE  buffer'[SlotOf(Plus(consumer_offset, d))] \in WholeItem
    <3>1. /\ SlotOf(Plus(consumer_offset, d)) \in Slot
          /\ SlotOf(Plus(consumer_offset, d)) # SlotOf(producer_offset)
      BY <2>1, Room, PublishedApart, SlotRange
    <3>2. QED
      BY <2>2, <3>1 DEF DataOK
  <2>5. \A v \in stored' : buffer'[SlotOf(producer_offset)][v] = item
    BY <2>1 DEF DataOK, TypeOK
  <2>6. ASSUME consuming, NEW v \in fetched
        PROVE  out[v] = buffer'[SlotOf(consumer_offset)][v]
    <3>1. 0 < Used /\ Used < Capacity
      BY <2>1, <2>6, Room
    <3>2. SlotOf(consumer_offset) # SlotOf(producer_offset)
      BY <3>1, SlotsDiffer DEF TypeOK, Used
    <3>3. SlotOf(consumer_offset) \in Slot
      BY SlotRange DEF TypeOK
    <3>4. QED
      BY <2>2, <2>6, <3>2, <3>3 DEF DataOK
  <2>7. QED
    BY <2>1, <2>3, <2>4, <2>5, <2>6 DEF DataOK, consumerVars
<1>4. CASE ProducePublish
  <2>1. /\ producing /\ stored = Words
        /\ producer_offset' = Plus(producer_offset, 1)
        /\ producing' = FALSE
        /\ UNCHANGED <<buffer, consumerVars>>
    BY <1>4 DEF ProducePublish
  <2>2. Used \in Nat /\ Used < Modulus - 1 /\ Used \in Offset
    BY <2>1, Room, Sizes
  <2>3. Used' = Used + 1
    BY <2>1, <2>2, AheadNext DEF TypeOK, Used, consumerVars
  <2>4. buffer[SlotOf(producer_offset)] \in WholeItem
    <3>1. buffer[SlotOf(producer_offset)] \in [Words -> Word]
      BY SlotRange DEF TypeOK
    <3>2. \A w \in Words : buffer[SlotOf(producer_offset)][w] = item
      BY <2>1 DEF DataOK
    <3>3. buffer[SlotOf(producer_offset)] = Whole(item) /\ item \in Item
      BY <2>1, <3>1, <3>2 DEF Whole, DataOK
    <3>4. QED
      BY <3>3 DEF WholeItem
  <2>5. ASSUME NEW d \in 0 .. Used
        PROVE  buffer[SlotOf(Plus(consumer_offset, d))] \in WholeItem
    <3>1. CASE d \in 0 .. Used - 1
      BY <3>1 DEF DataOK
    <3>2. CASE d = Used
      BY <2>4, <3>2, PlusAhead DEF TypeOK, Used
    <3>3. QED
      BY <2>2, <3>1, <3>2
  <2>6. QED
    BY <2>1, <2>2, <2>3, <2>5 DEF DataOK, consumerVars
<1>5. ASSUME NEW p, ConsumeRefuse(p) PROVE DataOK'
  BY <1>5 DEF ConsumeRefuse, producerVars, DataOK, Used
<1>6. ASSUME NEW p, ConsumeBegin(p) PROVE DataOK'
  BY <1>6 DEF ConsumeBegin, producerVars, DataOK, Used
<1>7. ASSUME NEW w \in Words, ConsumeWord(w) PROVE DataOK'
  BY <1>7 DEF ConsumeWord, producerVars, DataOK, Used, TypeOK
<1>8. CASE ConsumePublish
  <2>1. /\ consuming /\ consuming' = FALSE
        /\ consumer_offset' = Plus(consumer_offset, 1)
        /\ UNCHANGED <<buffer, producerVars>>
    BY <1>8 DEF ConsumePublish
  <2>2. Used \in Nat /\ Used > 0 /\ Used \in Offset
    BY <2>1, Room
  <2>3. Used' = Used - 1
    BY <2>1, <2>2, AheadLess DEF TypeOK, Used, producerVars
  <2>4. ASSUME NEW d \in 0 .. Used - 2
        PROVE  buffer[SlotOf(Plus(Plus(consumer_offset, 1), d))] \in WholeItem
    <3>1. d \in Offset /\ d + 1 \in Offset /\ d + 1 \in 0 .. Used - 1
      BY <2>2, Sizes DEF Offset
    <3>2. Plus(Plus(consumer_offset, 1), d) = Plus(consumer_offset, d + 1)
      BY <3>1, PlusPlus DEF TypeOK
    <3>3. QED
      BY <3>1, <3>2 DEF DataOK
  <2>5. QED
    BY <2>1, <2>2, <2>3, <2>4 DEF DataOK, producerVars
<1>9. CASE UNCHANGED vars
  BY <1>9 DEF vars, producerVars, consumerVars, DataOK, Used
<1>10. QED
  BY <1>1, <1>2, <1>3, <1>4, <1>5, <1>6, <1>7, <1>8, <1>9
  DEF Next, Produce, Consume

\* The invariant holds of the fresh ring and is kept by every step.
LEMMA InvInit == Init => IInv
<1> SUFFICES ASSUME Init PROVE IInv
  OBVIOUS
<1>1. TypeOK
  BY OneIsOffset DEF Init, TypeOK, Whole, Word
<1>2. Ahead(0, 0) = 0
  BY OneIsOffset, AheadRange
<1>3. CursorsOK
  BY <1>2, Sizes DEF Init, CursorsOK, Used
<1>4. DataOK
  BY <1>2 DEF Init, DataOK, Used
<1>5. QED
  BY <1>1, <1>3, <1>4 DEF IInv

\* The ring never holds more than Capacity items, a stale offset errs on the
\* safe side, and no published item is damaged.
THEOREM RingInvariant == Spec => []IInv
<1>1. IInv /\ [Next]_vars => IInv'
  BY TypeStep, CursorStep, DataStep DEF IInv
<1>2. QED
  BY <1>1, InvInit, PTL DEF Spec

\* A thread in the middle of a copy has its slot for itself.
LEMMA InvRaceFree == IInv => NoSlotRace
<1> SUFFICES ASSUME IInv, producing, consuming
             PROVE  SlotOf(producer_offset) # SlotOf(consumer_offset)
  BY DEF NoSlotRace
<1>1. 0 < Used /\ Used < Capacity
  BY Room DEF IInv
<1>2. QED
  BY <1>1, SlotsDiffer DEF IInv, TypeOK, Used

\* The two threads never touch the same slot at the same time.
THEOREM RaceFree == Spec => []NoSlotRace
  BY InvRaceFree, RingInvariant, PTL

-----------------------------------------------------------------------------
\* The abstract queue as a sequence: its length and its items.
LEMMA ContentsSeq ==
  ASSUME TypeOK, CursorsOK, DataOK
  PROVE  /\ Contents \in Seq(WholeItem)
         /\ Len(Contents) = Used
<1>1. Used \in Nat
  BY Room
<1>2. \A i \in 1 .. Used :
        buffer[SlotOf(Plus(consumer_offset, i - 1))] \in WholeItem
  BY <1>1 DEF DataOK
<1>3. QED
  BY <1>1, <1>2 DEF Contents

\* Steps that leave the cursors and the published slots alone stutter.
LEMMA ContentsSame ==
  ASSUME Used \in Nat, Used' = Used, UNCHANGED consumer_offset,
         \A d \in 0 .. Used - 1 :
           buffer'[SlotOf(Plus(consumer_offset, d))]
             = buffer[SlotOf(Plus(consumer_offset, d))]
  PROVE  Contents' = Contents
<1>1. \A i \in 1 .. Used : i - 1 \in 0 .. Used - 1
  OBVIOUS
<1>2. QED
  BY <1>1 DEF Contents

\* A publication by the producer appends the item, whole.
LEMMA PublishPuts ==
  ASSUME IInv, ProducePublish
  PROVE  \E m \in WholeItem : Queue!Put(m)
<1>1. /\ producing /\ stored = Words
      /\ producer_offset' = Plus(producer_offset, 1)
      /\ UNCHANGED <<buffer, consumer_offset, delivered>>
  BY DEF ProducePublish, consumerVars
<1>2. TypeOK /\ CursorsOK /\ DataOK
  BY DEF IInv
<1>3. /\ Used \in Nat /\ Used \in Offset /\ Used < Capacity
      /\ Used' = Used + 1
  <2>1. Used \in Nat /\ Used \in Offset /\ Used < Capacity
    BY <1>1, <1>2, Room
  <2>2. QED
    BY <1>1, <1>2, <2>1, AheadNext, Sizes DEF TypeOK, Used
<1> DEFINE m == buffer[SlotOf(producer_offset)]
<1>4. m \in WholeItem
  <2>1. /\ m \in [Words -> Word]
        /\ \A w \in Words : m[w] = item
        /\ item \in Item
    BY <1>1, <1>2, SlotRange DEF TypeOK, DataOK
  <2>2. m = Whole(item)
    BY <2>1 DEF Whole
  <2>3. QED
    BY <2>1, <2>2 DEF WholeItem
<1>5. Plus(consumer_offset, Used) = producer_offset
  BY <1>2, PlusAhead DEF TypeOK, Used
<1>6. Contents' = Append(Contents, m)
  <2>1. Contents' = [i \in 1 .. Used + 1 |->
                       buffer[SlotOf(Plus(consumer_offset, i - 1))]]
    BY <1>1, <1>3 DEF Contents
  <2>2. Append(Contents, m) = [i \in 1 .. Used + 1 |->
                                 IF i <= Used THEN Contents[i] ELSE m]
    <3>1. Len(Contents) = Used /\ Contents \in Seq(WholeItem)
      BY <1>2, ContentsSeq
    <3>2. QED
      BY <1>3, <1>4, <3>1
  <2>3. ASSUME NEW i \in 1 .. Used + 1
        PROVE  buffer[SlotOf(Plus(consumer_offset, i - 1))]
                 = IF i <= Used THEN Contents[i] ELSE m
    <3>1. CASE i <= Used
      BY <1>3, <3>1 DEF Contents
    <3>2. CASE i = Used + 1
      BY <1>3, <1>5, <3>2
    <3>3. QED
      BY <1>3, <3>1, <3>2
  <2>4. QED
    BY <2>1, <2>2, <2>3
<1>7. Len(Contents) < Capacity
  BY <1>2, <1>3, ContentsSeq
<1>8. Queue!Put(m)
  BY <1>1, <1>6, <1>7 DEF Queue!Put
<1>9. QED
  BY <1>4, <1>8

\* A publication by the consumer hands over the oldest item, whole.
LEMMA PublishTakes ==
  ASSUME IInv, ConsumePublish
  PROVE  Queue!Take
<1>1. /\ consuming /\ fetched = Words
      /\ consumer_offset' = Plus(consumer_offset, 1)
      /\ delivered' = out
      /\ UNCHANGED <<buffer, producer_offset>>
  BY DEF ConsumePublish, producerVars
<1>2. TypeOK /\ CursorsOK /\ DataOK
  BY DEF IInv
<1>3. /\ Used \in Nat /\ Used \in Offset /\ Used > 0
      /\ Used' = Used - 1
  <2>1. Used \in Nat /\ Used \in Offset /\ Used > 0
    BY <1>1, <1>2, Room
  <2>2. QED
    BY <1>1, <1>2, <2>1, AheadLess DEF TypeOK, Used
<1>4. Contents \in Seq(WholeItem) /\ Len(Contents) = Used
  BY <1>2, ContentsSeq
<1>5. Contents # <<>>
  BY <1>3, <1>4
<1>6. out = Head(Contents)
  <2>1. Head(Contents) = Contents[1]
    BY <1>3, <1>4
  <2>2. Contents[1] = buffer[SlotOf(consumer_offset)]
    <3>1. Contents[1] = buffer[SlotOf(Plus(consumer_offset, 1 - 1))]
      BY <1>3 DEF Contents
    <3>2. Plus(consumer_offset, 1 - 1) = consumer_offset
      BY <1>2, PlusAhead DEF TypeOK
    <3>3. QED
      BY <3>1, <3>2
  <2>3. /\ out \in [Words -> Word]
        /\ buffer[SlotOf(consumer_offset)] \in [Words -> Word]
        /\ \A w \in Words : out[w] = buffer[SlotOf(consumer_offset)][w]
    BY <1>1, <1>2, SlotRange DEF TypeOK, DataOK
  <2>4. out = buffer[SlotOf(consumer_offset)]
    BY <2>3
  <2>5. QED
    BY <2>1, <2>2, <2>4
<1>7. Contents' = Tail(Contents)
  <2>1. Contents' = [i \in 1 .. Used - 1 |->
               buffer[SlotOf(Plus(Plus(consumer_offset, 1), i - 1))]]
    BY <1>1, <1>3 DEF Contents
  <2>2. Tail(Contents) = [i \in 1 .. Used - 1 |-> Contents[i + 1]]
    <3> DEFINE tail == Tail(Contents)
    <3>1. /\ tail \in Seq(WholeItem)
          /\ Len(tail) = Used - 1
          /\ \A i \in 1 .. Len(tail) : tail[i] = Contents[i + 1]
      BY <1>3, <1>4, <1>5, HeadTailProperties
    <3> HIDE DEF tail
    <3>2. tail = [i \in 1 .. Used - 1 |-> tail[i]]
      BY <1>3, <3>1
    <3>3. tail = [i \in 1 .. Used - 1 |-> Contents[i + 1]]
      BY <3>1, <3>2
    <3>4. QED
      BY <3>3 DEF tail
  <2>3. ASSUME NEW i \in 1 .. Used - 1
        PROVE  buffer[SlotOf(Plus(Plus(consumer_offset, 1), i - 1))]
                 = Contents[i + 1]
    <3>1. /\ i - 1 \in Offset /\ (i - 1) + 1 \in Offset
          /\ (i - 1) + 1 = (i + 1) - 1 /\ i + 1 \in 1 .. Used
      BY <1>3, Sizes DEF Offset
    <3>2. Plus(Plus(consumer_offset, 1), i - 1)
            = Plus(consumer_offset, (i - 1) + 1)
      BY <1>2, <3>1, PlusPlus DEF TypeOK
    <3>3. QED
      BY <3>1, <3>2 DEF Contents
  <2>4. QED
    BY <2>1, <2>2, <2>3
<1>8. QED
  BY <1>1, <1>5, <1>6, <1>7 DEF Queue!Take

\* The empty ring is the empty queue.
LEMMA QueueInit == Init => Queue!Init
<1> SUFFICES ASSUME Init PROVE Queue!Init
  OBVIOUS
<1>1. Used = 0
  BY OneIsOffset, AheadRange DEF Init, Used
<1>2. Contents = <<>>
  BY <1>1 DEF Contents
<1>3. QED
  BY <1>2 DEF Init, Queue!Init

\* Every step of the two threads is a Put, a Take or no step at all of the
\* queue.
LEMMA QueueStep == IInv /\ [Next]_vars => [Queue!Next]_(Queue!vars)
<1> SUFFICES ASSUME IInv, [Next]_vars
             PROVE  [Queue!Next]_(Queue!vars)
  OBVIOUS
<1>1. TypeOK /\ CursorsOK /\ DataOK /\ Used \in Nat
  BY Room DEF IInv
<1>2. ASSUME UNCHANGED <<buffer, producer_offset, consumer_offset, delivered>>
      PROVE  UNCHANGED Queue!vars
  <2>1. Used' = Used
    BY <1>2 DEF Used
  <2>2. Contents' = Contents
    BY <1>1, <1>2, <2>1, ContentsSame
  <2>3. QED
    BY <1>2, <2>2 DEF Queue!vars
<1>3. ASSUME NEW c, ProduceRefuse(c) \/ \E m \in Item : ProduceBegin(c, m)
      PROVE  UNCHANGED Queue!vars
  BY <1>2, <1>3 DEF ProduceRefuse, ProduceBegin, consumerVars
<1>4. ASSUME NEW w \in Words, ProduceWord(w) PROVE UNCHANGED Queue!vars
  <2>1. /\ producing
        /\ buffer' = [buffer EXCEPT ![SlotOf(producer_offset)][w] = item]
        /\ UNCHANGED <<producer_offset, consumer_offset, delivered>>
    BY <1>4 DEF ProduceWord, consumerVars
  <2>2. ASSUME NEW d \in 0 .. Used - 1
        PROVE  buffer'[SlotOf(Plus(consumer_offset, d))]
                 = buffer[SlotOf(Plus(consumer_offset, d))]
    <3>1. /\ SlotOf(Plus(consumer_offset, d)) \in Slot
          /\ SlotOf(Plus(consumer_offset, d)) # SlotOf(producer_offset)
      BY <1>1, <2>1, Room, PublishedApart, SlotRange
    <3>2. QED
      BY <1>1, <2>1, <3>1 DEF TypeOK
  <2>3. Used' = Used
    BY <2>1 DEF Used
  <2>4. Contents' = Contents
    BY <1>1, <2>1, <2>2, <2>3, ContentsSame
  <2>5. QED
    BY <2>1, <2>4 DEF Queue!vars
<1>5. CASE ProducePublish
  BY <1>5, PublishPuts DEF Queue!Next
<1>6. ASSUME NEW p, ConsumeRefuse(p) \/ ConsumeBegin(p)
      PROVE  UNCHANGED Queue!vars
  BY <1>2, <1>6 DEF ConsumeRefuse, ConsumeBegin, producerVars
<1>7. ASSUME NEW w \in Words, ConsumeWord(w) PROVE UNCHANGED Queue!vars
  BY <1>2, <1>7 DEF ConsumeWord, producerVars
<1>8. CASE ConsumePublish
  BY <1>8, PublishTakes DEF Queue!Next
<1>9. CASE UNCHANGED vars
  BY <1>2, <1>9 DEF vars, producerVars, consumerVars
<1>10. QED
  BY <1>3, <1>4, <1>5, <1>6, <1>7, <1>8, <1>9 DEF Next, Produce, Consume

\* The detailed ring implements the atomic bounded queue.
THEOREM Refinement == Spec => ImplementsQueue
  BY QueueInit, QueueStep, RingInvariant, PTL
     DEF Spec, ImplementsQueue, Queue!Spec

-----------------------------------------------------------------------------
\* The caller drops a reservation: a step ParallelQueue does not have.
Abandon == ProduceAbandon \/ ConsumeAbandon

\* A cached offset is one that a load could have returned.
LEMMA CachedIsVisible ==
  ASSUME TypeOK
  PROVE  /\ ConsumerLoads \subseteq Visible(seen_consumer, consumer_offset)
         /\ ProducerLoads \subseteq Visible(seen_producer, producer_offset)
<1>1. ASSUME NEW seen \in Offset, NEW now \in Offset
      PROVE  seen \in Visible(seen, now)
  <2>1. Ahead(seen, now) \in Nat /\ 0 \in 0 .. Ahead(seen, now)
    BY <1>1, AheadRange DEF Offset
  <2>2. Plus(seen, 0) = seen
    BY <1>1, Sizes DEF Plus, Offset
  <2>3. QED
    BY <2>1, <2>2 DEF Visible
<1>2. QED
  BY <1>1 DEF TypeOK, ConsumerLoads, ProducerLoads

\* A step of the cached ring is a step of the ring or drops a reservation.
LEMMA StepIsRingStep ==
  ASSUME TypeOK, [CachedNext]_vars
  PROVE  [Next]_vars \/ Abandon
<1>1. CASE CachedProduce
  BY <1>1, CachedIsVisible DEF CachedProduce, Next, Produce, Abandon
<1>2. CASE CachedConsume
  BY <1>2, CachedIsVisible DEF CachedConsume, Next, Consume, Abandon
<1>3. QED
  BY <1>1, <1>2 DEF CachedNext

\* Dropping a reservation touches neither a slot nor an offset.
LEMMA AbandonStep == IInv /\ Abandon => IInv'
<1> SUFFICES ASSUME IInv, Abandon PROVE IInv'
  OBVIOUS
<1>1. /\ UNCHANGED <<buffer, producer_offset, consumer_offset, seen_consumer,
                     seen_producer, item, stored, out, fetched, delivered>>
      /\ producing' \in {producing, FALSE}
      /\ consuming' \in {consuming, FALSE}
  <2>1. CASE ProduceAbandon
    BY <2>1 DEF ProduceAbandon, consumerVars
  <2>2. CASE ConsumeAbandon
    BY <2>2 DEF ConsumeAbandon, producerVars
  <2>3. QED
    BY <2>1, <2>2 DEF Abandon
<1>2. TypeOK'
  BY <1>1 DEF IInv, TypeOK
<1>3. (producing' => producing) /\ (consuming' => consuming)
  <2>1. CASE ProduceAbandon
    <3>1. producing' = FALSE /\ consuming' = consuming
      BY <2>1 DEF ProduceAbandon, consumerVars
    <3>2. QED
      BY <3>1
  <2>2. CASE ConsumeAbandon
    <3>1. consuming' = FALSE /\ producing' = producing
      BY <2>2 DEF ConsumeAbandon, producerVars
    <3>2. QED
      BY <3>1
  <2>3. QED
    BY <2>1, <2>2 DEF Abandon
<1>4. Used' = Used
  BY <1>1 DEF Used
<1>5. CursorsOK'
  BY <1>1, <1>3, <1>4 DEF IInv, CursorsOK
<1>6. DataOK'
  BY <1>1, <1>3, <1>4 DEF IInv, DataOK
<1>7. QED
  BY <1>2, <1>5, <1>6 DEF IInv

\* The inductive invariant of the ring is one of the cached ring.
LEMMA CachedStep == IInv /\ [CachedNext]_vars => IInv'
<1> SUFFICES ASSUME IInv, [CachedNext]_vars PROVE IInv'
  OBVIOUS
<1>1. [Next]_vars \/ Abandon
  BY StepIsRingStep DEF IInv
<1>2. CASE [Next]_vars
  BY <1>2, TypeStep, CursorStep, DataStep DEF IInv
<1>3. QED
  BY <1>1, <1>2, AbandonStep

LEMMA CachedInvariant == CachedSpec => []IInv
  BY InvInit, CachedStep, PTL DEF CachedSpec

\* However old the cached offsets, no published item is damaged and the two
\* sides never meet in a slot.
THEOREM CachedSafe == CachedSpec => []CachesAreSafe
<1>1. IInv => CachesAreSafe
  BY InvRaceFree DEF CachesAreSafe
<1>2. QED
  BY <1>1, CachedInvariant, PTL

\* A dropped reservation is no step of the queue.
LEMMA AbandonStutters == IInv /\ Abandon => UNCHANGED Queue!vars
<1> SUFFICES ASSUME IInv, Abandon PROVE UNCHANGED Queue!vars
  OBVIOUS
<1>1. UNCHANGED <<buffer, producer_offset, consumer_offset, delivered>>
  BY DEF Abandon, ProduceAbandon, ConsumeAbandon, producerVars, consumerVars
<1>2. Used' = Used /\ Contents' = Contents
  BY <1>1 DEF Used, Contents
<1>3. QED
  BY <1>1, <1>2 DEF Queue!vars

\* The cached ring implements the atomic bounded queue.
THEOREM CachedRefinement == CachedSpec => CachedImplementsQueue
<1>1. IInv /\ [CachedNext]_vars => [Queue!Next]_(Queue!vars)
  <2> SUFFICES ASSUME IInv, [CachedNext]_vars
               PROVE  [Queue!Next]_(Queue!vars)
    OBVIOUS
  <2>1. [Next]_vars \/ Abandon
    BY StepIsRingStep DEF IInv
  <2>2. QED
    BY <2>1, QueueStep, AbandonStutters
<1>2. QED
  BY <1>1, QueueInit, CachedInvariant, PTL
     DEF CachedSpec, CachedImplementsQueue, ImplementsQueue, Queue!Spec
=============================================================================
