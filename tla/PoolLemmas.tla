------------------------------ MODULE PoolLemmas -------------------------------
(***************************************************************************)
(* What the proofs about the thread pool and its clients share.  First the *)
(* circular buffer: pushing appends to its elements and popping takes the  *)
(* first away.  Then the elements of a sequence, and counting.             *)
(***************************************************************************)
EXTENDS ThreadPool, SequenceTheorems, FiniteSetTheorems, TLAPS

-----------------------------------------------------------------------------
\* The circular buffer.

LEMMA CapacityIs == QueueCapacity \in Nat /\ QueueCapacity > 0
BY QueueCapacityAssumption

\* An index that has gone past the end comes back by one capacity.
LEMMA Reduced ==
  ASSUME NEW sum \in Nat, sum < QueueCapacity + QueueCapacity
  PROVE  /\ sum < QueueCapacity => sum % QueueCapacity = sum
         /\ ~(sum < QueueCapacity) => sum % QueueCapacity = sum - QueueCapacity
         /\ sum % QueueCapacity \in 0 .. QueueCapacity - 1
<1>1. /\ sum < QueueCapacity => sum % QueueCapacity = sum
      /\ ~(sum < QueueCapacity) => sum % QueueCapacity = sum - QueueCapacity
  BY CapacityIs
<1>2. sum % QueueCapacity \in 0 .. QueueCapacity - 1
  BY <1>1, CapacityIs
<1>3. QED
  BY <1>1, <1>2

LEMMA Wraps ==
  ASSUME NEW a \in 0 .. QueueCapacity - 1, NEW d \in 0 .. QueueCapacity
  PROVE  /\ (a + d) % QueueCapacity
              = IF a + d < QueueCapacity THEN a + d ELSE (a + d) - QueueCapacity
         /\ (a + d) % QueueCapacity \in 0 .. QueueCapacity - 1
<1>1. a + d \in Nat /\ a + d < QueueCapacity + QueueCapacity
  BY CapacityIs
<1>2. /\ a + d < QueueCapacity => (a + d) % QueueCapacity = a + d
      /\ ~(a + d < QueueCapacity) =>
           (a + d) % QueueCapacity = (a + d) - QueueCapacity
      /\ (a + d) % QueueCapacity \in 0 .. QueueCapacity - 1
  BY <1>1, Reduced, Zenon
<1>3. QED
  BY <1>2, Zenon

LEMMA Stays ==
  ASSUME NEW a \in 0 .. QueueCapacity - 1
  PROVE  a % QueueCapacity = a
BY CapacityIs

\* The next index.
LEMMA AdvanceIs ==
  ASSUME NEW a \in 0 .. QueueCapacity - 1
  PROVE  /\ Advance(a) \in 0 .. QueueCapacity - 1
         /\ Advance(a) = IF a + 1 < QueueCapacity THEN a + 1 ELSE 0
<1>1. 1 \in 0 .. QueueCapacity
  BY CapacityIs
<1>2. QED
  BY <1>1, Wraps, CapacityIs DEF Advance

\* What is d after the next index is d + 1 after this one.
LEMMA AdvanceThen ==
  ASSUME NEW a \in 0 .. QueueCapacity - 1, NEW d \in 0 .. QueueCapacity - 1
  PROVE  (Advance(a) + d) % QueueCapacity = (a + (d + 1)) % QueueCapacity
<1>1. d \in 0 .. QueueCapacity /\ d + 1 \in 0 .. QueueCapacity
  BY CapacityIs
<1>2. Advance(a) \in 0 .. QueueCapacity - 1
  BY AdvanceIs
<1> DEFINE left  == (Advance(a) + d) % QueueCapacity
           right == (a + (d + 1)) % QueueCapacity
<1>3. left = IF Advance(a) + d < QueueCapacity THEN Advance(a) + d
             ELSE (Advance(a) + d) - QueueCapacity
  BY <1>1, <1>2, Wraps
<1>4. right = IF a + (d + 1) < QueueCapacity THEN a + (d + 1)
              ELSE (a + (d + 1)) - QueueCapacity
  BY <1>1, Wraps
<1> HIDE DEF left, right
<1>5. left = right
  BY <1>1, <1>2, <1>3, <1>4, AdvanceIs, CapacityIs
<1>6. QED
  BY <1>5 DEF left, right

\* The fields of a ring.
LEMMA RingFields ==
  ASSUME NEW q \in RingOf(Task)
  PROVE  /\ q.buffer \in [0 .. QueueCapacity - 1 -> Task \cup {Zero}]
         /\ q.size \in 0 .. QueueCapacity
         /\ q.head \in 0 .. QueueCapacity - 1
         /\ q.tail \in 0 .. QueueCapacity - 1
         /\ q.size \in Nat /\ q.head \in Nat /\ q.tail \in Nat
BY CapacityIs DEF RingOf

\* Sequences as functions.
LEMMA AppendIs ==
  ASSUME NEW s \in Seq(Task), NEW t \in Task
  PROVE  Append(s, t) = [k \in 1 .. Len(s) + 1 |-> IF k <= Len(s) THEN s[k] ELSE t]
<1> DEFINE a == Append(s, t)
<1>1. /\ a \in Seq(Task) /\ Len(a) = Len(s) + 1 /\ Len(s) \in Nat
      /\ \A k \in 1 .. Len(s) : a[k] = s[k]
      /\ a[Len(s) + 1] = t
  BY AppendProperties, LenProperties
<1> HIDE DEF a
<1>2. a = [k \in 1 .. Len(s) + 1 |-> a[k]]
  BY <1>1, LenProperties
<1>3. \A k \in 1 .. Len(s) + 1 : a[k] = IF k <= Len(s) THEN s[k] ELSE t
  BY <1>1
<1>4. QED
  BY <1>2, <1>3 DEF a

LEMMA TailIs ==
  ASSUME NEW s \in Seq(Task), s # <<>>
  PROVE  Tail(s) = [k \in 1 .. Len(s) - 1 |-> s[k + 1]]
<1> DEFINE a == Tail(s)
<1>1. /\ a \in Seq(Task) /\ Len(a) = Len(s) - 1
      /\ \A k \in 1 .. Len(a) : a[k] = s[k + 1]
  BY HeadTailProperties
<1> HIDE DEF a
<1>2. a = [k \in 1 .. Len(s) - 1 |-> a[k]]
  BY <1>1, LenProperties
<1>3. QED
  BY <1>1, <1>2 DEF a

\* How far the elements reach is how large the ring is.
LEMMA ElementsLen ==
  ASSUME NEW q \in RingOf(Task), Elements(q) \in Seq(Task)
  PROVE  Len(Elements(q)) = q.size /\ DOMAIN Elements(q) = 1 .. q.size
BY RingFields DEF Elements

\* The slot the head points to holds none of the elements.
LEMMA HeadIsFree ==
  ASSUME NEW q \in RingOf(Task), RingSound(q), ~FullRing(q), NEW k \in 1 .. q.size
  PROVE  (q.tail + k - 1) % QueueCapacity \in (0 .. QueueCapacity - 1) \ {q.head}
<1>1. /\ q.size \in Nat /\ q.size < QueueCapacity
      /\ q.head \in Nat /\ q.tail \in 0 .. QueueCapacity - 1
  BY RingFields, CapacityIs DEF FullRing
<1>2. k - 1 \in 0 .. QueueCapacity /\ q.size \in 0 .. QueueCapacity
  BY <1>1, CapacityIs
<1>3. q.tail + k - 1 = q.tail + (k - 1)
  BY <1>1
<1> DEFINE slot == (q.tail + (k - 1)) % QueueCapacity
<1>4. /\ slot = IF q.tail + (k - 1) < QueueCapacity THEN q.tail + (k - 1)
                ELSE (q.tail + (k - 1)) - QueueCapacity
      /\ slot \in 0 .. QueueCapacity - 1
  BY <1>1, <1>2, Wraps
<1>5. q.head = IF q.tail + q.size < QueueCapacity THEN q.tail + q.size
               ELSE (q.tail + q.size) - QueueCapacity
  BY <1>1, <1>2, Wraps DEF RingSound
<1> HIDE DEF slot
<1>6. slot # q.head
  BY <1>1, <1>4, <1>5, CapacityIs
<1>7. QED
  BY <1>3, <1>4, <1>6 DEF slot

\* A push appends.
LEMMA PushAppends ==
  ASSUME NEW q \in RingOf(Task), RingSound(q), ~FullRing(q),
         Elements(q) \in Seq(Task), NEW t \in Task
  PROVE  /\ Push(q, t) \in RingOf(Task) /\ RingSound(Push(q, t))
         /\ Elements(Push(q, t)) = Append(Elements(q), t)
         /\ Push(q, t).size = q.size + 1
<1> DEFINE p == Push(q, t)
<1>1. /\ q.size \in Nat /\ q.size < QueueCapacity
      /\ q.head \in 0 .. QueueCapacity - 1 /\ q.tail \in 0 .. QueueCapacity - 1
      /\ q.buffer \in [0 .. QueueCapacity - 1 -> Task \cup {Zero}]
  BY RingFields, CapacityIs DEF FullRing
<1>2. /\ p.buffer = [q.buffer EXCEPT ![q.head] = t]
      /\ p.head = Advance(q.head) /\ p.size = q.size + 1 /\ p.tail = q.tail
  BY DEF Push
<1>3. p \in RingOf(Task)
  <2>1. [q.buffer EXCEPT ![q.head] = t]
          \in [0 .. QueueCapacity - 1 -> Task \cup {Zero}]
    BY <1>1
  <2>2. q.size + 1 \in 0 .. QueueCapacity
    BY <1>1, CapacityIs
  <2>3. Advance(q.head) \in 0 .. QueueCapacity - 1
    BY <1>1, AdvanceIs
  <2>4. QED
    BY <1>1, <2>1, <2>2, <2>3 DEF Push, RingOf
<1>4. RingSound(p)
  <2>1. q.size \in 0 .. QueueCapacity - 1
    BY <1>1, CapacityIs
  <2>2. (q.tail + q.size) % QueueCapacity = q.head
    BY DEF RingSound
  <2>3. Advance(q.head) = (q.tail + (q.size + 1)) % QueueCapacity
    <3>1. q.size \in 0 .. QueueCapacity /\ q.size + 1 \in 0 .. QueueCapacity
      BY <1>1, CapacityIs
    <3> DEFINE right == (q.tail + (q.size + 1)) % QueueCapacity
    <3>2. q.head = IF q.tail + q.size < QueueCapacity THEN q.tail + q.size
                   ELSE (q.tail + q.size) - QueueCapacity
      BY <1>1, <2>2, <3>1, Wraps
    <3>3. right = IF q.tail + (q.size + 1) < QueueCapacity
                    THEN q.tail + (q.size + 1)
                    ELSE (q.tail + (q.size + 1)) - QueueCapacity
      BY <1>1, <3>1, Wraps
    <3>4. Advance(q.head) = IF q.head + 1 < QueueCapacity THEN q.head + 1 ELSE 0
      BY <1>1, AdvanceIs
    <3> DEFINE next == Advance(q.head)
               tail == q.tail
               head == q.head
               size == q.size
    <3>5. /\ tail \in 0 .. QueueCapacity - 1 /\ head \in 0 .. QueueCapacity - 1
          /\ size \in Nat /\ size < QueueCapacity
      BY <1>1
    <3> HIDE DEF right, next, tail, head, size
    <3>6. next = right
      <4>1. head = IF tail + size < QueueCapacity THEN tail + size
                   ELSE (tail + size) - QueueCapacity
        BY <3>2 DEF head, tail, size
      <4>2. right = IF tail + (size + 1) < QueueCapacity THEN tail + (size + 1)
                    ELSE (tail + (size + 1)) - QueueCapacity
        BY <3>3 DEF tail, size
      <4>3. next = IF head + 1 < QueueCapacity THEN head + 1 ELSE 0
        BY <3>4 DEF next, head
      <4>4. QED
        BY <3>5, <4>1, <4>2, <4>3, CapacityIs
    <3>7. QED
      BY <3>6 DEF right, next
  <2>4. QED
    BY <1>2, <2>3 DEF RingSound
<1>5. Elements(p) = Append(Elements(q), t)
  <2>1. Elements(p) = [k \in 1 .. q.size + 1 |->
                         p.buffer[(q.tail + k - 1) % QueueCapacity]]
    BY <1>2 DEF Elements
  <2>2. Append(Elements(q), t) = [k \in 1 .. q.size + 1 |->
                                    IF k <= q.size THEN Elements(q)[k] ELSE t]
    BY <1>1, ElementsLen, AppendIs
  <2>3. ASSUME NEW k \in 1 .. q.size + 1
        PROVE  p.buffer[(q.tail + k - 1) % QueueCapacity]
                 = IF k <= q.size THEN Elements(q)[k] ELSE t
    <3> DEFINE slot == (q.tail + k - 1) % QueueCapacity
    <3>1. CASE k <= q.size
      <4>1. k \in 1 .. q.size
        BY <1>1, <3>1
      <4>2. slot \in (0 .. QueueCapacity - 1) \ {q.head}
        BY <4>1, HeadIsFree
      <4>3. Elements(q)[k] = q.buffer[slot]
        BY <4>1 DEF Elements
      <4> HIDE DEF slot
      <4>4. p.buffer[slot] = q.buffer[slot]
        BY <1>1, <1>2, <4>2
      <4>5. QED
        BY <3>1, <4>3, <4>4 DEF slot
    <3>2. CASE k = q.size + 1
      <4>1. q.tail + k - 1 = q.tail + q.size
        BY <1>1, <3>2
      <4>2. slot = q.head
        BY <4>1 DEF RingSound
      <4>3. p.buffer[q.head] = t
        BY <1>1, <1>2
      <4>4. ~(k <= q.size)
        BY <1>1, <3>2
      <4>5. QED
        BY <4>2, <4>3, <4>4
    <3>3. QED
      BY <1>1, <3>1, <3>2
  <2>4. QED
    BY <2>1, <2>2, <2>3
<1>6. QED
  BY <1>2, <1>3, <1>4, <1>5

\* A pop takes the first element away, which is the one at the front.
LEMMA PopTakesFirst ==
  ASSUME NEW q \in RingOf(Task), RingSound(q), ~EmptyRing(q),
         Elements(q) \in Seq(Task)
  PROVE  /\ Pop(q) \in RingOf(Task) /\ RingSound(Pop(q))
         /\ Elements(q) # <<>> /\ Front(q) = Head(Elements(q))
         /\ Elements(Pop(q)) = Tail(Elements(q))
         /\ Pop(q).size = q.size - 1
<1> DEFINE p == Pop(q)
<1>1. /\ q.size \in Nat /\ 0 < q.size /\ q.size <= QueueCapacity
      /\ q.head \in 0 .. QueueCapacity - 1 /\ q.tail \in 0 .. QueueCapacity - 1
      /\ q.buffer \in [0 .. QueueCapacity - 1 -> Task \cup {Zero}]
  BY RingFields, CapacityIs DEF EmptyRing
<1>2. /\ p.buffer = q.buffer /\ p.head = q.head
      /\ p.size = q.size - 1 /\ p.tail = Advance(q.tail)
  BY DEF Pop
<1>3. p \in RingOf(Task)
  <2>1. q.size - 1 \in 0 .. QueueCapacity
    <3>1. \A n \in Nat : 0 < n /\ n <= QueueCapacity => n - 1 \in 0 .. QueueCapacity
      BY CapacityIs
    <3>2. QED
      BY <1>1, <3>1
  <2>2. Advance(q.tail) \in 0 .. QueueCapacity - 1
    BY <1>1, AdvanceIs
  <2>3. QED
    BY <1>1, <2>1, <2>2 DEF Pop, RingOf
<1>4. RingSound(p)
  <2>1. q.size - 1 \in 0 .. QueueCapacity - 1 /\ (q.size - 1) + 1 = q.size
    BY <1>1, CapacityIs
  <2>2. (Advance(q.tail) + (q.size - 1)) % QueueCapacity
          = (q.tail + ((q.size - 1) + 1)) % QueueCapacity
    BY <1>1, <2>1, AdvanceThen
  <2>3. QED
    BY <1>2, <2>1, <2>2 DEF RingSound
<1>5. Elements(q) # <<>> /\ Head(Elements(q)) = Elements(q)[1]
  BY <1>1, ElementsLen
<1>6. Front(q) = Elements(q)[1]
  <2>1. q.tail + 1 - 1 = q.tail
    BY <1>1, CapacityIs
  <2>2. q.tail % QueueCapacity = q.tail
    BY <1>1, Stays
  <2>3. 1 \in 1 .. q.size
    BY <1>1
  <2>4. Elements(q)[1] = q.buffer[(q.tail + 1 - 1) % QueueCapacity]
    BY <2>3 DEF Elements
  <2>5. QED
    BY <2>1, <2>2, <2>4 DEF Front
<1>7. Elements(p) = Tail(Elements(q))
  <2>1. Elements(p) = [k \in 1 .. q.size - 1 |->
                         q.buffer[(Advance(q.tail) + k - 1) % QueueCapacity]]
    BY <1>2 DEF Elements
  <2>2. Tail(Elements(q)) = [k \in 1 .. q.size - 1 |-> Elements(q)[k + 1]]
    BY <1>1, <1>5, ElementsLen, TailIs
  <2>3. ASSUME NEW k \in 1 .. q.size - 1
        PROVE  q.buffer[(Advance(q.tail) + k - 1) % QueueCapacity]
                 = Elements(q)[k + 1]
    <3>1. /\ k - 1 \in 0 .. QueueCapacity - 1 /\ k + 1 \in 1 .. q.size
          /\ Advance(q.tail) \in Int
      <4>1. Advance(q.tail) \in 0 .. QueueCapacity - 1
        BY <1>1, AdvanceIs
      <4>2. QED
        BY <1>1, <4>1, CapacityIs
    <3>2. /\ Advance(q.tail) + k - 1 = Advance(q.tail) + (k - 1)
          /\ q.tail + (k + 1) - 1 = q.tail + ((k - 1) + 1)
      BY <1>1, <3>1
    <3>3. Elements(q)[k + 1] = q.buffer[(q.tail + (k + 1) - 1) % QueueCapacity]
      BY <3>1 DEF Elements
    <3>4. (Advance(q.tail) + (k - 1)) % QueueCapacity
            = (q.tail + ((k - 1) + 1)) % QueueCapacity
      BY <1>1, <3>1, AdvanceThen
    <3>5. QED
      BY <3>2, <3>3, <3>4
  <2>4. QED
    BY <2>1, <2>2, <2>3
<1>8. QED
  BY <1>2, <1>3, <1>4, <1>5, <1>6, <1>7

-----------------------------------------------------------------------------
\* What a sequence holds, and holds once.

Held(s)     == {s[i] : i \in DOMAIN s}
Distinct(s) == \A i, k \in DOMAIN s : s[i] = s[k] => i = k

LEMMA AppendHolds ==
  ASSUME NEW s \in Seq(Task), NEW t \in Task, Distinct(s), t \notin Held(s)
  PROVE  Held(Append(s, t)) = Held(s) \cup {t} /\ Distinct(Append(s, t))
<1> DEFINE a == Append(s, t)
<1>1. /\ DOMAIN s = 1 .. Len(s) /\ Len(s) \in Nat
      /\ DOMAIN a = 1 .. Len(s) + 1
      /\ \A i \in 1 .. Len(s) : a[i] = s[i]
      /\ a[Len(s) + 1] = t
  BY AppendProperties, LenProperties
<1> HIDE DEF a
<1>2. Held(a) = Held(s) \cup {t}
  BY <1>1 DEF Held
<1>3. ASSUME NEW i \in DOMAIN a, NEW k \in DOMAIN a, a[i] = a[k]
      PROVE  i = k
  <2>1. CASE i \in 1 .. Len(s) /\ k \in 1 .. Len(s)
    BY <1>1, <1>3, <2>1 DEF Distinct
  <2>2. CASE i \in 1 .. Len(s) /\ k = Len(s) + 1
    BY <1>1, <1>3, <2>2 DEF Held
  <2>3. CASE i = Len(s) + 1 /\ k \in 1 .. Len(s)
    BY <1>1, <1>3, <2>3 DEF Held
  <2>4. QED
    BY <1>1, <2>1, <2>2, <2>3
<1>4. QED
  BY <1>2, <1>3 DEF a, Distinct

LEMMA TailHolds ==
  ASSUME NEW s \in Seq(Task), s # <<>>, Distinct(s)
  PROVE  /\ Head(s) \in Held(s) /\ Head(s) \in Task
         /\ Held(Tail(s)) = Held(s) \ {Head(s)} /\ Distinct(Tail(s))
<1> DEFINE a == Tail(s)
<1>1. /\ DOMAIN s = 1 .. Len(s) /\ Len(s) \in Nat /\ Len(s) > 0
      /\ DOMAIN a = 1 .. Len(s) - 1
      /\ \A i \in 1 .. Len(s) - 1 : a[i] = s[i + 1]
      /\ Head(s) = s[1] /\ Head(s) \in Task
  BY HeadTailProperties, LenProperties, EmptySeq
<1> HIDE DEF a
<1>2. Head(s) \in Held(s)
  BY <1>1 DEF Held
<1>3. ASSUME NEW e \in Held(a)
      PROVE  e \in Held(s) /\ e # Head(s)
  <2>1. PICK i \in 1 .. Len(s) - 1 : e = s[i + 1]
    BY <1>1, <1>3 DEF Held
  <2>2. i + 1 \in 1 .. Len(s) /\ i + 1 # 1 /\ 1 \in 1 .. Len(s)
    BY <1>1
  <2>3. QED
    BY <1>1, <2>1, <2>2 DEF Held, Distinct
<1>4. ASSUME NEW e \in Held(s), e # Head(s)
      PROVE  e \in Held(a)
  <2>1. PICK i \in 1 .. Len(s) : e = s[i]
    BY <1>1, <1>4 DEF Held
  <2>2. i - 1 \in 1 .. Len(s) - 1 /\ (i - 1) + 1 = i
    BY <1>1, <1>4, <2>1
  <2>3. QED
    BY <1>1, <2>1, <2>2 DEF Held
<1>5. ASSUME NEW i \in DOMAIN a, NEW k \in DOMAIN a, a[i] = a[k]
      PROVE  i = k
  <2>1. i + 1 \in DOMAIN s /\ k + 1 \in DOMAIN s /\ i \in Int /\ k \in Int
    BY <1>1
  <2>2. i + 1 = k + 1
    BY <1>1, <1>5, <2>1 DEF Distinct
  <2>3. QED
    BY <2>1, <2>2
<1>6. QED
  BY <1>1, <1>2, <1>3, <1>4, <1>5 DEF a, Distinct

-----------------------------------------------------------------------------
\* One more, one less.
LEMMA OneMore ==
  ASSUME NEW S, IsFiniteSet(S), NEW e, e \notin S
  PROVE  Cardinality(S \cup {e}) = Cardinality(S) + 1
BY FS_AddElement

LEMMA OneLess ==
  ASSUME NEW S, IsFiniteSet(S), NEW e \in S
  PROVE  Cardinality(S \ {e}) = Cardinality(S) - 1
BY FS_RemoveElement

\* A sequence that holds nothing twice holds as many things as it is long.
LEMMA HeldCount ==
  ASSUME NEW s \in Seq(Task), Distinct(s)
  PROVE  IsFiniteSet(Held(s)) /\ Cardinality(Held(s)) = Len(s)
<1>1. DOMAIN s = 1 .. Len(s) /\ Len(s) \in Nat
  BY LenProperties
<1> DEFINE f == [n \in 1 .. Len(s) |-> s[n]]
<1>2. f \in Bijection(1 .. Len(s), Held(s))
  <2>1. f \in [1 .. Len(s) -> Held(s)]
    BY <1>1 DEF Held
  <2>2. \A n, k \in 1 .. Len(s) : f[n] = f[k] => n = k
    BY <1>1 DEF Distinct
  <2>3. \A e \in Held(s) : \E n \in 1 .. Len(s) : f[n] = e
    BY <1>1 DEF Held
  <2>4. QED
    BY <2>1, <2>2, <2>3 DEF Bijection, Injection, Surjection, IsInjective
<1>3. IsFiniteSet(1 .. Len(s)) /\ Cardinality(1 .. Len(s)) = Len(s)
  BY <1>1, FS_Interval
<1> HIDE DEF f
<1>4. ExistsBijection(1 .. Len(s), Held(s))
  BY <1>2 DEF ExistsBijection
<1>5. QED
  BY <1>3, <1>4, FS_Bijection

-----------------------------------------------------------------------------
\* The steps of the pool.

\* The circular buffer is sound and holds no task twice, and the workers that
\* run are those that have a task.
PoolSound ==
  /\ PoolTypeOK /\ RingSound(ring)
  /\ Elements(ring) \in Seq(Task) /\ Distinct(Elements(ring))
  /\ \A w \in Worker : worker[w] = "running" <=> job[w] # Zero

LEMMA InitSound ==
  ASSUME PoolInit
  PROVE  PoolSound /\ Held(Elements(ring)) = {}
<1> USE DEF PoolInit
<1>1. ring \in RingOf(Task) /\ ring.size = 0 /\ ring.head = 0 /\ ring.tail = 0
  BY CapacityIs DEF InitRing, RingOf
<1>2. RingSound(ring)
  BY <1>1, CapacityIs, Stays DEF RingSound
<1>3. Elements(ring) = <<>>
  BY <1>1 DEF Elements
<1>4. /\ Elements(ring) \in Seq(Task) /\ Distinct(Elements(ring))
      /\ Held(Elements(ring)) = {}
  BY <1>3 DEF Distinct, Held
<1>5. PoolTypeOK /\ \A w \in Worker : worker[w] = "running" <=> job[w] # Zero
  BY <1>1 DEF PoolTypeOK, WorkerState
<1>6. QED
  BY <1>2, <1>4, <1>5 DEF PoolSound

\* An enqueue adds a task that was not in the queue.
LEMMA EnqueueAdds ==
  ASSUME PoolSound, NEW t \in Task, t \notin Held(Elements(ring)), Enqueue(t)
  PROVE  /\ PoolSound' /\ UNCHANGED job
         /\ Held(Elements(ring))' = Held(Elements(ring)) \cup {t}
<1>1. /\ ~FullRing(ring) /\ ring' = Push(ring, t)
      /\ UNCHANGED <<stop, worker, job>>
  BY DEF Enqueue
<1>2. /\ ring' \in RingOf(Task) /\ RingSound(ring')
      /\ Elements(ring') = Append(Elements(ring), t)
  BY <1>1, PushAppends DEF PoolSound, PoolTypeOK
<1>3. Elements(ring') \in Seq(Task)
  BY <1>2, AppendProperties DEF PoolSound
<1>4. /\ Held(Elements(ring')) = Held(Elements(ring)) \cup {t}
      /\ Distinct(Elements(ring'))
  BY <1>2, AppendHolds DEF PoolSound
<1>5. PoolSound'
  BY <1>1, <1>2, <1>3, <1>4 DEF PoolSound, PoolTypeOK, RingSound, Distinct, Elements
<1>6. Held(Elements(ring))' = Held(Elements(ring'))
  BY DEF Held, Elements
<1>7. QED
  BY <1>1, <1>4, <1>5, <1>6

\* A worker that takes a task takes it out of the queue.
LEMMA TakeMoves ==
  ASSUME PoolSound, Zero \notin Task, NEW w \in Worker, Take(w)
  PROVE  /\ PoolSound' /\ job[w] = Zero
         /\ \E t \in Held(Elements(ring)) :
              /\ t \in Task /\ job' = [job EXCEPT ![w] = t]
              /\ Held(Elements(ring))' = Held(Elements(ring)) \ {t}
<1>1. /\ worker[w] = "locking" /\ ~EmptyRing(ring) /\ ring' = Pop(ring)
      /\ job' = [job EXCEPT ![w] = Front(ring)]
      /\ worker' = [worker EXCEPT ![w] = "running"] /\ stop' = stop
  BY DEF Take
<1>2. /\ ring' \in RingOf(Task) /\ RingSound(ring')
      /\ Elements(ring) # <<>> /\ Front(ring) = Head(Elements(ring))
      /\ Elements(ring') = Tail(Elements(ring))
  BY <1>1, PopTakesFirst DEF PoolSound, PoolTypeOK
<1> DEFINE t == Head(Elements(ring))
<1>3. /\ t \in Held(Elements(ring)) /\ t \in Task
      /\ Held(Elements(ring')) = Held(Elements(ring)) \ {t}
      /\ Distinct(Elements(ring'))
  BY <1>2, TailHolds DEF PoolSound
<1>4. Elements(ring') \in Seq(Task)
  BY <1>2, HeadTailProperties DEF PoolSound
<1>5. job' = [job EXCEPT ![w] = t]
  BY <1>1, <1>2
<1> HIDE DEF t
<1>6. \A v \in Worker : (worker[v] = "running" <=> job[v] # Zero)'
  BY <1>1, <1>3, <1>5 DEF PoolSound, PoolTypeOK
<1>7. PoolTypeOK'
  BY <1>1, <1>2, <1>3, <1>5 DEF PoolSound, PoolTypeOK, WorkerState
<1>8. PoolSound'
  BY <1>2, <1>3, <1>4, <1>6, <1>7 DEF PoolSound, RingSound, Distinct, Elements
<1>9. Held(Elements(ring))' = Held(Elements(ring'))
  BY DEF Held, Elements
<1>10. job[w] = Zero
  BY <1>1 DEF PoolSound
<1>11. QED
  BY <1>3, <1>5, <1>8, <1>9, <1>10

\* A task that has returned is in nobody's hands.
LEMMA ReturnFrees ==
  ASSUME PoolSound, NEW w \in Worker, Return(w)
  PROVE  /\ PoolSound' /\ UNCHANGED ring
         /\ job[w] # Zero /\ job' = [job EXCEPT ![w] = Zero]
<1>1. /\ worker[w] = "running" /\ worker' = [worker EXCEPT ![w] = "locking"]
      /\ job' = [job EXCEPT ![w] = Zero] /\ UNCHANGED <<ring, stop>>
  BY DEF Return
<1>2. PoolTypeOK' /\ \A v \in Worker : (worker[v] = "running" <=> job[v] # Zero)'
  BY <1>1 DEF PoolSound, PoolTypeOK, WorkerState
<1>3. PoolSound'
  BY <1>1, <1>2 DEF PoolSound, RingSound, Distinct, Elements
<1>4. QED
  BY <1>1, <1>3 DEF PoolSound

\* The other steps move no task.
LEMMA RestKeeps ==
  ASSUME PoolSound,
         \/ \E w \in Worker : Sleep(w) \/ Exit(w) \/ WakeSpuriously(w)
         \/ EnqueueRefused \/ SignalOne \/ SignalAll \/ SetStop
         \/ UNCHANGED poolVars
  PROVE  PoolSound' /\ UNCHANGED <<ring, job>>
<1>1. UNCHANGED <<ring, job>>
  BY DEF Sleep, Exit, WakeSpuriously, EnqueueRefused, SignalOne, SignalAll,
         SetStop, poolVars
<1>2. /\ worker' \in [Worker -> WorkerState] /\ stop' \in BOOLEAN
      /\ \A v \in Worker : worker'[v] = "running" <=> worker[v] = "running"
  <2> USE DEF PoolSound, PoolTypeOK, WorkerState
  <2>1. CASE \E w \in Worker : Sleep(w) \/ Exit(w) \/ WakeSpuriously(w)
    BY <2>1 DEF Sleep, Exit, WakeSpuriously
  <2>2. CASE EnqueueRefused \/ UNCHANGED poolVars
    BY <2>2 DEF EnqueueRefused, poolVars
  <2>3. CASE SignalOne
    BY <2>3 DEF SignalOne, Asleep
  <2>4. CASE SignalAll
    BY <2>4 DEF SignalAll
  <2>5. CASE SetStop
    BY <2>5 DEF SetStop
  <2>6. QED
    BY <2>1, <2>2, <2>3, <2>4, <2>5
<1>3. PoolTypeOK' /\ \A v \in Worker : (worker[v] = "running" <=> job[v] # Zero)'
  BY <1>1, <1>2 DEF PoolSound, PoolTypeOK
<1>4. PoolSound'
  BY <1>1, <1>3 DEF PoolSound, RingSound, Distinct, Elements
<1>5. QED
  BY <1>1, <1>4
=============================================================================
