-------------------------- MODULE EntityDrawsProofs ---------------------------
(***************************************************************************)
(* Proofs about the order of drawing, for any number of entities, any      *)
(* depths, columns and walls.                                              *)
(*                                                                         *)
(* The sort loses no entity, never indexes outside the array and keeps its *)
(* stack shallow whatever the comparison returns.  As long as all depths   *)
(* are numbers, what it leaves is in order, and so the entity a column     *)
(* shows is the nearest there; that no wall hides an entity in front of it *)
(* holds without an order.                                                 *)
(***************************************************************************)
EXTENDS Scene, SequenceTheorems, FiniteSetTheorems, TLAPS

\* The state of a call: its part and its loop variables are in the array.
Call ==
  {c \in [low : Nat, high : Int, i : Nat, j : Nat] :
     /\ c.high < Count
     /\ c.low <= c.i /\ c.i <= c.j
     /\ c.low < c.high => c.j <= c.high}

\* What makes a record a call.
LEMMA IsCall ==
  ASSUME NEW d \in [low : Nat, high : Int, i : Nat, j : Nat],
         d.high < Count, d.low <= d.i, d.i <= d.j, d.j <= d.high
  PROVE  d \in Call
  BY DEF Call

Ids(a) == {a[k].id : k \in Entity}

\* The elements of the array.
Draw == [id : Entity, depth : Depths \cup {NaN}]

DrawsInv ==
  /\ entity_draws \in [Entity -> Draw]
  /\ Ids(entity_draws) = Entity
  /\ stack \in Seq(Call)

\* An exchange of two elements keeps all of them.
LEMMA SwapKeeps ==
  ASSUME NEW a \in [Entity -> Draw], NEW i \in Entity, NEW j \in Entity
  PROVE  /\ Sort!Swap(a, i, j) \in [Entity -> Draw]
         /\ Ids(Sort!Swap(a, i, j)) = Ids(a)
<1> DEFINE b == Sort!Swap(a, i, j)
<1>1. b = [a EXCEPT ![i] = a[j], ![j] = a[i]]
  BY DEF Sort!Swap
<1>2. b \in [Entity -> Draw]
  BY <1>1
<1>3. /\ b[j] = a[i] /\ b[i] = a[j]
      /\ \A k \in Entity \ {i, j} : b[k] = a[k]
  BY <1>1
<1> HIDE DEF b
<1>4. \A k \in Entity : \E m \in Entity : a[k] = b[m]
  <2> TAKE k \in Entity
  <2>1. CASE k = i
    BY <1>3, <2>1
  <2>2. CASE k = j
    BY <1>3, <2>2
  <2>3. CASE k \notin {i, j}
    BY <1>3, <2>3
  <2>4. QED
    BY <2>1, <2>2, <2>3
<1>5. \A k \in Entity : \E m \in Entity : b[k] = a[m]
  <2> TAKE k \in Entity
  <2>1. CASE k = i
    BY <1>3, <2>1
  <2>2. CASE k = j
    BY <1>3, <2>2
  <2>3. CASE k \notin {i, j}
    BY <1>3, <2>3
  <2>4. QED
    BY <2>1, <2>2, <2>3
<1>6. Ids(b) = Ids(a)
  <2>1. ASSUME NEW k \in Entity PROVE a[k].id \in Ids(b)
    BY <1>4 DEF Ids
  <2>2. ASSUME NEW k \in Entity PROVE b[k].id \in Ids(a)
    BY <1>5 DEF Ids
  <2>3. Ids(a) \subseteq Ids(b)
    BY <2>1 DEF Ids
  <2>4. Ids(b) \subseteq Ids(a)
    BY <2>2 DEF Ids
  <2>5. QED
    BY <2>3, <2>4
<1>7. QED
  BY <1>2, <1>6 DEF b

\* The innermost call, and what a new state of it makes of the stack.
LEMMA StackTop ==
  ASSUME stack \in Seq(Call), stack # <<>>
  PROVE  /\ Len(stack) \in Nat /\ Len(stack) \in 1 .. Len(stack)
         /\ Sort!Top \in Call
         /\ \A c \in Call : [stack EXCEPT ![Len(stack)] = c] \in Seq(Call)
<1>1. Len(stack) \in Nat /\ Len(stack) \in 1 .. Len(stack)
  BY EmptySeq, LenProperties
<1>2. Sort!Top \in Call
  BY <1>1, ElementOfSeq DEF Sort!Top
<1>3. \A c \in Call : [stack EXCEPT ![Len(stack)] = c] \in Seq(Call)
  BY <1>1, ExceptSeq
<1>4. QED
  BY <1>1, <1>2, <1>3

\* What is known of a call that has something to sort.
LEMMA CallIndices ==
  ASSUME NEW c \in Call, c.low < c.high
  PROVE  /\ c.low \in Nat /\ c.high \in Nat /\ c.i \in Nat /\ c.j \in Nat
         /\ c.i \in Entity /\ c.j \in Entity /\ c.high \in Entity
         /\ c.low <= c.i /\ c.i <= c.j /\ c.j <= c.high /\ c.high < Count
BY EntityDrawsAssumption DEF Call, Entity

\* A comparison.
LEMMA CompareKeeps == DrawsInv /\ SortCompare => DrawsInv'
<1> SUFFICES ASSUME DrawsInv, SortCompare PROVE DrawsInv'
  OBVIOUS
<1> DEFINE c == Sort!Top
<1>1. stack # <<>> /\ c.low < c.high /\ c.j < c.high
  BY DEF SortCompare, Sort!Compare, Sort!Comparing
<1>2. c \in Call
  BY <1>1, StackTop DEF DrawsInv
<1>3. CASE NotAfter(entity_draws[c.j], entity_draws[c.high])
  <2> DEFINE d == [c EXCEPT !.i = c.i + 1, !.j = c.j + 1]
  <2>1. /\ entity_draws' = Sort!Swap(entity_draws, c.i, c.j)
        /\ stack' = [stack EXCEPT ![Len(stack)] = d]
    BY <1>3 DEF SortCompare, Sort!Compare
  <2>2. d \in Call
    <3>1. c \in [low : Nat, high : Int, i : Nat, j : Nat]
      BY <1>2 DEF Call
    <3>2. /\ d.low = c.low /\ d.high = c.high
          /\ d.i = c.i + 1 /\ d.j = c.j + 1
      BY <3>1
    <3>3. d \in [low : Nat, high : Int, i : Nat, j : Nat]
      <4>1. c.i + 1 \in Nat /\ c.j + 1 \in Nat
        BY <3>1
      <4> HIDE DEF c
      <4>2. QED
        BY <3>1, <4>1
    <3> HIDE DEF d
    <3>4. QED
      BY <1>1, <1>2, <3>2, <3>3 DEF Call
  <2>3. c.i \in Entity /\ c.j \in Entity
    BY <1>1, <1>2, CallIndices
  <2> HIDE DEF d, c
  <2>4. stack' \in Seq(Call)
    BY <1>1, <2>1, <2>2, StackTop DEF DrawsInv
  <2>5. QED
    BY <2>1, <2>3, <2>4, SwapKeeps DEF DrawsInv
<1>4. CASE ~NotAfter(entity_draws[c.j], entity_draws[c.high])
  <2> DEFINE d == [c EXCEPT !.j = c.j + 1]
  <2>1. /\ UNCHANGED entity_draws
        /\ stack' = [stack EXCEPT ![Len(stack)] = d]
    BY <1>4 DEF SortCompare, Sort!Compare
  <2>2. d \in Call
    BY <1>1, <1>2 DEF Call
  <2> HIDE DEF d, c
  <2>3. stack' \in Seq(Call)
    BY <1>1, <2>1, <2>2, StackTop DEF DrawsInv
  <2>4. QED
    BY <2>1, <2>3 DEF DrawsInv
<1>5. QED
  BY <1>3, <1>4

\* The end of a round.
LEMMA SplitKeeps == DrawsInv /\ SortSplit => DrawsInv'
<1> SUFFICES ASSUME DrawsInv, SortSplit PROVE DrawsInv'
  OBVIOUS
<1> DEFINE c     == Sort!Top
           left  == Sort!Part(c.low, c.i - 1)
           right == Sort!Part(c.i + 1, c.high)
<1>1. /\ stack # <<>> /\ c.low < c.high /\ c.j = c.high
      /\ entity_draws' = Sort!Swap(entity_draws, c.i, c.high)
      /\ Sort!Recurse(right, left) \/ Sort!Recurse(left, right)
  BY DEF SortSplit, Sort!Split, Sort!Splitting
<1>2. c \in Call
  BY <1>1, StackTop DEF DrawsInv
<1>3. /\ c.low \in Nat /\ c.high \in Nat /\ c.i \in Nat
      /\ c.i \in Entity /\ c.high \in Entity
      /\ c.low <= c.i /\ c.i <= c.high /\ c.high < Count
  BY <1>1, <1>2, CallIndices
<1>4. left \in Call /\ right \in Call
  BY <1>3, EntityDrawsAssumption DEF Call, Sort!Part
<1> HIDE DEF c, left, right
<1>5. ASSUME NEW on \in Call, NEW for \in Call, Sort!Recurse(on, for)
      PROVE  stack' \in Seq(Call)
  <2>1. [stack EXCEPT ![Len(stack)] = on] \in Seq(Call)
    BY <1>1, StackTop DEF DrawsInv
  <2>2. QED
    BY <1>5, <2>1, AppendProperties DEF Sort!Recurse
<1>6. stack' \in Seq(Call)
  BY <1>1, <1>4, <1>5
<1>7. QED
  BY <1>1, <1>3, <1>6, SwapKeeps DEF DrawsInv

\* The end of a call.
LEMMA ReturnKeeps == DrawsInv /\ SortReturn => DrawsInv'
<1> SUFFICES ASSUME DrawsInv, SortReturn PROVE DrawsInv'
  OBVIOUS
<1>1. /\ stack # <<>> /\ UNCHANGED entity_draws
      /\ stack' = SubSeq(stack, 1, Len(stack) - 1)
  BY DEF SortReturn, Sort!Return
<1>2. Len(stack) - 1 \in Int /\ \A n \in 1 .. Len(stack) - 1 : stack[n] \in Call
  BY <1>1, LenProperties, ElementOfSeq DEF DrawsInv
<1>3. stack' \in Seq(Call)
  BY <1>1, <1>2, SubSeqProperties
<1>4. QED
  BY <1>1, <1>3 DEF DrawsInv

\* New depths.
LEMMA PrepareKeeps == DrawsInv /\ Prepare => DrawsInv'
<1> SUFFICES ASSUME DrawsInv, Prepare PROVE DrawsInv'
  OBVIOUS
<1>1. PICK seen \in SUBSET Entity : \E depth \in [seen -> Depths] :
        entity_draws' =
          [k \in Entity |->
             LET d == entity_draws[k]
             IN  IF d.id \in seen THEN [d EXCEPT !.depth = depth[d.id]]
                                  ELSE d]
  BY DEF Prepare
<1>2. PICK depth \in [seen -> Depths] :
        entity_draws' =
          [k \in Entity |->
             LET d == entity_draws[k]
             IN  IF d.id \in seen THEN [d EXCEPT !.depth = depth[d.id]]
                                  ELSE d]
  BY <1>1
<1>3. ASSUME NEW k \in Entity
      PROVE  /\ entity_draws'[k] \in Draw
             /\ entity_draws'[k].id = entity_draws[k].id
  BY <1>2 DEF DrawsInv, Draw
<1>4. entity_draws' \in [Entity -> Draw]
  BY <1>2, <1>3
<1>5. Ids(entity_draws)' = Ids(entity_draws)
  BY <1>3 DEF Ids
<1>6. stack' \in Seq(Call)
  <2>1. Sort!Part(0, Count - 1) \in Call
    BY EntityDrawsAssumption DEF Call, Sort!Part
  <2>2. stack' = <<Sort!Part(0, Count - 1)>>
    BY DEF Prepare, Sort!Calls
  <2>3. QED
    BY <2>1, <2>2
<1>7. QED
  BY <1>4, <1>5, <1>6 DEF DrawsInv

-----------------------------------------------------------------------------
\* Before the first frame.
LEMMA InitDraws == Init => DrawsInv
<1> SUFFICES ASSUME Init PROVE DrawsInv
  OBVIOUS
<1>1. PICK garbage \in [Entity -> Depths \cup {NaN}] :
        entity_draws = [k \in Entity |-> [id |-> k, depth |-> garbage[k]]]
  BY DEF Init
<1>2. /\ entity_draws \in [Entity -> Draw]
      /\ \A k \in Entity : entity_draws[k].id = k
  BY <1>1 DEF Draw
<1>3. stack \in Seq(Call)
  BY EmptySeq DEF Init
<1>4. QED
  BY <1>2, <1>3 DEF DrawsInv, Ids

LEMMA DrawsStep == DrawsInv /\ [Next]_vars => DrawsInv'
<1> SUFFICES ASSUME DrawsInv, [Next]_vars PROVE DrawsInv'
  OBVIOUS
<1>1. CASE Prepare
  BY <1>1, PrepareKeeps
<1>2. CASE SortCompare
  BY <1>2, CompareKeeps
<1>3. CASE SortSplit
  BY <1>3, SplitKeeps
<1>4. CASE SortReturn
  BY <1>4, ReturnKeeps
<1>5. ASSUME UNCHANGED <<entity_draws, stack>> PROVE DrawsInv'
  BY <1>5 DEF DrawsInv, Ids
<1>6. CASE StartDrawing
  BY <1>5, <1>6 DEF StartDrawing
<1>7. CASE EndFrame
  BY <1>5, <1>7 DEF EndFrame
<1>8. CASE UNCHANGED vars
  BY <1>5, <1>8 DEF vars
<1>9. QED
  BY <1>1, <1>2, <1>3, <1>4, <1>6, <1>7, <1>8 DEF Next

\* No entity is drawn twice or left out, and the sort stays inside the array,
\* whatever comparison it is given.
LEMMA DrawsInvariant == Spec => []DrawsInv
BY InitDraws, DrawsStep, PTL DEF Spec

\* Every element of an array is one of another.
Moved(b, a) == \A k \in Entity : \E m \in Entity : b[k] = a[m]

\* An exchange makes no new element.
LEMMA SwapMoves ==
  ASSUME NEW a \in [Entity -> Draw], NEW i \in Entity, NEW j \in Entity
  PROVE  Moved(Sort!Swap(a, i, j), a)
<1> DEFINE b == Sort!Swap(a, i, j)
<1>1. b = [a EXCEPT ![i] = a[j], ![j] = a[i]]
  BY DEF Sort!Swap
<1>2. /\ b[j] = a[i] /\ b[i] = a[j]
      /\ \A k \in Entity \ {i, j} : b[k] = a[k]
  BY <1>1
<1> HIDE DEF b
<1>3. ASSUME NEW k \in Entity PROVE \E m \in Entity : b[k] = a[m]
  <2>1. CASE k = i
    BY <1>2, <2>1
  <2>2. CASE k = j
    BY <1>2, <2>2
  <2>3. CASE k \notin {i, j}
    BY <1>2, <2>3
  <2>4. QED
    BY <2>1, <2>2, <2>3
<1>4. QED
  BY <1>3 DEF b, Moved

\* A step of the sort puts elements of the array in other places.
LEMMA SortMoves ==
  ASSUME DrawsInv, SortCompare \/ SortSplit \/ SortReturn
  PROVE  Moved(entity_draws', entity_draws)
<1> DEFINE c == Sort!Top
<1>1. CASE SortCompare
  <2>1. stack # <<>> /\ c.low < c.high /\ c.j < c.high
    BY <1>1 DEF SortCompare, Sort!Compare, Sort!Comparing
  <2>2. c.i \in Entity /\ c.j \in Entity
    BY <2>1, StackTop, CallIndices DEF DrawsInv
  <2>3. \/ entity_draws' = Sort!Swap(entity_draws, c.i, c.j)
        \/ entity_draws' = entity_draws
    BY <1>1 DEF SortCompare, Sort!Compare
  <2> HIDE DEF c
  <2>4. entity_draws' = entity_draws => Moved(entity_draws', entity_draws)
    BY DEF Moved
  <2>5. QED
    BY <2>2, <2>3, <2>4, SwapMoves DEF DrawsInv
<1>2. CASE SortSplit
  <2>1. /\ stack # <<>> /\ c.low < c.high
        /\ entity_draws' = Sort!Swap(entity_draws, c.i, c.high)
    BY <1>2 DEF SortSplit, Sort!Split, Sort!Splitting
  <2>2. c.i \in Entity /\ c.high \in Entity
    BY <2>1, StackTop, CallIndices DEF DrawsInv
  <2> HIDE DEF c
  <2>3. QED
    BY <2>1, <2>2, SwapMoves DEF DrawsInv
<1>3. CASE SortReturn
  BY <1>3 DEF Moved, SortReturn, Sort!Return
<1>4. QED
  BY <1>1, <1>2, <1>3

\* The depth of an entity that is visible is a number.
VisibleKnown ==
  \A k \in Entity :
    visible[entity_draws[k].id] => entity_draws[k].depth \in Depths

\* A visible entity never has the NaN of a depth nobody wrote, wherever the sort
\* has put it: what draw_entities divides by is a number.
THEOREM VisibleDepthIsKnown == Spec => []VisibleKnown
<1>1. Init => VisibleKnown
  <2> SUFFICES ASSUME Init PROVE VisibleKnown
    OBVIOUS
  <2>1. DrawsInv /\ visible = [e \in Entity |-> FALSE]
    BY InitDraws DEF Init
  <2>2. QED
    BY <2>1 DEF VisibleKnown, DrawsInv, Draw
<1>2. DrawsInv /\ VisibleKnown /\ [Next]_vars => VisibleKnown'
  <2> SUFFICES ASSUME DrawsInv, VisibleKnown, [Next]_vars PROVE VisibleKnown'
    OBVIOUS
  <2>1. CASE Prepare
    <3>1. PICK seen \in SUBSET Entity : \E depth \in [seen -> Depths] :
            /\ visible' = [e \in Entity |-> e \in seen]
            /\ entity_draws' =
                 [k \in Entity |->
                    LET d == entity_draws[k]
                    IN  IF d.id \in seen THEN [d EXCEPT !.depth = depth[d.id]]
                                         ELSE d]
      BY <2>1, Zenon DEF Prepare
    <3>2. PICK depth \in [seen -> Depths] :
            /\ visible' = [e \in Entity |-> e \in seen]
            /\ entity_draws' =
                 [k \in Entity |->
                    LET d == entity_draws[k]
                    IN  IF d.id \in seen THEN [d EXCEPT !.depth = depth[d.id]]
                                         ELSE d]
      BY <3>1
    <3>3. ASSUME NEW k \in Entity, visible'[entity_draws'[k].id]
          PROVE  entity_draws'[k].depth \in Depths
      <4>1. entity_draws[k] \in Draw
        BY DEF DrawsInv
      <4>2. entity_draws'[k].id = entity_draws[k].id
        BY <3>2, <4>1 DEF Draw
      <4>3. entity_draws[k].id \in seen
        BY <3>2, <3>3, <4>1, <4>2 DEF Draw
      <4>4. QED
        BY <3>2, <4>1, <4>3 DEF Draw
    <3>4. QED
      BY <3>3 DEF VisibleKnown
  <2>2. ASSUME SortCompare \/ SortSplit \/ SortReturn PROVE VisibleKnown'
    <3>1. visible' = visible
      BY <2>2, Zenon DEF SortCompare, SortSplit, SortReturn
    <3>2. \A k \in Entity : \E m \in Entity : entity_draws'[k] = entity_draws[m]
      BY <2>2, SortMoves DEF Moved
    <3>3. QED
      BY <3>1, <3>2 DEF VisibleKnown
  <2>3. ASSUME UNCHANGED <<visible, entity_draws>> PROVE VisibleKnown'
    BY <2>3 DEF VisibleKnown
  <2>4. CASE StartDrawing \/ EndFrame \/ UNCHANGED vars
    BY <2>3, <2>4 DEF StartDrawing, EndFrame, vars
  <2>5. QED
    BY <2>1, <2>2, <2>4 DEF Next
<1>3. QED
  BY <1>1, <1>2, DrawsInvariant, PTL DEF Spec

\* No entity is lost or drawn twice, whatever the depths are.
THEOREM NoEntityLost == Spec => []EachEntityDrawnOnce
<1>1. DrawsInv => EachEntityDrawnOnce
  BY DEF DrawsInv, EachEntityDrawnOnce, Ids
<1>2. QED
  BY <1>1, DrawsInvariant, PTL

-----------------------------------------------------------------------------
\* The work of the sort.  The invariant has three parts: the calls sort parts of
\* the array that do not overlap, and all but the innermost wait before the first
\* comparison of a round; what is not within one part is in order, as long as
\* all depths are numbers; and each call deeper has at most half as much to do.

Apart(c, d)     == c.high < d.low \/ d.high < c.low
Within(c, p, q) == c.low <= p /\ q <= c.high

StackSound ==
  /\ phase # "sorting" => stack = <<>>
  /\ \A m, n \in 1 .. Len(stack) : m # n => Apart(stack[m], stack[n])
  /\ \A n \in 1 .. Len(stack) - 1 : stack[n].j = stack[n].low

Numbers       == \A k \in Entity : entity_draws[k].depth # NaN
Falling(p, q) == entity_draws[p].depth >= entity_draws[q].depth

OrderSound ==
  \A p, q \in Entity :
    p < q => Falling(p, q) \/ \E n \in 1 .. Len(stack) : Within(stack[n], p, q)

PivotSound ==
  stack # <<>> =>
    \A k \in Entity :
      /\ Sort!Top.low <= k /\ k < Sort!Top.i => Falling(k, Sort!Top.high)
      /\ Sort!Top.i <= k /\ k < Sort!Top.j => ~Falling(k, Sort!Top.high)

SortedSoFar == phase # "simulating" /\ Numbers => OrderSound /\ PivotSound

Shallow ==
  \A m \in 1 .. Len(stack) :
    /\ 2 ^ (m - 1) <= Count
    /\ 2 ^ (m - 1) * (stack[m].high - stack[m].low + 1) <= Count

SortInv == DrawsInv /\ StackSound /\ SortedSoFar /\ Shallow

\* One element more makes twice as many subsets: what is known of powers of two.
LEMMA Doubling ==
  ASSUME NEW n \in Nat
  PROVE  2 ^ n \in Nat /\ 2 ^ n > 0 /\ 2 ^ (n + 1) = 2 * 2 ^ n
<1> DEFINE A == 1 .. n
           P == SUBSET A
           Q == {X \cup {n + 1} : X \in P}
<1>1. IsFiniteSet(A) /\ Cardinality(A) = n
  BY FS_Interval
<1>2. IsFiniteSet(P) /\ Cardinality(P) = 2 ^ n
  BY <1>1, FS_SUBSET
<1>3. Cardinality(P) \in Nat /\ Cardinality(P) > 0
  <2>1. {} \in P
    OBVIOUS
  <2>2. P # {}
    BY <2>1
  <2> HIDE DEF P
  <2>3. QED
    BY <1>2, <2>2, FS_CardinalityType, FS_EmptySet
<1>4. IsFiniteSet(Q) /\ Cardinality(Q) = Cardinality(P)
  <2> DEFINE f == [X \in P |-> X \cup {n + 1}]
  <2>0. n + 1 \notin A
    OBVIOUS
  <2>1. f \in Bijection(P, Q)
    <3>1. f \in [P -> Q]
      OBVIOUS
    <3>2. ASSUME NEW X \in P, NEW Y \in P, f[X] = f[Y] PROVE X = Y
      <4>1. X \cup {n + 1} = Y \cup {n + 1}
        BY <3>2
      <4>2. n + 1 \notin X /\ n + 1 \notin Y
        BY <2>0
      <4>3. QED
        BY <4>1, <4>2
    <3>3. \A Z \in Q : \E X \in P : f[X] = Z
      OBVIOUS
    <3> HIDE DEF f, P, Q
    <3>4. QED
      BY <3>1, <3>2, <3>3 DEF Bijection, Injection, Surjection, IsInjective
  <2> HIDE DEF f, P, Q
  <2>2. QED
    BY <1>2, <2>1, FS_Bijection DEF ExistsBijection
<1>5. SUBSET (1 .. n + 1) = P \cup Q
  <2>1. 1 .. n + 1 = A \cup {n + 1}
    OBVIOUS
  <2>2. ASSUME NEW X \in SUBSET (A \cup {n + 1}), X \notin P
        PROVE  X \in Q
    <3>1. n + 1 \in X
      BY <2>2
    <3>2. X = (X \ {n + 1}) \cup {n + 1} /\ X \ {n + 1} \in P
      BY <3>1
    <3>3. QED
      BY <3>2
  <2>3. P \subseteq SUBSET (A \cup {n + 1}) /\ Q \subseteq SUBSET (A \cup {n + 1})
    OBVIOUS
  <2>4. QED
    BY <2>1, <2>2, <2>3
<1>6. P \cap Q = {}
  OBVIOUS
<1> HIDE DEF P, Q
<1>7. Cardinality(P \cup Q) = Cardinality(P) + Cardinality(Q) - Cardinality({})
  BY <1>2, <1>4, <1>6, FS_Union
<1>8. Cardinality(SUBSET (1 .. n + 1)) = 2 ^ (n + 1)
  <2>1. IsFiniteSet(1 .. n + 1) /\ Cardinality(1 .. n + 1) = n + 1
    BY FS_Interval
  <2>2. QED
    BY <2>1, FS_SUBSET
<1> DEFINE p == Cardinality(P)
           u == 2 ^ n
           v == 2 ^ (n + 1)
<1>9. p \in Nat /\ p > 0 /\ u = p /\ v = p + p
  BY <1>2, <1>3, <1>4, <1>5, <1>7, <1>8, FS_EmptySet
<1> HIDE DEF p, u, v
<1>10. u \in Nat /\ u > 0 /\ v = 2 * u
  BY <1>9
<1>11. QED
  BY <1>10 DEF u, v
\* Depths that are numbers can be compared.
LEMMA DepthsCompare ==
  ASSUME DrawsInv, Numbers
  PROVE  /\ \A k \in Entity : entity_draws[k].depth \in Int
         /\ \A p, q \in Entity :
              NotAfter(entity_draws[p], entity_draws[q]) <=> Falling(p, q)
<1>1. \A k \in Entity : entity_draws[k].depth \in Int
  BY EntityDrawsAssumption DEF DrawsInv, Draw, Numbers
<1>2. QED
  BY <1>1 DEF NotAfter, Falling, Numbers

\* The innermost call goes on.
LEMMA TopChanges ==
  ASSUME stack \in Seq(Call), stack # <<>>, NEW c \in Call,
         stack' = [stack EXCEPT ![Len(stack)] = c]
  PROVE  /\ Len(stack') = Len(stack) /\ stack' # <<>> /\ Sort!Top' = c
         /\ \A n \in 1 .. Len(stack) - 1 : stack'[n] = stack[n]
         /\ stack'[Len(stack)] = c
<1> DEFINE len == Len(stack)
<1>1. len \in Nat /\ len \in 1 .. len
  BY StackTop
<1>2. /\ stack' \in Seq(Call) /\ Len(stack') = len
      /\ \A n \in 1 .. len : stack'[n] = IF n = len THEN c ELSE stack[n]
  BY <1>1, ExceptSeq
<1> HIDE DEF len
<1>3. \A n \in 1 .. len - 1 : n \in 1 .. len /\ n # len
  BY <1>1
<1>4. stack'[len] = c /\ \A n \in 1 .. len - 1 : stack'[n] = stack[n]
  BY <1>1, <1>2, <1>3
<1>5. stack' # <<>>
  BY <1>1, <1>2, EmptySeq
<1>6. Sort!Top' = stack'[Len(stack')]
  BY DEF Sort!Top
<1>7. QED
  BY <1>2, <1>4, <1>5, <1>6 DEF len

\* It goes on with one part and another call is made.
LEMMA RecurseIs ==
  ASSUME stack \in Seq(Call), stack # <<>>, NEW on \in Call, NEW for \in Call,
         Sort!Recurse(on, for)
  PROVE  /\ Len(stack') = Len(stack) + 1 /\ stack' # <<>> /\ Sort!Top' = for
         /\ \A n \in 1 .. Len(stack) - 1 : stack'[n] = stack[n]
         /\ stack'[Len(stack)] = on /\ stack'[Len(stack) + 1] = for
<1> DEFINE s   == [stack EXCEPT ![Len(stack)] = on]
           len == Len(stack)
<1>1. len \in Nat /\ len \in 1 .. len
  BY StackTop
<1>2. /\ s \in Seq(Call) /\ Len(s) = len
      /\ \A n \in 1 .. len : s[n] = IF n = len THEN on ELSE stack[n]
  BY <1>1, ExceptSeq
<1>3. stack' = Append(s, for)
  BY DEF Sort!Recurse
<1> HIDE DEF s, len
<1>4. /\ stack' \in Seq(Call) /\ Len(stack') = len + 1
      /\ \A n \in 1 .. len : stack'[n] = s[n]
      /\ stack'[len + 1] = for
  BY <1>2, <1>3, AppendProperties
<1>5. \A n \in 1 .. len - 1 : n \in 1 .. len /\ n # len
  BY <1>1
<1>6. stack'[len] = on /\ \A n \in 1 .. len - 1 : stack'[n] = stack[n]
  BY <1>1, <1>2, <1>4, <1>5
<1>7. stack' # <<>>
  <2>1. Len(stack') # 0
    BY <1>1, <1>4
  <2>2. QED
    BY <1>4, <2>1, EmptySeq
<1>8. Sort!Top' = stack'[Len(stack')]
  BY DEF Sort!Top
<1>9. QED
  BY <1>4, <1>6, <1>7, <1>8 DEF len

\* The innermost call returns.
LEMMA ReturnIs ==
  ASSUME stack \in Seq(Call), stack # <<>>,
         stack' = SubSeq(stack, 1, Len(stack) - 1)
  PROVE  /\ Len(stack') = Len(stack) - 1
         /\ \A n \in 1 .. Len(stack) - 1 : stack'[n] = stack[n]
         /\ stack' # <<>> => /\ Len(stack) - 1 \in 1 .. Len(stack) - 1
                             /\ Sort!Top' = stack[Len(stack) - 1]
<1> DEFINE len  == Len(stack)
           last == len - 1
<1>1. len \in Nat /\ len > 0
  BY StackTop
<1>2. \A n \in 1 .. len : stack[n] \in Call
  BY ElementOfSeq
<1> HIDE DEF len
<1>3. last \in Nat /\ \A n \in 1 .. last : n \in 1 .. len /\ 1 + n - 1 = n
  BY <1>1
<1>4. stack' = SubSeq(stack, 1, last)
  BY DEF len
<1> HIDE DEF last
<1>5. /\ stack' \in Seq(Call) /\ Len(stack') = last
      /\ \A n \in 1 .. last : stack'[n] = stack[n]
  <2>1. last - 1 + 1 = last /\ 1 \in Int /\ last \in Int
    BY <1>3
  <2>2. \A n \in 1 .. last : stack[n] \in Call
    BY <1>2, <1>3
  <2>3. /\ stack' \in Seq(Call)
        /\ Len(stack') = IF 1 <= last THEN last - 1 + 1 ELSE 0
        /\ \A n \in 1 .. last - 1 + 1 : stack'[n] = stack[1 + n - 1]
    BY <1>4, <2>1, <2>2, SubSeqProperties
  <2>4. Len(stack') = last
    BY <1>3, <2>3
  <2>5. ASSUME NEW n \in 1 .. last PROVE stack'[n] = stack[n]
    BY <1>3, <2>1, <2>3
  <2>6. QED
    BY <2>3, <2>4, <2>5
<1>6. ASSUME stack' # <<>> PROVE last \in 1 .. last /\ Sort!Top' = stack[last]
  <2>1. last # 0
    BY <1>5, <1>6, EmptySeq
  <2>2. last \in 1 .. last
    BY <1>3, <2>1
  <2>3. Sort!Top' = stack'[Len(stack')]
    BY DEF Sort!Top
  <2>4. QED
    BY <1>5, <2>2, <2>3
<1>7. QED
  BY <1>5, <1>6 DEF last, len

\* No place is within two parts that do not overlap.
LEMMA OnePart ==
  ASSUME NEW c, NEW d, NEW p \in Int, c.low \in Int, c.high \in Int,
         d.low \in Int, d.high \in Int, Apart(c, d), Within(c, p, p)
  PROVE  ~Within(d, p, p)
  BY DEF Apart, Within

\* An exchange within the innermost part does not disturb the order outside.
LEMMA OutsideStays ==
  ASSUME SortInv, phase # "simulating", Numbers, stack # <<>>,
         Sort!Top.low < Sort!Top.high,
         NEW x \in Entity, NEW y \in Entity,
         Within(Sort!Top, x, x), Within(Sort!Top, y, y),
         entity_draws' = Sort!Swap(entity_draws, x, y),
         NEW p \in Entity, NEW q \in Entity, p < q, ~Within(Sort!Top, p, q)
  PROVE  \/ Falling(p, q)'
         \/ \E n \in 1 .. Len(stack) - 1 : Within(stack[n], p, q)
<1> DEFINE c == Sort!Top
           a == entity_draws
<1>1. /\ Len(stack) \in Nat /\ Len(stack) \in 1 .. Len(stack)
      /\ c \in Call /\ c = stack[Len(stack)]
      /\ \A n \in 1 .. Len(stack) : stack[n] \in Call
  BY StackTop, ElementOfSeq DEF SortInv, DrawsInv, Sort!Top
<1>2. /\ a \in [Entity -> Draw] /\ a' = [a EXCEPT ![x] = a[y], ![y] = a[x]]
  BY DEF Sort!Swap, SortInv, DrawsInv
<1>3. \A k \in Entity :
        \E m \in Entity : a'[k] = a[m] /\ (m = k \/ (Within(c, k, k) /\ Within(c, m, m)))
  <2> TAKE k \in Entity
  <2>1. CASE k = x
    BY <1>2, <2>1 DEF Within
  <2>2. CASE k = y
    BY <1>2, <2>2 DEF Within
  <2>3. CASE k \notin {x, y}
    BY <1>2, <2>3
  <2>4. QED
    BY <2>1, <2>2, <2>3
<1>4. PICK m \in Entity : a'[p] = a[m] /\ (m = p \/ (Within(c, p, p) /\ Within(c, m, m)))
  BY <1>3
<1>5. PICK n \in Entity : a'[q] = a[n] /\ (n = q \/ (Within(c, q, q) /\ Within(c, n, n)))
  BY <1>3
<1>6. /\ c.low \in Nat /\ c.high \in Int /\ p \in Nat /\ q \in Nat /\ m \in Nat /\ n \in Nat
  BY <1>1, EntityDrawsAssumption DEF Call, Entity
<1> HIDE DEF c, a
<1>7. m < n /\ ~Within(c, m, n)
  BY <1>4, <1>5, <1>6 DEF Within, c
<1>8. CASE a[m].depth >= a[n].depth
  BY <1>4, <1>5, <1>8 DEF Falling, a
<1>9. CASE \E k \in 1 .. Len(stack) : Within(stack[k], m, n)
  <2>1. PICK k \in 1 .. Len(stack) : Within(stack[k], m, n)
    BY <1>9
  <2>2. k # Len(stack)
    BY <1>1, <1>7, <2>1
  <2>3. Apart(stack[k], c)
    BY <1>1, <2>2 DEF SortInv, StackSound
  <2>4. stack[k].low \in Nat /\ stack[k].high \in Int
    BY <1>1 DEF Call
  <2>5. Within(stack[k], m, m) /\ Within(stack[k], n, n)
    BY <1>6, <1>7, <2>1, <2>4 DEF Within
  <2>6. ~Within(c, m, m) /\ ~Within(c, n, n)
    <3>1. /\ stack[k].low \in Int /\ c.low \in Int /\ c.high \in Int
          /\ m \in Int /\ n \in Int
      BY <1>6, <2>4
    <3>2. ~Within(c, m, m)
      BY <2>3, <2>4, <2>5, <3>1, OnePart, Zenon
    <3>3. ~Within(c, n, n)
      BY <2>3, <2>4, <2>5, <3>1, OnePart, Zenon
    <3>4. QED
      BY <3>2, <3>3
  <2>7. m = p /\ n = q
    BY <1>4, <1>5, <2>6
  <2>8. QED
    BY <1>1, <2>1, <2>2, <2>7
<1>10. QED
  BY <1>7, <1>8, <1>9 DEF SortInv, SortedSoFar, OrderSound, Falling, a

\* An exchange makes no depth a number that was none.
LEMMA NumbersStay ==
  ASSUME DrawsInv, NEW x \in Entity, NEW y \in Entity,
         entity_draws' = Sort!Swap(entity_draws, x, y), Numbers'
  PROVE  Numbers
<1>1. /\ entity_draws \in [Entity -> Draw]
      /\ entity_draws' = [entity_draws EXCEPT ![x] = entity_draws[y],
                                              ![y] = entity_draws[x]]
  BY DEF DrawsInv, Sort!Swap
<1>2. \A k \in Entity : \E m \in Entity : entity_draws[k] = entity_draws'[m]
  <2> TAKE k \in Entity
  <2>1. CASE k = x
    BY <1>1, <2>1
  <2>2. CASE k = y
    BY <1>1, <2>2
  <2>3. CASE k \notin {x, y}
    BY <1>1, <2>3
  <2>4. QED
    BY <2>1, <2>2, <2>3
<1>3. QED
  BY <1>2 DEF Numbers

\* What is in a state with a call that has something to sort.
LEMMA TopFacts ==
  ASSUME SortInv, stack # <<>>, Sort!Top.low < Sort!Top.high
  PROVE  /\ phase = "sorting" /\ Len(stack) \in Nat /\ Len(stack) \in 1 .. Len(stack)
         /\ Sort!Top \in Call /\ Sort!Top = stack[Len(stack)]
         /\ \A n \in 1 .. Len(stack) : /\ stack[n] \in Call /\ stack[n].low \in Nat
                                       /\ stack[n].high \in Int
<1>1. /\ stack \in Seq(Call) /\ phase = "sorting" /\ Sort!Top = stack[Len(stack)]
  BY DEF SortInv, DrawsInv, StackSound, Sort!Top
<1>2. /\ Len(stack) \in Nat /\ Len(stack) \in 1 .. Len(stack) /\ Sort!Top \in Call
  BY <1>1, StackTop
<1>3. \A n \in 1 .. Len(stack) : stack[n] \in Call
  BY <1>1, ElementOfSeq
<1>4. \A c \in Call : c.low \in Nat /\ c.high \in Int
  BY DEF Call
<1>5. QED
  BY <1>1, <1>2, <1>3, <1>4

\* A comparison changes no part, and puts one element on its side of the pivot.
LEMMA CompareSorts ==
  ASSUME SortInv, SortCompare
  PROVE  StackSound' /\ SortedSoFar' /\ Shallow'
<1> DEFINE c   == Sort!Top
           len == Len(stack)
<1>1. /\ stack # <<>> /\ c.low < c.high /\ c.j < c.high /\ phase' = phase
  BY DEF SortCompare, Sort!Compare, Sort!Comparing
<1>2. /\ phase = "sorting" /\ len \in Nat /\ len \in 1 .. len /\ c \in Call
      /\ c = stack[len] /\ stack \in Seq(Call)
  BY <1>1, TopFacts DEF SortInv, DrawsInv
<1>3. /\ c.low \in Nat /\ c.high \in Nat /\ c.i \in Nat /\ c.j \in Nat
      /\ c.i \in Entity /\ c.j \in Entity /\ c.high \in Entity
      /\ c.low <= c.i /\ c.i <= c.j /\ c.j < c.high
  BY <1>1, <1>2, CallIndices
<1>4. PICK d \in Call :
        /\ stack' = [stack EXCEPT ![Len(stack)] = d]
        /\ d.low = c.low /\ d.high = c.high /\ d.j = c.j + 1
        /\ \/ /\ NotAfter(entity_draws[c.j], entity_draws[c.high])
              /\ d.i = c.i + 1 /\ entity_draws' = Sort!Swap(entity_draws, c.i, c.j)
           \/ /\ ~NotAfter(entity_draws[c.j], entity_draws[c.high])
              /\ d.i = c.i /\ entity_draws' = entity_draws
  <2>1. c \in [low : Nat, high : Int, i : Nat, j : Nat]
    BY <1>2 DEF Call
  <2>2. CASE NotAfter(entity_draws[c.j], entity_draws[c.high])
    <3> DEFINE d == [c EXCEPT !.i = c.i + 1, !.j = c.j + 1]
    <3>1. /\ entity_draws' = Sort!Swap(entity_draws, c.i, c.j)
          /\ stack' = [stack EXCEPT ![Len(stack)] = d]
      BY <2>2 DEF SortCompare, Sort!Compare
    <3> HIDE DEF c
    <3>2. /\ d.low = c.low /\ d.high = c.high
          /\ d.i = c.i + 1 /\ d.j = c.j + 1
      BY <2>1
    <3>3. d \in [low : Nat, high : Int, i : Nat, j : Nat]
      <4>1. c.i + 1 \in Nat /\ c.j + 1 \in Nat
        BY <1>3
      <4>2. QED
        BY <2>1, <4>1
    <3> HIDE DEF d
    <3>4. d.high < Count /\ d.low <= d.i /\ d.i <= d.j /\ d.j <= d.high
      BY <1>3, <3>2, EntityDrawsAssumption DEF Entity
    <3>5. d \in Call
      BY <3>3, <3>4, IsCall
    <3>6. QED
      BY <2>2, <3>1, <3>2, <3>5
  <2>3. CASE ~NotAfter(entity_draws[c.j], entity_draws[c.high])
    <3> DEFINE d == [c EXCEPT !.j = c.j + 1]
    <3>1. /\ entity_draws' = entity_draws
          /\ stack' = [stack EXCEPT ![Len(stack)] = d]
      BY <2>3 DEF SortCompare, Sort!Compare
    <3> HIDE DEF c
    <3>2. /\ d.low = c.low /\ d.high = c.high /\ d.i = c.i /\ d.j = c.j + 1
      BY <2>1
    <3>3. d \in [low : Nat, high : Int, i : Nat, j : Nat]
      <4>1. c.j + 1 \in Nat
        BY <1>3
      <4>2. QED
        BY <2>1, <4>1
    <3> HIDE DEF d
    <3>4. d.high < Count /\ d.low <= d.i /\ d.i <= d.j /\ d.j <= d.high
      BY <1>3, <3>2, EntityDrawsAssumption DEF Entity
    <3>5. d \in Call
      BY <3>3, <3>4, IsCall
    <3>6. QED
      BY <2>3, <3>1, <3>2, <3>5
  <2>4. QED
    BY <2>2, <2>3
<1>5. /\ Len(stack') = len /\ stack' # <<>> /\ Sort!Top' = d
      /\ \A n \in 1 .. len - 1 : stack'[n] = stack[n]
      /\ stack'[len] = d
  BY <1>1, <1>2, <1>4, TopChanges
<1> HIDE DEF c, len
<1>6. \A n \in 1 .. len : stack'[n].low = stack[n].low /\ stack'[n].high = stack[n].high
  <2>1. \A n \in 1 .. len : n \in 1 .. len - 1 \/ n = len
    BY <1>2
  <2>2. QED
    BY <1>2, <1>4, <1>5, <2>1
<1>7. StackSound'
  <2>1. \A m, n \in 1 .. len : m # n => Apart(stack'[m], stack'[n])
    BY <1>6 DEF SortInv, StackSound, Apart, len
  <2>2. \A n \in 1 .. len - 1 : stack'[n].j = stack'[n].low
    BY <1>5 DEF SortInv, StackSound, len
  <2>3. QED
    BY <1>1, <1>2, <1>5, <2>1, <2>2 DEF StackSound
<1>8. Shallow'
  BY <1>5, <1>6 DEF SortInv, Shallow, len
<1>9. ASSUME Numbers' PROVE OrderSound' /\ PivotSound'
  <2>1. Numbers
    BY <1>3, <1>4, <1>9, NumbersStay DEF SortInv, Numbers
  <2>2. /\ \A k \in Entity : entity_draws[k].depth \in Int
        /\ NotAfter(entity_draws[c.j], entity_draws[c.high]) <=> Falling(c.j, c.high)
    BY <1>3, <2>1, DepthsCompare DEF SortInv
  <2>3. /\ entity_draws \in [Entity -> Draw]
        /\ \A k \in Entity : /\ c.low <= k /\ k < c.i => Falling(k, c.high)
                             /\ c.i <= k /\ k < c.j => ~Falling(k, c.high)
    BY <1>1, <1>2, <2>1 DEF SortInv, SortedSoFar, PivotSound, DrawsInv, c
  <2>4. ASSUME NEW p \in Entity, NEW q \in Entity, p < q
        PROVE  Falling(p, q)' \/ \E n \in 1 .. len : Within(stack'[n], p, q)
    <3>1. CASE Within(c, p, q)
      BY <1>2, <1>4, <1>5, <3>1 DEF Within
    <3>2. CASE ~Within(c, p, q) /\ entity_draws' = entity_draws
      <4>1. Falling(p, q) \/ \E n \in 1 .. len : Within(stack[n], p, q)
        BY <1>2, <2>1, <2>4 DEF SortInv, SortedSoFar, OrderSound, len
      <4>2. QED
        BY <1>6, <3>2, <4>1 DEF Within, Falling
    <3>3. CASE ~Within(c, p, q) /\ entity_draws' = Sort!Swap(entity_draws, c.i, c.j)
      <4>1. Within(c, c.i, c.i) /\ Within(c, c.j, c.j)
        BY <1>3 DEF Within
      <4>2. Falling(p, q)' \/ \E n \in 1 .. len - 1 : Within(stack[n], p, q)
        BY <1>1, <1>2, <1>3, <2>1, <2>4, <3>3, <4>1, OutsideStays DEF c, len
      <4>3. \A n \in 1 .. len - 1 : n \in 1 .. len
        BY <1>2
      <4>4. QED
        BY <1>5, <4>2, <4>3
    <3>4. QED
      BY <1>4, <3>1, <3>2, <3>3
  <2>5. OrderSound'
    BY <1>5, <2>4 DEF OrderSound
  <2>6. ASSUME NEW k \in Entity
        PROVE  /\ d.low <= k /\ k < d.i =>
                    entity_draws'[k].depth >= entity_draws'[d.high].depth
               /\ d.i <= k /\ k < d.j =>
                    ~(entity_draws'[k].depth >= entity_draws'[d.high].depth)
    <3>0. k \in Nat
      BY EntityDrawsAssumption DEF Entity
    <3>1. CASE entity_draws' = entity_draws /\ d.i = c.i
      <4>1. ~Falling(c.j, c.high)
        BY <1>3, <1>4, <2>2, <3>1
      <4>2. CASE k = c.j
        BY <1>3, <1>4, <3>1, <4>1, <4>2 DEF Falling
      <4>3. CASE k # c.j
        BY <1>3, <1>4, <2>3, <3>0, <3>1, <4>3 DEF Falling
      <4>4. QED
        BY <4>2, <4>3
    <3>2. CASE /\ NotAfter(entity_draws[c.j], entity_draws[c.high])
               /\ d.i = c.i + 1 /\ entity_draws' = Sort!Swap(entity_draws, c.i, c.j)
      <4>1. entity_draws' = [entity_draws EXCEPT ![c.i] = entity_draws[c.j],
                                                 ![c.j] = entity_draws[c.i]]
        BY <3>2 DEF Sort!Swap
      <4>2. /\ entity_draws'[c.j] = entity_draws[c.i]
            /\ entity_draws'[c.i] = entity_draws[c.j]
            /\ \A m \in Entity \ {c.i, c.j} : entity_draws'[m] = entity_draws[m]
        BY <1>3, <2>3, <4>1
      <4>3. entity_draws'[d.high] = entity_draws[c.high]
        BY <1>3, <1>4, <4>2
      <4>4. CASE k = c.i
        <5>1. entity_draws'[k].depth >= entity_draws'[d.high].depth
          BY <2>2, <3>2, <4>2, <4>3, <4>4 DEF Falling
        <5>2. QED
          BY <1>3, <1>4, <3>0, <3>2, <4>4, <5>1
      <4>5. CASE k = c.j /\ k # c.i
        <5>1. ~Falling(c.i, c.high)
          BY <1>3, <2>3, <4>5
        <5>2. ~(entity_draws'[k].depth >= entity_draws'[d.high].depth)
          BY <4>2, <4>3, <4>5, <5>1 DEF Falling
        <5>3. QED
          BY <1>3, <1>4, <3>0, <3>2, <4>5, <5>2
      <4>6. CASE k # c.i /\ k # c.j
        <5>1. entity_draws'[k].depth >= entity_draws'[d.high].depth <=> Falling(k, c.high)
          BY <4>2, <4>3, <4>6 DEF Falling
        <5>2. QED
          BY <1>3, <1>4, <2>3, <3>0, <3>2, <4>6, <5>1
      <4>7. QED
        BY <4>4, <4>5, <4>6
    <3>3. QED
      BY <1>4, <3>1, <3>2
  <2>7. PivotSound'
    BY <1>5, <2>6 DEF PivotSound, Falling
  <2>8. QED
    BY <2>5, <2>7
<1>10. QED
  BY <1>7, <1>8, <1>9 DEF SortedSoFar

\* Half of what a call has to do, at most, is left to a deeper call.
LEMMA HalfIsLeft ==
  ASSUME NEW m \in Nat, NEW size \in Nat, NEW less \in Nat, NEW more \in Nat,
         2 ^ m * size <= Count, size > 1, less + more + 1 = size, less <= more
  PROVE  /\ 2 ^ m * more <= Count
         /\ 2 ^ (m + 1) <= Count /\ 2 ^ (m + 1) * less <= Count
<1> DEFINE u == 2 ^ m
           v == 2 ^ (m + 1)
<1>1. u \in Nat /\ v = 2 * u /\ u * size <= Count
  BY Doubling
<1> HIDE DEF u, v
<1>2. /\ u * size = u * more + u * (less + 1)
      /\ u * size = u * (2 * less) + u * (size - 2 * less)
      /\ u * size = u * 2 + u * (size - 2)
  BY <1>1
<1>3. u * (size - 2 * less) >= 0 /\ u * (size - 2) >= 0
  <2>1. size - 2 * less \in Nat /\ size - 2 \in Nat
    OBVIOUS
  <2>2. \A k \in Nat : u * k >= 0
    BY <1>1
  <2>3. QED
    BY <2>1, <2>2
<1>4. u * more <= Count
  <2>1. u * (less + 1) >= 0
    BY <1>1
  <2> DEFINE x == u * size
             y == u * more
             z == u * (less + 1)
  <2>2. x \in Int /\ y \in Int /\ z \in Int /\ Count \in Int
    BY <1>1, EntityDrawsAssumption
  <2>3. x = y + z /\ z >= 0 /\ x <= Count
    BY <1>1, <1>2, <2>1
  <2> HIDE DEF x, y, z
  <2>4. y <= Count
    BY <2>2, <2>3
  <2>5. QED
    BY <2>4 DEF y
<1>5. v <= Count /\ v * less <= Count
  <2> DEFINE x == u * size
             y == u * (2 * less)
             z == u * (size - 2 * less)
             w == u * (size - 2)
  <2>1. x \in Int /\ y \in Int /\ z \in Int /\ w \in Int /\ Count \in Int /\ u \in Int
    BY <1>1, EntityDrawsAssumption
  <2>2. x = y + z /\ z >= 0 /\ x <= Count /\ x = 2 * u + w /\ w >= 0
    BY <1>1, <1>2, <1>3
  <2>3. v * less = y
    BY <1>1
  <2> HIDE DEF x, y, z, w
  <2>4. y <= Count /\ 2 * u <= Count
    BY <2>1, <2>2
  <2>5. QED
    BY <1>1, <2>3, <2>4
<1>6. QED
  BY <1>4, <1>5 DEF u, v

\* The pivot comes between the two parts, and all before it are before all after.
LEMMA SplitSorts ==
  ASSUME SortInv, SortSplit
  PROVE  StackSound' /\ SortedSoFar' /\ Shallow'
<1> DEFINE c     == Sort!Top
           len   == Len(stack)
           left  == Sort!Part(c.low, c.i - 1)
           right == Sort!Part(c.i + 1, c.high)
<1>1. /\ stack # <<>> /\ c.low < c.high /\ c.j = c.high /\ phase' = phase
      /\ entity_draws' = Sort!Swap(entity_draws, c.i, c.high)
  BY DEF SortSplit, Sort!Split, Sort!Splitting
<1>2. /\ phase = "sorting" /\ len \in Nat /\ len \in 1 .. len /\ c \in Call
      /\ c = stack[len] /\ stack \in Seq(Call)
      /\ \A n \in 1 .. len : stack[n].low \in Nat /\ stack[n].high \in Int
  BY <1>1, TopFacts DEF SortInv, DrawsInv
<1>3. /\ c.low \in Nat /\ c.high \in Nat /\ c.i \in Nat
      /\ c.i \in Entity /\ c.high \in Entity
      /\ c.low <= c.i /\ c.i <= c.high /\ c.high < Count
  BY <1>1, <1>2, CallIndices
<1>4. left \in Call /\ right \in Call
  BY <1>3, EntityDrawsAssumption DEF Call, Sort!Part
<1>5. PICK on \in Call, for \in Call :
        /\ Sort!Recurse(on, for)
        /\ \/ on = right /\ for = left
           \/ on = left /\ for = right
        /\ for.high - for.low <= on.high - on.low
  <2>1. \/ left.high - left.low < right.high - right.low /\ Sort!Recurse(right, left)
        \/ ~(left.high - left.low < right.high - right.low) /\ Sort!Recurse(left, right)
    BY DEF SortSplit, Sort!Split
  <2>2. /\ left.low \in Int /\ left.high \in Int
        /\ right.low \in Int /\ right.high \in Int
    BY <1>4 DEF Call
  <2> HIDE DEF left, right
  <2>3. QED
    BY <1>4, <2>1, <2>2
<1>6. /\ left.low = c.low /\ left.high = c.i - 1
      /\ left.i = left.low /\ left.j = left.low
      /\ right.low = c.i + 1 /\ right.high = c.high
      /\ right.i = right.low /\ right.j = right.low
  BY DEF Sort!Part
<1>7. /\ Len(stack') = len + 1 /\ stack' # <<>> /\ Sort!Top' = for
      /\ \A n \in 1 .. len - 1 : stack'[n] = stack[n]
      /\ stack'[len] = on /\ stack'[len + 1] = for
  BY <1>1, <1>2, <1>5, RecurseIs
<1> HIDE DEF c, len, left, right
<1>8. /\ c.low <= on.low /\ on.high <= c.high /\ c.low <= for.low /\ for.high <= c.high
      /\ on.low \in Int /\ on.high \in Int /\ for.low \in Int /\ for.high \in Int
      /\ on.i = on.low /\ on.j = on.low /\ for.i = for.low /\ for.j = for.low
      /\ Apart(on, for) /\ Apart(for, on)
      /\ (for.high - for.low + 1) + (on.high - on.low + 1) + 1 = c.high - c.low + 1
      /\ for.high - for.low + 1 \in Nat /\ on.high - on.low + 1 \in Nat
  BY <1>3, <1>5, <1>6 DEF Apart
<1>9. \A n \in 1 .. len + 1 : n \in 1 .. len - 1 \/ n = len \/ n = len + 1
  BY <1>2
<1>10. StackSound'
  <2>1. ASSUME NEW m \in 1 .. len - 1
        PROVE  /\ Apart(stack'[m], on) /\ Apart(on, stack'[m])
               /\ Apart(stack'[m], for) /\ Apart(for, stack'[m])
    <3>1. m \in 1 .. len /\ m # len
      BY <1>2
    <3>2. Apart(stack[m], c)
      BY <1>2, <3>1 DEF SortInv, StackSound, len
    <3>3. stack[m].low \in Nat /\ stack[m].high \in Int
      BY <1>2, <3>1
    <3>4. stack'[m] = stack[m]
      BY <1>7
    <3>5. QED
      BY <1>3, <1>8, <3>2, <3>3, <3>4 DEF Apart
  <2>2. ASSUME NEW m \in 1 .. len - 1, NEW n \in 1 .. len - 1, m # n
        PROVE  Apart(stack'[m], stack'[n])
    <3>1. m \in 1 .. len /\ n \in 1 .. len
      BY <1>2
    <3>2. QED
      BY <1>7, <2>2, <3>1 DEF SortInv, StackSound, len
  <2>3. \A m, n \in 1 .. len + 1 : m # n => Apart(stack'[m], stack'[n])
    BY <1>7, <1>8, <1>9, <2>1, <2>2
  <2>4. \A n \in 1 .. len : stack'[n].j = stack'[n].low
    <3>1. \A n \in 1 .. len : n \in 1 .. len - 1 \/ n = len
      BY <1>2
    <3>2. QED
      BY <1>7, <1>8, <3>1 DEF SortInv, StackSound, len
  <2>5. (len + 1) - 1 = len
    BY <1>2
  <2>6. QED
    BY <1>1, <1>2, <1>7, <2>3, <2>4, <2>5 DEF StackSound
<1>11. Shallow'
  <2>1. /\ len - 1 \in Nat /\ (len - 1) + 1 = len /\ (len + 1) - 1 = len
    BY <1>2
  <2>2. 2 ^ (len - 1) <= Count /\ 2 ^ (len - 1) * (c.high - c.low + 1) <= Count
    BY <1>2 DEF SortInv, Shallow, len
  <2>3. /\ 2 ^ (len - 1) * (on.high - on.low + 1) <= Count
        /\ 2 ^ len <= Count /\ 2 ^ len * (for.high - for.low + 1) <= Count
    <3> DEFINE size == c.high - c.low + 1
               less == for.high - for.low + 1
               more == on.high - on.low + 1
    <3>1. /\ size \in Nat /\ size > 1 /\ less \in Nat /\ more \in Nat
          /\ less + more + 1 = size /\ less <= more
      <4>1. less \in Nat /\ more \in Nat /\ less + more + 1 = size
        BY <1>8
      <4>2. less <= more
        BY <1>5, <1>8
      <4>3. size \in Nat /\ size > 1
        BY <1>1, <1>3
      <4>4. QED
        BY <4>1, <4>2, <4>3
    <3>2. 2 ^ (len - 1) * size <= Count
      BY <2>2
    <3> HIDE DEF size, less, more
    <3>3. /\ 2 ^ (len - 1) * more <= Count
          /\ 2 ^ ((len - 1) + 1) <= Count /\ 2 ^ ((len - 1) + 1) * less <= Count
      BY <2>1, <3>1, <3>2, HalfIsLeft
    <3>4. QED
      BY <2>1, <3>3 DEF size, less, more
  <2>4. ASSUME NEW m \in 1 .. len - 1
        PROVE  /\ 2 ^ (m - 1) <= Count
               /\ 2 ^ (m - 1) * (stack'[m].high - stack'[m].low + 1) <= Count
    <3>1. m \in 1 .. len
      BY <1>2
    <3>2. QED
      BY <1>7, <3>1 DEF SortInv, Shallow, len
  <2>5. ASSUME NEW m \in 1 .. len + 1
        PROVE  /\ 2 ^ (m - 1) <= Count
               /\ 2 ^ (m - 1) * (stack'[m].high - stack'[m].low + 1) <= Count
    <3>1. CASE m \in 1 .. len - 1
      BY <2>4, <3>1
    <3>2. CASE m = len
      BY <1>7, <2>2, <2>3, <3>2
    <3>3. CASE m = len + 1
      BY <1>7, <2>1, <2>3, <3>3
    <3>4. QED
      BY <1>9, <3>1, <3>2, <3>3
  <2>6. QED
    BY <1>7, <2>5 DEF Shallow
<1>12. ASSUME Numbers' PROVE OrderSound' /\ PivotSound'
  <2>1. Numbers
    BY <1>1, <1>3, <1>12, NumbersStay DEF SortInv, c
  <2>2. \A k \in Entity : entity_draws[k].depth \in Int
    BY <2>1, DepthsCompare DEF SortInv
  <2>3. /\ entity_draws \in [Entity -> Draw]
        /\ \A k \in Entity : /\ c.low <= k /\ k < c.i => Falling(k, c.high)
                             /\ c.i <= k /\ k < c.high => ~Falling(k, c.high)
    BY <1>1, <1>2, <2>1 DEF SortInv, SortedSoFar, PivotSound, DrawsInv, c
  <2>4. /\ entity_draws'[c.high] = entity_draws[c.i]
        /\ entity_draws'[c.i] = entity_draws[c.high]
        /\ \A m \in Entity \ {c.i, c.high} : entity_draws'[m] = entity_draws[m]
    <3>1. entity_draws' = [entity_draws EXCEPT ![c.i] = entity_draws[c.high],
                                               ![c.high] = entity_draws[c.i]]
      BY <1>1 DEF Sort!Swap, c
    <3>2. QED
      BY <1>3, <2>3, <3>1
  <2>5. \A k \in Entity : k \in Nat
    BY EntityDrawsAssumption DEF Entity
  <2>6. ASSUME NEW k \in Entity
        PROVE  /\ c.low <= k /\ k <= c.i =>
                    entity_draws'[k].depth >= entity_draws[c.high].depth
               /\ c.i <= k /\ k <= c.high =>
                    entity_draws[c.high].depth >= entity_draws'[k].depth
    <3>1. CASE k = c.i
      BY <1>3, <2>2, <2>4, <3>1
    <3>2. CASE k = c.high /\ k # c.i
      <4>1. ~Falling(c.i, c.high)
        BY <1>3, <2>3, <3>2
      <4>2. entity_draws[c.high].depth >= entity_draws'[k].depth
        BY <1>3, <2>2, <2>4, <3>2, <4>1 DEF Falling
      <4>3. QED
        BY <1>3, <3>2, <4>2
    <3>3. CASE k # c.i /\ k # c.high
      <4>1. entity_draws'[k] = entity_draws[k]
        BY <2>4, <3>3
      <4>2. /\ c.low <= k /\ k < c.i => Falling(k, c.high)
            /\ c.i <= k /\ k < c.high => ~Falling(k, c.high)
        BY <2>3
      <4>3. QED
        BY <1>3, <2>2, <2>5, <3>3, <4>1, <4>2 DEF Falling
    <3>4. QED
      BY <3>1, <3>2, <3>3
  <2>7. ASSUME NEW p \in Entity, NEW q \in Entity, p < q
        PROVE  Falling(p, q)' \/ \E n \in 1 .. len + 1 : Within(stack'[n], p, q)
    <3>0. p \in Nat /\ q \in Nat
      BY <2>5
    <3>1. CASE Within(c, p, q)
      <4>1. CASE q < c.i
        <5>1. Within(left, p, q)
          BY <1>3, <1>6, <3>0, <3>1, <4>1 DEF Within
        <5>2. len \in 1 .. len + 1 /\ len + 1 \in 1 .. len + 1
          BY <1>2
        <5>3. QED
          BY <1>5, <1>7, <5>1, <5>2
      <4>2. CASE p > c.i
        <5>1. Within(right, p, q)
          BY <1>3, <1>6, <3>0, <3>1, <4>2 DEF Within
        <5>2. len \in 1 .. len + 1 /\ len + 1 \in 1 .. len + 1
          BY <1>2
        <5>3. QED
          BY <1>5, <1>7, <5>1, <5>2
      <4>3. CASE p <= c.i /\ c.i <= q
        <5>1. /\ entity_draws'[p].depth >= entity_draws[c.high].depth
              /\ entity_draws[c.high].depth >= entity_draws'[q].depth
          BY <2>6, <3>1, <4>3 DEF Within
        <5>2. entity_draws'[p].depth \in Int /\ entity_draws'[q].depth \in Int
          BY <1>3, <2>2, <2>4
        <5>3. Falling(p, q)'
          BY <1>3, <2>2, <5>1, <5>2 DEF Falling
        <5>4. QED
          BY <5>3
      <4>4. QED
        BY <1>3, <3>0, <4>1, <4>2, <4>3
    <3>2. CASE ~Within(c, p, q)
      <4>1. Within(c, c.i, c.i) /\ Within(c, c.high, c.high)
        BY <1>1, <1>3 DEF Within, c
      <4>2. Falling(p, q)' \/ \E n \in 1 .. len - 1 : Within(stack[n], p, q)
        BY <1>1, <1>2, <1>3, <2>1, <2>7, <3>2, <4>1, OutsideStays DEF c, len
      <4>3. \A n \in 1 .. len - 1 : n \in 1 .. len + 1
        BY <1>2
      <4>4. QED
        BY <1>7, <4>2, <4>3
    <3>3. QED
      BY <3>1, <3>2
  <2>8. OrderSound'
    BY <1>7, <2>7 DEF OrderSound
  <2>9. PivotSound'
    <3>1. \A k \in Entity : ~(for.low <= k /\ k < for.i) /\ ~(for.i <= k /\ k < for.j)
      BY <1>8, <2>5
    <3>2. QED
      BY <1>7, <3>1 DEF PivotSound
  <2>10. QED
    BY <2>8, <2>9
<1>13. QED
  BY <1>10, <1>11, <1>12 DEF SortedSoFar

\* A call with nothing to sort returns: no two elements were within its part.
LEMMA ReturnSorts ==
  ASSUME SortInv, SortReturn
  PROVE  StackSound' /\ SortedSoFar' /\ Shallow'
<1> DEFINE c   == Sort!Top
           len == Len(stack)
<1>1. /\ stack # <<>> /\ c.low >= c.high /\ UNCHANGED <<phase, entity_draws>>
      /\ stack' = SubSeq(stack, 1, Len(stack) - 1)
  BY DEF SortReturn, Sort!Return
<1>2. /\ phase = "sorting" /\ len \in Nat /\ c = stack[len] /\ c \in Call
      /\ \A n \in 1 .. len : stack[n] \in Call
  BY <1>1, StackTop, ElementOfSeq DEF SortInv, DrawsInv, StackSound, Sort!Top
<1>3. /\ Len(stack') = len - 1
      /\ \A n \in 1 .. len - 1 : stack'[n] = stack[n]
      /\ stack' # <<>> => len - 1 \in 1 .. len - 1 /\ Sort!Top' = stack[len - 1]
  BY <1>1, ReturnIs DEF SortInv, DrawsInv
<1> HIDE DEF c, len
<1>4. /\ \A n \in 1 .. len - 1 : n \in 1 .. len
      /\ \A n \in 1 .. (len - 1) - 1 : n \in 1 .. len - 1
      /\ \A n \in 1 .. len : n \in 1 .. len - 1 \/ n = len
  BY <1>2
<1>5. StackSound'
  <2>1. \A m, n \in 1 .. len - 1 : m # n => Apart(stack'[m], stack'[n])
    BY <1>3, <1>4 DEF SortInv, StackSound, len
  <2>2. \A n \in 1 .. (len - 1) - 1 : stack'[n].j = stack'[n].low
    BY <1>3, <1>4 DEF SortInv, StackSound, len
  <2>3. QED
    BY <1>1, <1>2, <1>3, <2>1, <2>2 DEF StackSound
<1>6. Shallow'
  <2>1. \A m \in 1 .. len - 1 :
          /\ 2 ^ (m - 1) <= Count
          /\ 2 ^ (m - 1) * (stack'[m].high - stack'[m].low + 1) <= Count
    BY <1>3, <1>4 DEF SortInv, Shallow, len
  <2>2. QED
    BY <1>3, <2>1 DEF Shallow
<1>7. ASSUME Numbers' PROVE OrderSound' /\ PivotSound'
  <2>1. Numbers
    BY <1>1, <1>7 DEF Numbers
  <2>2. ASSUME NEW p \in Entity, NEW q \in Entity, p < q
        PROVE  Falling(p, q)' \/ \E n \in 1 .. len - 1 : Within(stack'[n], p, q)
    <3>1. Falling(p, q) \/ \E n \in 1 .. len : Within(stack[n], p, q)
      BY <1>2, <2>1, <2>2 DEF SortInv, SortedSoFar, OrderSound, len
    <3>2. ~Within(c, p, q)
      BY <1>1, <1>2, <2>2, EntityDrawsAssumption DEF Within, Call, Entity
    <3>3. CASE Falling(p, q)
      BY <1>1, <3>3 DEF Falling
    <3>4. CASE \E n \in 1 .. len : Within(stack[n], p, q)
      BY <1>2, <1>3, <1>4, <3>2, <3>4
    <3>5. QED
      BY <3>1, <3>3, <3>4
  <2>3. OrderSound'
    BY <1>3, <2>2 DEF OrderSound
  <2>4. ASSUME stack' # <<>>, NEW k \in Entity
        PROVE  /\ ~(stack[len - 1].low <= k /\ k < stack[len - 1].i)
               /\ ~(stack[len - 1].i <= k /\ k < stack[len - 1].j)
    <3>1. /\ stack[len - 1].j = stack[len - 1].low /\ stack[len - 1] \in Call
          /\ k \in Nat
      BY <1>2, <1>3, <1>4, <2>4, EntityDrawsAssumption
         DEF SortInv, StackSound, len, Entity
    <3>2. QED
      BY <3>1 DEF Call
  <2>5. PivotSound'
    BY <1>3, <2>4 DEF PivotSound
  <2>6. QED
    BY <2>3, <2>5
<1>8. QED
  BY <1>5, <1>6, <1>7 DEF SortedSoFar

\* The first call is for the whole array.
LEMMA PrepareSorts ==
  ASSUME SortInv, Prepare
  PROVE  StackSound' /\ SortedSoFar' /\ Shallow'
<1> DEFINE c == Sort!Part(0, Count - 1)
<1>1. phase' = "sorting" /\ stack' = <<c>>
  BY DEF Prepare, Sort!Calls
<1>2. /\ c.low = 0 /\ c.high = Count - 1 /\ c.i = 0 /\ c.j = 0
  BY DEF Sort!Part
<1> HIDE DEF c
<1>3. /\ Len(stack') = 1 /\ stack'[1] = c /\ Sort!Top' = c /\ stack' # <<>>
  BY <1>1 DEF Sort!Top
<1>4. StackSound'
  BY <1>1, <1>3 DEF StackSound
<1>5. Shallow'
  <2>1. 2 ^ 0 = 1 /\ 1 - 1 = 0
    OBVIOUS
  <2>2. Count \in Nat /\ Count >= 1 /\ c.high - c.low + 1 = Count
    BY <1>2, EntityDrawsAssumption
  <2>3. 1 <= Count /\ 1 * (c.high - c.low + 1) <= Count
    BY <2>2
  <2>4. \A m \in 1 .. 1 : m = 1
    OBVIOUS
  <2>5. QED
    BY <1>3, <2>1, <2>3, <2>4 DEF Shallow
<1>6. OrderSound'
  <2>1. \A p, q \in Entity : Within(stack'[1], p, q)
    BY <1>2, <1>3, EntityDrawsAssumption DEF Within, Entity
  <2>2. QED
    BY <1>3, <2>1 DEF OrderSound
<1>7. PivotSound'
  <2>1. \A k \in Entity : ~(c.low <= k /\ k < c.i) /\ ~(c.i <= k /\ k < c.j)
    BY <1>2, EntityDrawsAssumption DEF Entity
  <2>2. QED
    BY <1>3, <2>1 DEF PivotSound
<1>8. QED
  BY <1>4, <1>5, <1>6, <1>7 DEF SortedSoFar

\* The other steps leave the array and the stack alone.
LEMMA RestSorts ==
  ASSUME SortInv, StartDrawing \/ EndFrame \/ UNCHANGED vars
  PROVE  StackSound' /\ SortedSoFar' /\ Shallow'
<1>1. /\ UNCHANGED <<entity_draws, stack>>
      /\ \/ phase' = phase
         \/ phase = "sorting" /\ phase' = "drawing" /\ stack = <<>>
         \/ phase = "drawing" /\ phase' = "simulating"
  BY DEF StartDrawing, EndFrame, vars
<1>2. StackSound' /\ Shallow'
  BY <1>1 DEF SortInv, StackSound, Shallow
<1>3. SortedSoFar'
  BY <1>1 DEF SortInv, SortedSoFar, Numbers, OrderSound, PivotSound, Falling, Sort!Top
<1>4. QED
  BY <1>2, <1>3

\* The inductive invariant of the sort (sort.c, entity.c): what is within no part
\* still to be sorted is in order if the depths are numbers, and every call has at
\* most half as much to do as the one it was made from.
THEOREM SortInvariant == Spec => []SortInv
<1>1. Init => SortInv
  <2> SUFFICES ASSUME Init PROVE SortInv
    OBVIOUS
  <2>1. stack = <<>> /\ Len(stack) = 0 /\ phase = "simulating"
    BY DEF Init
  <2>2. QED
    BY <2>1, InitDraws DEF SortInv, StackSound, SortedSoFar, Shallow
<1>2. SortInv /\ [Next]_vars => SortInv'
  <2> SUFFICES ASSUME SortInv, [Next]_vars PROVE SortInv'
    OBVIOUS
  <2>1. DrawsInv'
    BY DrawsStep DEF SortInv
  <2>2. StackSound' /\ SortedSoFar' /\ Shallow'
    BY CompareSorts, SplitSorts, ReturnSorts, PrepareSorts, RestSorts DEF Next
  <2>3. QED
    BY <2>1, <2>2 DEF SortInv
<1>3. QED
  BY <1>1, <1>2, PTL DEF Spec

\* The calls of qsort_generic are nested no deeper than the logarithm of the number
\* of entities, whatever the depths are: it calls itself for the shorter part.
THEOREM CallsStayShallow == Spec => []StackStaysShallow
<1>1. SortInv => StackStaysShallow
  <2> SUFFICES ASSUME SortInv, stack # <<>> PROVE 2 ^ (Len(stack) - 1) <= Count
    BY DEF StackStaysShallow
  <2>1. Len(stack) \in 1 .. Len(stack)
    BY StackTop DEF SortInv, DrawsInv
  <2>2. QED
    BY <2>1 DEF SortInv, Shallow
<1>2. QED
  BY <1>1, SortInvariant, PTL

\* Entities are drawn in the painter's order in every frame in which no depth is
\* NaN, however old the depths of those that are not visible.
THEOREM DrawnInPaintersOrder ==
  Spec => [](phase = "drawing" /\ Numbers => PaintersOrder)
<1>1. SortInv => (phase = "drawing" /\ Numbers => PaintersOrder)
  <2> SUFFICES ASSUME SortInv, phase = "drawing", Numbers PROVE PaintersOrder
    OBVIOUS
  <2>1. stack = <<>> /\ Len(stack) = 0
    BY DEF SortInv, StackSound
  <2>2. QED
    BY <2>1 DEF SortInv, SortedSoFar, OrderSound, Falling, PaintersOrder, Drawn
<1>2. QED
  BY <1>1, SortInvariant, PTL

-----------------------------------------------------------------------------
\* Scene only adds what draw_walls and draw_entities do in the phase "drawing".
THEOREM SceneRefinement == SceneSpec => Spec
<1>1. SceneInit => Init
  BY DEF SceneInit
<1>2. [SceneNext]_sceneVars => [Next]_vars
  BY Zenon DEF SceneNext, DrawWalls, DrawEntity, ShowFrame, Next, sceneVars
<1>3. QED
  BY <1>1, <1>2, PTL DEF SceneSpec, Spec

\* So no entity is drawn twice or left out of a frame.
THEOREM SceneLosesNoEntity == SceneSpec => []EachEntityDrawnOnce
BY SceneRefinement, NoEntityLost, PTL

\* The entries this frame has put in a column and draw_entities does not leave to
\* the wall.
InSight(c) ==
  {k \in Entity : c \in covered[k] /\ ~Hidden(c, entity_draws[k].depth)}

\* What has been put on the screen so far: entries up to the one the loop is
\* at, and in each column the last of those the wall does not hide.
ScreenInv ==
  phase = "drawing" =>
    /\ next \in 0 .. Count
    /\ \A k \in Entity : covered[k] # {} => k < next /\ k \in Drawn
    /\ \A c \in Columns :
         \/ screen[c] = Wall /\ InSight(c) = {}
         \/ /\ screen[c] \in InSight(c)
            /\ \A k \in InSight(c) : k <= screen[c]

\* The arrays have their shape in every phase.
ScreenShape ==
  /\ DOMAIN screen = Columns
  /\ DOMAIN covered = Entity

LEMMA DrawWallsStart ==
  DrawWalls => ScreenInv' /\ ScreenShape'
<1> SUFFICES ASSUME DrawWalls PROVE ScreenInv' /\ ScreenShape'
  OBVIOUS
<1>1. /\ screen' = [c \in Columns |-> Wall]
      /\ next' = 0 /\ covered' = [e \in Entity |-> {}]
  BY DEF DrawWalls
<1>2. Count \in Nat
  BY EntityDrawsAssumption
<1>3. \A c \in Columns : InSight(c)' = {}
  BY <1>1 DEF InSight
<1>4. QED
  BY <1>1, <1>2, <1>3 DEF ScreenInv, ScreenShape

\* A round adds one entry, later than all before: where it is in sight it comes
\* on top, and elsewhere nothing changes.
LEMMA DrawEntityKeeps ==
  ScreenInv /\ ScreenShape /\ DrawEntity => ScreenInv' /\ ScreenShape'
<1> SUFFICES ASSUME ScreenInv, ScreenShape, DrawEntity
             PROVE  ScreenInv' /\ ScreenShape'
  OBVIOUS
<1>1. /\ phase = "drawing" /\ phase' = "drawing"
      /\ next \in Entity /\ next' = next + 1 /\ next' \in 0 .. Count
      /\ entity_draws' = entity_draws /\ visible' = visible
      /\ wall_distance_by_column' = wall_distance_by_column
  BY EntityDrawsAssumption DEF DrawEntity, ScreenInv, vars, Entity
<1>2. Drawn' = Drawn
  BY <1>1 DEF Drawn
<1>3. next \notin Drawn =>
        screen' = screen /\ covered' = covered
  BY DEF DrawEntity
<1>4. CASE next \notin Drawn
  <2>1. \A c \in Columns : InSight(c)' = InSight(c)
    BY <1>1, <1>3, <1>4 DEF InSight, Hidden
  <2>2. QED
    BY <1>1, <1>2, <1>3, <1>4, <2>1 DEF ScreenInv, ScreenShape, Entity
<1>5. CASE next \in Drawn
  <2> DEFINE d == entity_draws[next]
  <2>1. PICK columns :
          /\ covered' = [covered EXCEPT ![next] = columns]
          /\ screen' = [c \in Columns |->
                          IF c \in columns /\ ~Hidden(c, d.depth)
                            THEN next ELSE screen[c]]
    BY <1>5 DEF DrawEntity
  <2>2. ScreenShape'
    BY <2>1 DEF ScreenShape
  <2>3. \A k \in Entity : covered'[k] = IF k = next THEN columns ELSE covered[k]
    BY <2>1 DEF ScreenShape
  <2>4. covered[next] = {}
    BY <1>1 DEF ScreenInv, Entity
  <2>5. \A k \in Entity : covered'[k] # {} => k < next' /\ k \in Drawn'
    <3> SUFFICES ASSUME NEW k \in Entity, covered'[k] # {}
                 PROVE  k < next' /\ k \in Drawn'
      OBVIOUS
    <3>1. CASE k = next
      BY <1>1, <1>2, <1>5, <3>1 DEF Entity
    <3>2. CASE k # next
      BY <1>1, <1>2, <2>3, <3>2 DEF Entity, ScreenInv
    <3>3. QED
      BY <3>1, <3>2
  <2>6. ASSUME NEW c \in Columns
        PROVE  \/ screen'[c] = Wall /\ InSight(c)' = {}
               \/ /\ screen'[c] \in InSight(c)'
                  /\ \A k \in InSight(c)' : k <= screen'[c]
    <3>1. \A k \in InSight(c) : k < next
      BY <1>1 DEF InSight, ScreenInv
    <3>2. screen'[c] = IF c \in columns /\ ~Hidden(c, d.depth)
                         THEN next ELSE screen[c]
      BY <2>1
    <3>3. InSight(c)' =
            InSight(c) \cup
              (IF c \in columns /\ ~Hidden(c, d.depth)
                 THEN {next} ELSE {})
      <4>1. \A k \in Entity :
              k \in InSight(c)' <=>
                /\ c \in covered'[k]
                /\ ~Hidden(c, entity_draws[k].depth)
        BY <1>1 DEF InSight, Hidden
      <4>2. \A k \in Entity :
              k \in InSight(c) <=>
                /\ c \in covered[k]
                /\ ~Hidden(c, entity_draws[k].depth)
        BY DEF InSight
      <4>3. InSight(c)' \subseteq Entity /\ InSight(c) \subseteq Entity
        BY DEF InSight
      <4> HIDE DEF d
      <4>4. d = entity_draws[next]
        BY DEF d
      <4>5. QED
        BY <1>1, <2>3, <2>4, <4>1, <4>2, <4>3, <4>4
    <3>4. CASE c \in columns /\ ~Hidden(c, d.depth)
      <4>1. screen'[c] = next /\ InSight(c)' = InSight(c) \cup {next}
        BY <3>2, <3>3, <3>4
      <4>2. \A k \in InSight(c)' : k <= next
        BY <1>1, <3>1, <4>1 DEF InSight, Entity
      <4>3. QED
        BY <4>1, <4>2
    <3>5. CASE ~(c \in columns /\ ~Hidden(c, d.depth))
      <4>1. screen'[c] = screen[c] /\ InSight(c)' = InSight(c)
        BY <3>2, <3>3, <3>5
      <4>2. QED
        BY <1>1, <4>1 DEF ScreenInv
    <3>6. QED
      BY <3>4, <3>5
  <2>7. QED
    BY <1>1, <2>2, <2>5, <2>6 DEF ScreenInv
<1>6. QED
  BY <1>4, <1>5

\* The screen and the lengths of the rays, in every frame.
SceneInv ==
  /\ ScreenInv /\ ScreenShape
  /\ wall_distance_by_column \in Walls
  /\ phase = "drawing" => stack = <<>>

\* The screen is filled from the back, whatever order the entities come in.
LEMMA SceneInvariant == SceneSpec => []SceneInv
<1>1. SceneInit => SceneInv
  BY DEF SceneInit, Init, SceneInv, ScreenInv, ScreenShape
<1>2. SceneInv /\ [SceneNext]_sceneVars => SceneInv'
  <2> SUFFICES ASSUME SceneInv, [SceneNext]_sceneVars PROVE SceneInv'
    OBVIOUS
  <2>1. ASSUME phase' # "drawing", UNCHANGED screenVars PROVE SceneInv'
    BY <2>1 DEF SceneInv, ScreenInv, ScreenShape, screenVars
  <2>2. CASE Prepare /\ UNCHANGED screenVars
    <3>1. phase' = "sorting"
      BY <2>2, Zenon DEF Prepare
    <3>2. QED
      BY <2>1, <2>2, <3>1
  <2>3. ASSUME SortCompare \/ SortSplit \/ SortReturn, UNCHANGED screenVars
        PROVE  SceneInv'
    <3>1. stack # <<>>
      BY <2>3, Zenon DEF SortCompare, SortSplit, SortReturn, Sort!Compare, Sort!Split,
             Sort!Return, Sort!Comparing, Sort!Splitting
    <3>2. phase' = phase
      BY <2>3, Zenon DEF SortCompare, SortSplit, SortReturn
    <3>3. QED
      BY <2>1, <2>3, <3>1, <3>2 DEF SceneInv
  <2>4. CASE DrawWalls
    <3>1. stack' = <<>> /\ wall_distance_by_column' \in Walls
      BY <2>4 DEF DrawWalls, StartDrawing
    <3>2. QED
      BY <2>4, <3>1, DrawWallsStart DEF SceneInv
  <2>5. CASE DrawEntity
    <3>1. UNCHANGED <<phase, stack, wall_distance_by_column>>
      BY <2>5 DEF DrawEntity, vars
    <3>2. QED
      BY <2>5, <3>1, DrawEntityKeeps DEF SceneInv
  <2>6. CASE ShowFrame
    BY <2>1, <2>6 DEF ShowFrame, EndFrame
  <2>7. CASE UNCHANGED sceneVars
    BY <2>7 DEF sceneVars, vars, screenVars, SceneInv, ScreenInv, ScreenShape, InSight,
           Hidden, Drawn
  <2>8. QED
    BY <2>2, <2>3, <2>4, <2>5, <2>6, <2>7 DEF SceneNext
<1>3. QED
  BY <1>1, <1>2, PTL DEF SceneSpec

\* The order of products.
LEMMA ProductOrder ==
  ASSUME NEW a \in Nat, NEW b \in Nat, NEW m \in Nat, NEW n \in Nat, a <= b, m <= n
  PROVE  a * m <= b * n
<1>1. a * m <= b * m
  OBVIOUS
<1>2. b * m <= b * n
  OBVIOUS
<1>3. a * m \in Nat /\ b * m \in Nat /\ b * n \in Nat
  OBVIOUS
<1>4. QED
  BY <1>1, <1>2, <1>3

\* A column is farther from the middle than the middle, and not as far as the edge.
LEMMA SlantOfColumn ==
  ASSUME NEW c \in Columns
  PROVE  /\ Slant(0) \in Nat /\ Slant(Aside(c)) \in Nat
         /\ Slant(RENDER_TEXTURE_WIDTH) \in Nat
         /\ 0 < Slant(0) /\ Slant(0) <= Slant(Aside(c))
         /\ Slant(Aside(c)) <= Slant(RENDER_TEXTURE_WIDTH)
<1> DEFINE n == Aside(c)
           w == RENDER_TEXTURE_WIDTH
           d == DIST_PROJ_PLANE
<1>1. /\ w \in Nat /\ d \in Nat /\ d > 0
      /\ n \in Int /\ n <= w /\ -n <= w
  BY SceneAssumption DEF Columns, Aside
<1>2. /\ Slant(0) = 4 * d * d + 0 * 0 /\ Slant(n) = 4 * d * d + n * n
      /\ Slant(w) = 4 * d * d + w * w
  BY DEF Slant
<1> HIDE DEF n, w, d
<1>3. n * n \in Nat /\ n * n <= w * w /\ w * w \in Nat
  <2>1. CASE n >= 0
    BY <1>1, <2>1, ProductOrder
  <2>2. CASE n < 0
    <3>1. (-n) * (-n) = n * n /\ -n \in Nat
      BY <1>1, <2>2
    <3>2. (-n) * (-n) <= w * w /\ (-n) * (-n) \in Nat
      BY <1>1, <3>1, ProductOrder
    <3>3. QED
      BY <1>1, <3>1, <3>2
  <2>3. QED
    BY <1>1, <2>1, <2>2
<1>4. 4 * d * d \in Nat /\ 4 * d * d > 0
  BY <1>1
<1>5. /\ Slant(0) \in Nat /\ Slant(n) \in Nat /\ Slant(w) \in Nat
      /\ 0 < Slant(0) /\ Slant(0) <= Slant(n) /\ Slant(n) <= Slant(w)
  BY <1>2, <1>3, <1>4
<1>6. QED
  BY <1>5 DEF n, w

\* What draw_entities makes of a depth and what draw_walls makes of the wall: an
\* entity it leaves to the wall is behind it, and one it does not is at most a
\* little behind it.
LEMMA WallsOfColumn ==
  ASSUME wall_distance_by_column \in Walls, NEW c \in Columns, NEW depth \in Nat
  PROVE  /\ Hidden(c, depth) => WallIsNearer(c, depth)
         /\ ~Hidden(c, depth) => ~WallIsFarNearer(c, depth)
<1> DEFINE wall == wall_distance_by_column[c]
           mid  == Slant(0)
           here == Slant(Aside(c))
           edge == Slant(RENDER_TEXTURE_WIDTH)
<1>1. wall \in Nat
  BY SceneAssumption
<1>2. /\ Hidden(c, depth) <=> wall < depth
      /\ WallIsNearer(c, depth) <=> wall * wall * mid < depth * depth * here
      /\ WallIsFarNearer(c, depth) <=> wall * wall * edge < depth * depth * here
  BY DEF Hidden, WallIsNearer, WallIsFarNearer
<1>3. /\ mid \in Nat /\ here \in Nat /\ edge \in Nat
      /\ 0 < mid /\ mid <= here /\ here <= edge
  BY SlantOfColumn
<1> HIDE DEF wall, mid, here, edge
<1>4. ASSUME wall < depth PROVE wall * wall * mid < depth * depth * here
  <2>1. wall * wall \in Nat /\ depth * depth \in Nat /\ wall * wall + 1 <= depth * depth
    <3>1. (wall + 1) * (wall + 1) <= depth * depth
      BY <1>1, <1>4, ProductOrder
    <3>2. (wall + 1) * (wall + 1) = wall * wall + 2 * wall + 1
      BY <1>1
    <3>3. wall * wall \in Nat /\ depth * depth \in Nat
      BY <1>1
    <3>4. QED
      BY <1>1, <3>1, <3>2, <3>3
  <2>2. (wall * wall + 1) * mid <= depth * depth * here
    BY <1>3, <2>1, ProductOrder
  <2>3. (wall * wall + 1) * mid = wall * wall * mid + mid
    BY <1>3, <2>1
  <2>4. wall * wall * mid \in Nat /\ depth * depth * here \in Nat
    BY <1>3, <2>1
  <2>5. QED
    BY <1>3, <2>2, <2>3, <2>4
<1>5. ASSUME depth <= wall PROVE depth * depth * here <= wall * wall * edge
  <2>1. /\ wall * wall \in Nat /\ depth * depth \in Nat
        /\ depth * depth <= wall * wall
    BY <1>1, <1>5, ProductOrder
  <2>2. QED
    BY <1>3, <2>1, ProductOrder
<1>6. /\ wall * wall * edge \in Nat /\ depth * depth * here \in Nat
  BY <1>1, <1>3
<1>7. QED
  BY <1>1, <1>2, <1>4, <1>5, <1>6

\* What is on the screen, from what has been drawn.
LEMMA NearestFromLast ==
  ASSUME SceneInv, DrawsInv, VisibleKnown, Numbers => PaintersOrder
  PROVE  NearestOnTop
<1> SUFFICES ASSUME phase = "drawing", next = Count, NEW c \in Columns
             PROVE
               LET there    == {k \in Entity : c \in covered[k]}
                   depth(k) == entity_draws[k].depth
               IN  /\ (\E k \in there : ~WallIsNearer(c, depth(k))) => screen[c] # Wall
                   /\ screen[c] # Wall =>
                        /\ screen[c] \in there
                        /\ ~WallIsFarNearer(c, depth(screen[c]))
                        /\ (\A k \in Entity : depth(k) # NaN)
                             => \A k \in there : depth(screen[c]) <= depth(k)
  BY DEF NearestOnTop
<1> DEFINE there    == {k \in Entity : c \in covered[k]}
           depth(k) == entity_draws[k].depth
           top      == screen[c]
<1>1. \A k \in there : k \in Entity /\ k \in Drawn /\ depth(k) \in Nat
  <2> SUFFICES ASSUME NEW k \in there
               PROVE  k \in Entity /\ k \in Drawn /\ depth(k) \in Nat
    OBVIOUS
  <2>1. k \in Entity /\ k \in Drawn
    BY DEF SceneInv, ScreenInv
  <2>2. visible[entity_draws[k].id] /\ depth(k) > 0
    BY <2>1 DEF Drawn
  <2>3. depth(k) \in Int
    BY <2>1, <2>2, EntityDrawsAssumption DEF VisibleKnown
  <2>4. QED
    BY <2>1, <2>2, <2>3
<1>2. \A k \in Entity : k \in InSight(c) <=> k \in there /\ ~Hidden(c, depth(k))
  BY DEF InSight
<1>3. \/ top = Wall /\ InSight(c) = {}
      \/ top \in InSight(c) /\ \A k \in InSight(c) : k <= top
  BY DEF SceneInv, ScreenInv
<1>4. wall_distance_by_column \in Walls /\ wall_distance_by_column[c] \in Nat
  BY SceneAssumption DEF SceneInv
<1> HIDE DEF there, depth, top
<1>5. InSight(c) \subseteq Entity /\ Wall \notin Entity
  BY SceneAssumption DEF InSight
<1>6. \A k \in there :
        /\ ~WallIsNearer(c, depth(k)) => ~Hidden(c, depth(k))
        /\ ~Hidden(c, depth(k)) => ~WallIsFarNearer(c, depth(k))
  BY <1>1, <1>4, WallsOfColumn
<1>7. ASSUME NEW k \in there, ~WallIsNearer(c, depth(k)) PROVE top # Wall
  <2>1. k \in InSight(c)
    BY <1>1, <1>2, <1>6, <1>7
  <2>2. QED
    BY <1>3, <1>5, <2>1
<1>8. ASSUME top # Wall PROVE top \in there /\ ~WallIsFarNearer(c, depth(top))
  <2>1. top \in InSight(c) /\ top \in Entity
    BY <1>3, <1>5, <1>8
  <2>2. top \in there /\ ~Hidden(c, depth(top))
    BY <1>2, <2>1
  <2>3. QED
    BY <1>6, <2>2
<1>9. ASSUME top # Wall, Numbers, NEW k \in there PROVE depth(top) <= depth(k)
  <2>1. /\ top \in InSight(c) /\ top \in Entity /\ \A m \in InSight(c) : m <= top
    BY <1>3, <1>5, <1>9
  <2>2. /\ top \in there /\ ~Hidden(c, depth(top))
        /\ depth(top) \in Nat /\ depth(k) \in Nat
        /\ k \in Entity /\ k \in Drawn /\ top \in Drawn
    BY <1>1, <1>2, <2>1
  <2>3. CASE Hidden(c, depth(k))
    BY <1>4, <2>2, <2>3 DEF Hidden
  <2>4. CASE ~Hidden(c, depth(k))
    <3>1. k <= top /\ k \in Int /\ top \in Int
      BY <1>2, <2>1, <2>2, <2>4 DEF Entity
    <3>2. CASE k = top
      BY <2>2, <3>2
    <3>3. CASE k # top
      <4>1. k < top /\ PaintersOrder
        BY <1>9, <3>1, <3>3
      <4>2. entity_draws[k].depth >= entity_draws[top].depth
        BY <2>2, <4>1 DEF PaintersOrder
      <4>3. QED
        BY <2>2, <4>2 DEF depth
    <3>4. QED
      BY <3>2, <3>3
  <2>5. QED
    BY <2>3, <2>4
<1>10. Numbers <=> \A k \in Entity : depth(k) # NaN
  BY DEF Numbers, depth
<1>11. QED
  BY <1>7, <1>8, <1>9, <1>10 DEF there, depth, top

\* The order of drawing does its work: when the frame is shown every column shows
\* the nearest entity, no wall hides what is in front of it, and no entity is shown
\* through a wall that is far nearer (draw.c, entity.c, sort.c, ray.c).
THEOREM NearestIsOnTop == SceneSpec => []NearestOnTop
<1>1. SceneSpec => [](phase = "drawing" /\ Numbers => PaintersOrder)
  BY SceneRefinement, DrawnInPaintersOrder, PTL
<1>2. SceneSpec => [](DrawsInv /\ VisibleKnown)
  BY SceneRefinement, DrawsInvariant, VisibleDepthIsKnown, PTL
<1>3. /\ SceneInv /\ DrawsInv /\ VisibleKnown
      /\ (phase = "drawing" /\ Numbers => PaintersOrder)
      => NearestOnTop
  <2> SUFFICES ASSUME SceneInv, DrawsInv, VisibleKnown,
                      phase = "drawing" /\ Numbers => PaintersOrder
               PROVE  NearestOnTop
    OBVIOUS
  <2>1. CASE phase = "drawing"
    BY <2>1, NearestFromLast
  <2>2. CASE phase # "drawing"
    BY <2>2 DEF NearestOnTop
  <2>3. QED
    BY <2>1, <2>2
<1>4. QED
  BY <1>1, <1>2, <1>3, SceneInvariant, PTL

\* The calls of qsort_generic stay shallow in Scene too.
THEOREM SceneStaysShallow == SceneSpec => []StackStaysShallow
BY SceneRefinement, CallsStayShallow, PTL
=============================================================================
